-------------------------------- MODULE MCOta --------------------------------
(* An instance of Ota for TLC: a newer image of each kind, and one more.    *)
EXTENDS Ota

FirstImage == [version |-> 1, kind |-> "good"]
AllImages ==
    {FirstImage, [version |-> 2, kind |-> "crashes"], [version |-> 3, kind |-> "deaf"],
     [version |-> 4, kind |-> "good"]}
=============================================================================
