-------------------------------- MODULE Feed ---------------------------------
(***************************************************************************)
(* What the telemetry promises of the screen: it shows snapshots of its    *)
(* source, each taken whole at one moment, and in the order in which they  *)
(* were taken.  Those that are on their way may be lost.                   *)
(***************************************************************************)
EXTENDS Naturals, Sequences

CONSTANTS Models, First

VARIABLES source, coming, shown

Init == source = First /\ coming = <<>> /\ shown = First

Changes == source' \in Models /\ UNCHANGED <<coming, shown>>

Takes == coming' = Append(coming, source) /\ UNCHANGED <<source, shown>>

Shows == coming # <<>> /\ shown' = Head(coming) /\ coming' = Tail(coming) /\ UNCHANGED source

\* Snapshots that follow each other are lost; those from number i + 1 up to number j.
Loses(i, j) ==
    /\ coming' = SubSeq(coming, 1, i) \o SubSeq(coming, j + 1, Len(coming))
    /\ UNCHANGED <<source, shown>>

Next ==
    \/ Changes \/ Takes \/ Shows
    \/ \E j \in 1 .. Len(coming) : \E i \in 0 .. (j - 1) : Loses(i, j)

Spec == Init /\ [][Next]_<<source, coming, shown>>
=============================================================================
