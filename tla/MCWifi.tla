------------------------------- MODULE MCWifi --------------------------------
(* Instances of Wifi for TLC: both nodes, every state of the network.      *)
EXTENDS Wifi
=============================================================================
