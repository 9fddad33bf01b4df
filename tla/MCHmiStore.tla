----------------------------- MODULE MCHmiStore ------------------------------
(* An instance of HmiStore for TLC: two sensor nodes that can be used, one  *)
(* announcement that cannot, two scales and two languages.                  *)
EXTENDS HmiStore

Announcements ==
    {[addr |-> "addr1", proto |-> "wss", path |-> None, host |-> None, hostname |-> "node1"],
     [addr |-> "addr2", proto |-> "no token", path |-> "ws", host |-> "name2", hostname |-> "node2"],
     [addr |-> "addr3", proto |-> "mqtt", path |-> None, host |-> None, hostname |-> "node3"]}
=============================================================================
