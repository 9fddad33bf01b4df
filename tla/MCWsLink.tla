------------------------------ MODULE MCWsLink ------------------------------
(* Instances of WsLink for TLC. *)
EXTENDS WsLink
=============================================================================
