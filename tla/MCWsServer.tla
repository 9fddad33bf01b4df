----------------------------- MODULE MCWsServer -----------------------------
(* Instances of WsServer for TLC. *)
EXTENDS WsServer, TLC

CONSTANTS f1, f2

\* Descriptors are only compared for equality.
FdSymmetry == Permutations(Fds)
=============================================================================
