--------------------------- MODULE MCWsKeepAlive ---------------------------
(* Instances of WsKeepAlive for TLC. *)
EXTENDS WsKeepAlive, TLC

CONSTANTS f1, f2

\* Descriptors are only compared for equality.
FdSymmetry == Permutations(Fds)
=============================================================================
