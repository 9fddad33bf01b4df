------------------------------ MODULE MCWsAuth ------------------------------
(* Instances of WsAuth for TLC. *)
EXTENDS WsAuth, TLC

CONSTANTS n1, n2, n3

\* Nonces are only compared for equality.
NonceSymmetry == Permutations(Nonces)
=============================================================================
