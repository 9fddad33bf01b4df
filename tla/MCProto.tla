------------------------------- MODULE MCProto -------------------------------
(* Instances of Proto for TLC: every message over a few values.            *)
EXTENDS Proto
=============================================================================
