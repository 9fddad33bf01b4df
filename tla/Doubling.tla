------------------------------ MODULE Doubling -------------------------------
(***************************************************************************)
(* Powers of two, for the delays that double: the back-off of the Wi-Fi    *)
(* manager, of the WebSocket client and of the OTA task.  DoublingProofs   *)
(* has the facts about them that the proofs use.                           *)
(***************************************************************************)
EXTENDS Integers

\* A delay doubled n times is Pow2[n] times what it was.
Pow2[n \in Nat] == IF n = 0 THEN 1 ELSE 2 * Pow2[n - 1]
=============================================================================
