------------------------------ MODULE Settings -------------------------------
(***************************************************************************)
(* What the HMI promises of the user's preferences: one choice is in       *)
(* force, one is kept over a restart, a restart brings back the one that   *)
(* was kept, and nothing but a choice of the user, whole, is ever in force *)
(* or kept.  Keeping may fail; then the one kept before comes back.        *)
(***************************************************************************)
CONSTANTS Choices, Default

VARIABLES inForce, kept

Init == inForce = kept /\ kept \in Choices

\* The user applies a choice, or goes back to the defaults.
Chooses(p) == inForce' = p /\ kept' = kept

\* The choice in force is kept.
Keeps == kept' = inForce /\ inForce' = inForce

\* A restart, with what is kept or, when it cannot be read, with the defaults.
Restarts == inForce' \in {kept, Default} /\ kept' = kept

\* A restart that finds the storage unusable and erases it.
Loses == inForce' = Default /\ kept' = Default

Next == (\E p \in Choices : Chooses(p)) \/ Keeps \/ Restarts \/ Loses

Spec == Init /\ [][Next]_<<inForce, kept>>
=============================================================================
