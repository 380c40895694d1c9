------------------------------ MODULE MCBoosts ------------------------------
(* Boosts, with four operations of a user who never edits the profile, or one *)
(* operation, two edits and time.                                              *)
EXTENDS Boosts

MCBudgets == {[boosts |-> 4, edits |-> 0, ticks |-> 0], [boosts |-> 1, edits |-> 2, ticks |-> 4]}

=============================================================================
