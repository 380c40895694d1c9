------------------------------- MODULE MCInbox -------------------------------
(* Instances of Inbox for TLC. *)
EXTENDS Inbox, TLC
CONSTANTS r1, r2, r3, a1, a2, d1
OneDomain == [a \in Activities |-> d1]
RequestSymmetry == Permutations(Requests)
=============================================================================
