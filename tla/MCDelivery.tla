----------------------------- MODULE MCDelivery -----------------------------
(* Instances of Delivery for TLC. *)
EXTENDS Delivery, TLC
CONSTANTS a1, a2, i1, i2, w1, w2

\* Two followers, one of them also mentioned; and a stored inbox that is no URL.
TwoAudiences ==
  {[followers |-> <<i1, i2>>, mentioned |-> <<i1>>],
   [followers |-> <<Unparseable, i1>>, mentioned |-> <<>>]}
=============================================================================
