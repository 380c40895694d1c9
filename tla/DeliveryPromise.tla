--------------------------- MODULE DeliveryPromise ---------------------------
(***************************************************************************)
(* What the delivery of k-ap promises, without tasks, retries and queues.  *)
(* A letter is an activity for an inbox.  A letter that was asked for is   *)
(* settled at last: received, or given up with a report, or lost with an   *)
(* incident (a restart, an error of the event publisher, no attempts       *)
(* configured) while it was open.  Nothing arrives that was not asked for, *)
(* and nothing arrives after it was lost.                                  *)
(***************************************************************************)
CONSTANT Letters
VARIABLES wanted, received, givenUp, lost

vars == <<wanted, received, givenUp, lost>>

Open(l) == l \in wanted /\ l \notin received /\ l \notin givenUp /\ l \notin lost

Init == wanted = {} /\ received = {} /\ givenUp = {} /\ lost = {}

Ask(S) ==
  /\ S \cap wanted = {}
  /\ wanted' = wanted \cup S
  /\ UNCHANGED <<received, givenUp, lost>>

\* A letter that was given up may still arrive: its job may be run again.
Arrive(l) ==
  /\ l \in wanted
  /\ l \notin lost
  /\ received' = received \cup {l}
  /\ UNCHANGED <<wanted, givenUp, lost>>

GiveUp(S) ==
  /\ S \subseteq wanted \ lost
  /\ givenUp' = givenUp \cup S
  /\ UNCHANGED <<wanted, received, lost>>

Lose(S) ==
  /\ \A l \in S : Open(l)
  /\ lost' = lost \cup S
  /\ UNCHANGED <<wanted, received, givenUp>>

Next ==
  \/ \E S \in SUBSET Letters : Ask(S) \/ GiveUp(S) \/ Lose(S)
  \/ \E l \in Letters : Arrive(l)

Settle(l) == Open(l) /\ Next /\ ~ Open(l)'

Spec == Init /\ [][Next]_vars /\ \A l \in Letters : WF_vars(Settle(l))
=============================================================================
