----------------------------- MODULE InboxProofs -----------------------------
(***************************************************************************)
(* Proofs about Inbox, for every set of activities and requests and every  *)
(* bound: the types, that a handler call takes effect at most once, that   *)
(* nothing is lost without an incident, and that a blocked domain has no   *)
(* effect.                                                                 *)
(***************************************************************************)
EXTENDS Inbox, TLAPS

-----------------------------------------------------------------------------
(* Types.  First what the helpers shared by the actions do.                *)

\* Answering a request keeps the types of the request and of the answers.
LEMMA AnswerTypes ==
  ASSUME RequestTypes, SenderTypes, UNCHANGED deliveries,
         NEW r \in Requests, Active(r), NEW s \in {"ok", "error"}, Answer(r, s)
  PROVE  RequestTypes' /\ SenderTypes'
<1>1. SenderTypes'
  BY DEF Answer, SenderTypes, RequestTypes
<1>2. (stage \in [Requests -> Stages])'
  BY DEF Answer, Goto, RequestTypes, Stages
<1>3. (task \in [Requests -> Activities \cup {NoActivity}])'
  BY DEF Answer, RequestTypes
<1>4. (next \in [Requests -> Nat \ {0}])'
  BY DEF Answer, RequestTypes
<1>5. (opened \subseteq Requests)'
  BY DEF Answer, RequestTypes
<1>6. (\A q \in Requests : Active(q) => task[q] \in Activities)'
  BY DEF Answer, RequestTypes, Active, Goto
<1>7. QED
  BY <1>1, <1>2, <1>3, <1>4, <1>5, <1>6 DEF RequestTypes

\* Moving a request to another stage keeps its types.
LEMMA GotoTypes ==
  ASSUME RequestTypes, NEW r \in Requests, Active(r), NEW s \in Stages, Goto(r, s),
         UNCHANGED <<task, next, opened>>
  PROVE  RequestTypes'
BY DEF RequestTypes, Goto, Active

\* Going on to the next handler call keeps the types of the request.
LEMMA NextCallTypes ==
  ASSUME RequestTypes, NEW r \in Requests, next' = [next EXCEPT ![r] = @ + 1],
         UNCHANGED <<stage, task, opened>>
  PROVE  RequestTypes'
BY DEF RequestTypes, Active

\* Recording an incident keeps the types of the history.
LEMMA NoteTypes ==
  ASSUME HistoryTypes, NEW a \in Activities, NEW w \in Weakening \cup Losing,
         Note(a, w), UNCHANGED done
  PROVE  HistoryTypes'
BY DEF HistoryTypes, Note

\* An error counts within its bound.
LEMMA FaultTypes ==
  ASSUME InboxAssumption, CounterTypes, Fault, UNCHANGED <<crashes, changes>>
  PROVE  CounterTypes'
BY DEF InboxAssumption, CounterTypes, Fault

LEMMA StoreUnchanged   == StoreTypes /\ UNCHANGED store => StoreTypes'
BY DEF StoreTypes, store
LEMMA RequestUnchanged == RequestTypes /\ UNCHANGED requests => RequestTypes'
BY DEF RequestTypes, requests, Active
LEMMA SenderUnchanged  == SenderTypes /\ UNCHANGED <<deliveries, answers>> => SenderTypes'
BY DEF SenderTypes
LEMMA HistoryUnchanged == HistoryTypes /\ UNCHANGED <<done, incidents>> => HistoryTypes'
BY DEF HistoryTypes
LEMMA CounterUnchanged == CounterTypes /\ UNCHANGED counters => CounterTypes'
BY DEF CounterTypes, counters

\* One step keeps the types.
LEMMA TypeStep == InboxAssumption /\ TypeOK /\ [Next]_vars => TypeOK'
<1> SUFFICES ASSUME InboxAssumption, TypeOK, [Next]_vars PROVE TypeOK'
  OBVIOUS
<1> USE StoreUnchanged, RequestUnchanged, SenderUnchanged, HistoryUnchanged,
        CounterUnchanged DEF TypeOK
<1>1. ASSUME NEW r \in Requests, Active(r)
      PROVE  task[r] \in Activities
  BY <1>1 DEF RequestTypes
<1>2. ASSUME NEW r \in Requests, NEW a \in Activities, Deliver(r, a)
      PROVE  TypeOK'
  <2>1. RequestTypes'
    BY <1>2 DEF Deliver, RequestTypes, Goto, Active, Stages
  <2>2. SenderTypes'
    BY <1>2 DEF Deliver, SenderTypes, InboxAssumption
  <2>3. QED
    BY <1>2, <2>1, <2>2 DEF Deliver
<1>3. ASSUME NEW r \in Requests, Verify(r) PROVE TypeOK'
  <2>1. Active(r)
    BY <1>3 DEF Verify, Active
  <2>2. CASE Goto(r, "check") /\ UNCHANGED <<task, next, opened, answers, incidents, faults>>
    BY <1>3, <2>1, <2>2, GotoTypes DEF Verify, Stages, counters
  <2>3. CASE Fault /\ Answer(r, "error") /\ UNCHANGED incidents
    BY <1>3, <2>1, <2>3, AnswerTypes, FaultTypes DEF Verify
  <2>4. QED
    BY <1>3, <2>2, <2>3 DEF Verify
<1>4. ASSUME NEW r \in Requests, CheckProcessed(r) PROVE TypeOK'
  <2>1. Active(r) /\ task[r] \in Activities
    BY <1>1, <1>4 DEF CheckProcessed, Active
  <2>2. CASE Answer(r, "ok") /\ UNCHANGED <<incidents, faults>>
    BY <1>4, <2>1, <2>2, AnswerTypes DEF CheckProcessed, counters
  <2>3. CASE /\ Goto(r, "mark")
             /\ Note(task[r], "overlap") \/ UNCHANGED incidents
             /\ UNCHANGED <<task, next, opened, answers, faults>>
    <3>1. HistoryTypes'
      BY <1>4, <2>1, <2>3, NoteTypes DEF CheckProcessed, Weakening
    <3>2. QED
      BY <1>4, <2>1, <2>3, <3>1, GotoTypes DEF CheckProcessed, Stages, counters
  <2>4. CASE /\ Fault /\ Goto(r, "domain") /\ Note(task[r], "check failed")
             /\ UNCHANGED <<task, next, opened, answers>>
    <3>1. HistoryTypes'
      BY <1>4, <2>1, <2>4, NoteTypes DEF CheckProcessed, Weakening
    <3>2. QED
      BY <1>4, <2>1, <2>4, <3>1, GotoTypes, FaultTypes DEF CheckProcessed, Stages
  <2>5. QED
    BY <1>4, <2>2, <2>3, <2>4 DEF CheckProcessed
<1>5. ASSUME NEW r \in Requests, MarkProcessed(r) PROVE TypeOK'
  <2>1. Active(r) /\ task[r] \in Activities
    BY <1>1, <1>5 DEF MarkProcessed, Active
  <2>2. RequestTypes'
    BY <1>5, <2>1, GotoTypes DEF MarkProcessed, Stages
  <2>3. StoreTypes'
    BY <1>5, <2>1 DEF MarkProcessed, StoreTypes
  <2>4. HistoryTypes' /\ CounterTypes'
    BY <1>5, <2>1, NoteTypes, FaultTypes DEF MarkProcessed, Weakening, counters
  <2>5. QED
    BY <1>5, <2>2, <2>3, <2>4 DEF MarkProcessed
<1>6. ASSUME NEW r \in Requests, CheckDomain(r) PROVE TypeOK'
  <2>1. Active(r) /\ task[r] \in Activities
    BY <1>1, <1>6 DEF CheckDomain, Active
  <2>2. CASE Answer(r, "ok") /\ Note(task[r], "blocked") /\ UNCHANGED faults
    BY <1>6, <2>1, <2>2, AnswerTypes, NoteTypes DEF CheckDomain, Losing, counters
  <2>3. CASE /\ Goto(r, "calls")
             /\ UNCHANGED <<task, next, opened, answers, incidents, faults>>
    BY <1>6, <2>1, <2>3, GotoTypes DEF CheckDomain, Stages, counters
  <2>4. CASE Fault /\ Refuse(r) /\ Note(task[r], "domain check failed")
    BY <1>6, <2>1, <2>4, AnswerTypes, NoteTypes, FaultTypes DEF CheckDomain, Losing, Refuse
  <2>5. QED
    BY <1>6, <2>2, <2>3, <2>4 DEF CheckDomain
<1>7. ASSUME NEW r \in Requests, CallSucceeds(r) PROVE TypeOK'
  <2>1. task[r] \in Activities
    BY <1>1, <1>7 DEF CallSucceeds, AtCall, Active
  <2>2. HistoryTypes'
    BY <1>7, <2>1 DEF CallSucceeds, HistoryTypes, CallIndex
  <2>3. QED
    BY <1>7, <2>2, NextCallTypes DEF CallSucceeds
<1>8. ASSUME NEW r \in Requests, CallFails(r) PROVE TypeOK'
  <2>1. Active(r) /\ task[r] \in Activities
    BY <1>1, <1>8 DEF CallFails, AtCall, Active
  <2>2. HistoryTypes' /\ CounterTypes'
    BY <1>8, <2>1, NoteTypes, FaultTypes DEF CallFails, Losing
  <2>3. RequestTypes' /\ SenderTypes'
    BY <1>8, <2>1, NextCallTypes, AnswerTypes DEF CallFails, Refuse
  <2>4. QED
    BY <1>8, <2>2, <2>3 DEF CallFails
<1>9. ASSUME NEW r \in Requests, CallStops(r) PROVE TypeOK'
  <2>1. Active(r) /\ task[r] \in Activities
    BY <1>1, <1>9 DEF CallStops, AtCall, Active
  <2>2. QED
    BY <1>9, <2>1, NoteTypes, AnswerTypes DEF CallStops, Losing
<1>10. ASSUME NEW r \in Requests, Finish(r) PROVE TypeOK'
  <2>1. Active(r)
    BY <1>10 DEF Finish, Active
  <2>2. QED
    BY <1>10, <2>1, AnswerTypes DEF Finish
<1>11. ASSUME NEW d \in Domains, AddBlockedDomain(d) PROVE TypeOK'
  <2>1. StoreTypes'
    BY <1>11 DEF AddBlockedDomain, StoreTypes
  <2>2. CounterTypes'
    BY <1>11 DEF AddBlockedDomain, CounterTypes, InboxAssumption
  <2>3. QED
    BY <1>11, <2>1, <2>2 DEF AddBlockedDomain
<1>12. ASSUME NEW d \in Domains, RemoveBlockedDomain(d) PROVE TypeOK'
  <2>1. StoreTypes'
    BY <1>12 DEF RemoveBlockedDomain, StoreTypes
  <2>2. CounterTypes'
    BY <1>12 DEF RemoveBlockedDomain, CounterTypes, InboxAssumption
  <2>3. RequestTypes'
    BY <1>12 DEF RemoveBlockedDomain, RequestTypes, Active
  <2>4. QED
    BY <1>12, <2>1, <2>2, <2>3 DEF RemoveBlockedDomain
<1>13. CASE Crash
  <2>1. RequestTypes'
    BY <1>13 DEF Crash, RequestTypes, Active, Stages
  <2>2. HistoryTypes'
    BY <1>13 DEF Crash, HistoryTypes, Losing
  <2>3. CounterTypes'
    BY <1>13 DEF Crash, CounterTypes, InboxAssumption
  <2>4. QED
    BY <1>13, <2>1, <2>2, <2>3 DEF Crash
<1>14. CASE UNCHANGED vars
  BY <1>14 DEF vars
<1>15. ASSUME NEW r \in Requests, CallRefuses(r) PROVE TypeOK'
  <2>1. Active(r) /\ task[r] \in Activities
    BY <1>1, <1>15 DEF CallRefuses, AtCall, Active
  <2>2. QED
    BY <1>15, <2>1, NoteTypes, AnswerTypes DEF CallRefuses, Losing
<1>16. QED
  BY <1>2, <1>3, <1>4, <1>5, <1>6, <1>7, <1>8, <1>9, <1>10, <1>11, <1>12,
     <1>13, <1>14, <1>15 DEF Next, Step

\* Types: every step of the inbox, in any interleaving, keeps its state in
\* its types.
THEOREM TypeCorrect == Spec => []TypeOK
<1>1. Init => TypeOK
  BY InboxAssumption DEF Init, InboxAssumption, TypeOK, StoreTypes, RequestTypes, SenderTypes,
     HistoryTypes, CounterTypes, Stages, Active, CallIndex
<1>2. QED
  BY <1>1, TypeStep, InboxAssumption, PTL DEF Spec
-----------------------------------------------------------------------------
(* At most once.                                                           *)

\* A request that went on past the dedup check with activity a.
Admitted(r, a) == stage[r] \in {"mark", "domain", "calls"} /\ task[r] = a

\* While nothing weakened the dedup of a: a is marked before its domain is
\* checked, one request at a time is past the dedup check, and the calls that
\* request still has to make have no effect yet.
DedupInv(a) ==
  Clean(a) =>
    /\ \A r \in Requests : Admitted(r, a) /\ stage[r] # "mark" => a \in processed
    /\ \A r, q \in Requests : Admitted(r, a) /\ Admitted(q, a) => r = q
    /\ a \notin processed => \A i \in CallIndex : done[a][i] = 0
    /\ \A r \in Requests : Admitted(r, a) /\ stage[r] # "calls"
                            => \A i \in CallIndex : done[a][i] = 0
    /\ \A r \in Requests : Admitted(r, a)
                            => \A i \in CallIndex : i >= next[r] => done[a][i] = 0
    /\ \A i \in CallIndex : done[a][i] <= 1

\* What is clean after a step was clean before it.
LEMMA CleanBefore ==
  ASSUME TypeOK, NEW a \in Activities, NEW b \in Activities, NEW w, Note(b, w)
  PROVE  Clean(a)' => Clean(a) /\ (a = b => w \notin Weakening)
BY DEF TypeOK, HistoryTypes, Note, Clean

\* A request that leaves, or that is not past the dedup check, preserves it.
LEMMA DedupLeave ==
  ASSUME TypeOK, NEW a \in Activities, DedupInv(a), Clean(a),
         UNCHANGED <<processed, done>>,
         \A q \in Requests : Admitted(q, a)' =>
                              /\ Admitted(q, a)
                              /\ stage'[q] = stage[q]
                              /\ next'[q] = next[q]
  PROVE  DedupInv(a)'
BY DEF DedupInv, Admitted

LEMMA AnswerLeaves ==
  ASSUME TypeOK, NEW a \in Activities, NEW r \in Requests, NEW s, Answer(r, s)
  PROVE  \A q \in Requests : Admitted(q, a)' =>
                              /\ Admitted(q, a)
                              /\ stage'[q] = stage[q]
                              /\ next'[q] = next[q]
BY DEF TypeOK, RequestTypes, Answer, Goto, Admitted

LEMMA DedupStep ==
  ASSUME TypeOK, NEW a \in Activities, DedupInv(a), [Next]_vars
  PROVE  DedupInv(a)'
<1> SUFFICES ASSUME Clean(a)' PROVE DedupInv(a)'
  BY DEF DedupInv
<1>1. ASSUME NEW r \in Requests, Active(r) PROVE task[r] \in Activities
  BY <1>1 DEF TypeOK, RequestTypes
<1>2. ASSUME NEW r \in Requests, NEW b \in Activities, Deliver(r, b) PROVE DedupInv(a)'
  <2>1. Clean(a)
    BY <1>2 DEF Deliver, Clean
  <2>2. QED
    BY <1>2, <2>1, DedupLeave
       DEF Deliver, store, Goto, Admitted, TypeOK, RequestTypes
<1>3. ASSUME NEW r \in Requests, Verify(r) PROVE DedupInv(a)'
  <2>1. Clean(a)
    BY <1>1, <1>3, CleanBefore DEF Verify, Clean, Active
  <2>2. CASE Goto(r, "check") /\ UNCHANGED <<task, next>>
    BY <1>3, <2>1, <2>2, DedupLeave
       DEF Verify, store, Goto, Admitted, TypeOK, RequestTypes
  <2>3. CASE \E s : Answer(r, s)
    BY <1>3, <2>1, <2>3, DedupLeave, AnswerLeaves DEF Verify, store
  <2>4. QED
    BY <1>3, <2>2, <2>3 DEF Verify
<1>4. ASSUME NEW r \in Requests, CheckProcessed(r) PROVE DedupInv(a)'
  <2>1. task[r] \in Activities
    BY <1>1, <1>4 DEF CheckProcessed, Active
  <2>2. Clean(a)
    BY <1>4, <2>1, CleanBefore DEF CheckProcessed, Clean
  <2>3. CASE Answer(r, "ok")
    BY <1>4, <2>2, <2>3, DedupLeave, AnswerLeaves DEF CheckProcessed, store
  <2>4. CASE task[r] # a /\ stage' = [stage EXCEPT ![r] = stage'[r]] /\ UNCHANGED <<task, next>>
    BY <1>4, <2>2, <2>4, DedupLeave
       DEF CheckProcessed, store, Admitted, TypeOK, RequestTypes
  <2>5. CASE task[r] = a /\ a \notin processed /\ Goto(r, "mark") /\ UNCHANGED <<task, next>>
    <3>1. ~ \E q \in Requests \ {r} : stage[q] = "mark" /\ task[q] = a
      BY <1>4, <2>1, <2>5, CleanBefore DEF CheckProcessed, Weakening, Answer, Goto, TypeOK, RequestTypes
    <3>2. \A q \in Requests : ~ Admitted(q, a) \/ q = r
      BY <2>2, <2>5, <3>1 DEF DedupInv, Admitted
    <3>3. \A q \in Requests : Admitted(q, a)' => q = r
      BY <2>5, <3>2 DEF Admitted, Goto, TypeOK, RequestTypes
    <3>4. stage'[r] = "mark"
      BY <2>5 DEF Goto, TypeOK, RequestTypes
    <3>5. QED
      BY <1>4, <2>2, <2>5, <3>3, <3>4 DEF DedupInv, CheckProcessed, store, Admitted
  <2>6. CASE task[r] = a /\ Note(a, "check failed")
    BY <2>1, <2>6, CleanBefore DEF Weakening
  <2>7. QED
    BY <1>4, <2>3, <2>4, <2>5, <2>6 DEF CheckProcessed, Goto, TypeOK, RequestTypes
<1>5. ASSUME NEW r \in Requests, MarkProcessed(r) PROVE DedupInv(a)'
  <2>1. task[r] \in Activities
    BY <1>1, <1>5 DEF MarkProcessed, Active
  <2>2. Clean(a)
    BY <1>5, <2>1, CleanBefore DEF MarkProcessed, Clean
  <2>3. CASE task[r] # a
    <3>1. a \in processed' <=> a \in processed
      BY <1>5, <2>3 DEF MarkProcessed
    <3>2. \A q \in Requests : Admitted(q, a)' => /\ Admitted(q, a)
                                                /\ stage'[q] = stage[q]
                                                /\ next'[q] = next[q]
      BY <1>5, <2>3 DEF MarkProcessed, Goto, Admitted, TypeOK, RequestTypes
    <3>3. QED
      BY <1>5, <2>2, <3>1, <3>2 DEF MarkProcessed, DedupInv, Admitted
  <2>4. CASE task[r] = a
    <3>1. a \in processed'
      BY <1>5, <2>1, <2>4, CleanBefore DEF MarkProcessed, Weakening
    <3>2. \A q \in Requests : Admitted(q, a)' => Admitted(q, a) /\ q = r
      BY <1>5, <2>2, <2>4 DEF MarkProcessed, Goto, Admitted, TypeOK, RequestTypes, DedupInv
    <3>3. \A i \in CallIndex : done'[a][i] = 0
      BY <1>5, <2>2, <2>4 DEF MarkProcessed, DedupInv, Admitted
    <3>4. QED
      BY <3>1, <3>2, <3>3 DEF DedupInv, CallIndex
  <2>5. QED
    BY <2>3, <2>4
<1>6. ASSUME NEW r \in Requests, CheckDomain(r) PROVE DedupInv(a)'
  <2>1. task[r] \in Activities
    BY <1>1, <1>6 DEF CheckDomain, Active
  <2>2. Clean(a)
    BY <1>6, <2>1, CleanBefore DEF CheckDomain, Clean
  <2>3. CASE \E s : Answer(r, s)
    BY <1>6, <2>2, <2>3, DedupLeave, AnswerLeaves DEF CheckDomain, store
  <2>4. CASE Goto(r, "calls") /\ UNCHANGED <<task, next>>
    <3>1. \A q \in Requests : Admitted(q, a)' => Admitted(q, a)
      BY <1>6, <2>4 DEF CheckDomain, Goto, Admitted, TypeOK, RequestTypes
    <3>2. \A q \in Requests : stage'[q] # stage[q] =>
                  q = r /\ stage[r] = "domain" /\ stage'[r] = "calls"
      BY <1>6, <2>4 DEF CheckDomain, Goto, TypeOK, RequestTypes
    <3>3. UNCHANGED <<processed, done, next, task>>
      BY <1>6, <2>4 DEF CheckDomain, store
    <3>4. QED
      BY <2>2, <3>1, <3>2, <3>3 DEF DedupInv, Admitted
  <2>5. QED
    BY <1>6, <2>3, <2>4 DEF CheckDomain, Refuse
<1>7. ASSUME NEW r \in Requests, CallSucceeds(r) PROVE DedupInv(a)'
  <2>1. task[r] \in Activities /\ Clean(a)
    BY <1>1, <1>7 DEF CallSucceeds, AtCall, Active, Clean
  <2>2. UNCHANGED <<stage, task, processed>>
    BY <1>7 DEF CallSucceeds, store
  <2>3. CASE task[r] # a
    <3>1. \A i \in CallIndex : done'[a][i] = done[a][i]
      BY <1>7, <2>1, <2>3 DEF CallSucceeds, TypeOK, HistoryTypes
    <3>2. \A q \in Requests : Admitted(q, a) => next'[q] = next[q]
      BY <1>7, <2>3 DEF CallSucceeds, Admitted, TypeOK, RequestTypes
    <3>3. QED
      BY <2>1, <2>2, <3>1, <3>2 DEF DedupInv, Admitted
  <2>4. CASE task[r] = a
    <3>1. Admitted(r, a) /\ stage[r] = "calls"
      BY <1>7, <2>4 DEF CallSucceeds, AtCall, Admitted
    <3>2. next'[r] = next[r] + 1 /\ next[r] \in Nat
      BY <1>7 DEF CallSucceeds, TypeOK, RequestTypes
    <3>3. \A i \in CallIndex :
            /\ done[a][i] \in Nat
            /\ done'[a][i] = IF i = next[r] THEN done[a][i] + 1 ELSE done[a][i]
      BY <1>7, <2>1, <2>4 DEF CallSucceeds, TypeOK, HistoryTypes
    <3>4. \A q \in Requests : Admitted(q, a)' => q = r
      BY <2>1, <2>2, <3>1 DEF DedupInv, Admitted
    <3>5. a \in processed /\ stage'[r] = "calls"
      BY <2>1, <2>2, <3>1 DEF DedupInv
    <3>6. \A i \in CallIndex : done'[a][i] <= 1
      BY <2>1, <3>1, <3>2, <3>3 DEF DedupInv, CallIndex
    <3>7. \A i \in CallIndex : i >= next'[r] => done'[a][i] = 0
      BY <2>1, <3>1, <3>2, <3>3 DEF DedupInv, CallIndex
    <3>8. QED
      BY <2>2, <3>4, <3>5, <3>6, <3>7 DEF DedupInv
  <2>5. QED
    BY <2>3, <2>4
<1>8. ASSUME NEW r \in Requests, CallFails(r) PROVE DedupInv(a)'
  <2>1. task[r] \in Activities
    BY <1>1, <1>8 DEF CallFails, AtCall, Active
  <2>2. Clean(a)
    BY <1>8, <2>1, CleanBefore DEF CallFails
  <2>3. CASE \E s : Answer(r, s)
    BY <1>8, <2>2, <2>3, DedupLeave, AnswerLeaves DEF CallFails, store
  <2>4. CASE next' = [next EXCEPT ![r] = @ + 1] /\ UNCHANGED <<stage, task>>
    <3>1. \A q \in Requests : next[q] \in Nat /\ next'[q] >= next[q]
      BY <2>4 DEF TypeOK, RequestTypes
    <3>2. UNCHANGED <<processed, done>>
      BY <1>8 DEF CallFails, store
    <3>3. QED
      BY <2>2, <2>4, <3>1, <3>2 DEF DedupInv, Admitted, CallIndex
  <2>5. QED
    BY <1>8, <2>3, <2>4 DEF CallFails, Refuse
<1>9. ASSUME NEW r \in Requests, CallStops(r) \/ CallRefuses(r) PROVE DedupInv(a)'
  <2>1. task[r] \in Activities
    BY <1>1, <1>9 DEF CallStops, CallRefuses, AtCall, Active
  <2>2. Clean(a)
    BY <1>9, <2>1, CleanBefore DEF CallStops, CallRefuses
  <2>3. QED
    BY <1>9, <2>2, DedupLeave, AnswerLeaves DEF CallStops, CallRefuses, store
<1>10. ASSUME NEW r \in Requests, Finish(r) PROVE DedupInv(a)'
  BY <1>10, DedupLeave, AnswerLeaves DEF Finish, store, Clean
<1>11. ASSUME NEW d \in Domains, AddBlockedDomain(d) \/ RemoveBlockedDomain(d)
       PROVE  DedupInv(a)'
  BY <1>11, DedupLeave
     DEF AddBlockedDomain, RemoveBlockedDomain, requests, Clean, Admitted
<1>12. CASE Crash
  <2>1. Clean(a)
    BY <1>12 DEF Crash, Clean, TypeOK, HistoryTypes
  <2>2. \A q \in Requests : ~ Admitted(q, a)'
    BY <1>12 DEF Crash, Admitted
  <2>3. QED
    BY <1>12, <2>1, <2>2, DedupLeave DEF Crash, store
<1>13. CASE UNCHANGED vars
  BY <1>13, DedupLeave DEF vars, store, requests, Admitted, Clean
<1>14. QED
  BY <1>2, <1>3, <1>4, <1>5, <1>6, <1>7, <1>8, <1>9, <1>10, <1>11, <1>12,
     <1>13 DEF Next, Step

\* However deliveries of an activity overlap, fail and are retried, no call of
\* its handler takes effect twice unless the dedup itself was weakened.
THEOREM AtMostOnceHolds == Spec => []AtMostOnce
<1> DEFINE Inv == \A a \in Activities : DedupInv(a)
<1>1. Init => Inv
  BY DEF Init, DedupInv, Admitted, CallIndex
<1>2. TypeOK /\ Inv /\ [Next]_vars => Inv'
  BY DedupStep
<1>3. Inv => AtMostOnce
  BY DEF DedupInv, AtMostOnce
<1> HIDE DEF Inv
<1>4. QED
  BY <1>1, <1>2, <1>3, TypeCorrect, PTL DEF Spec

-----------------------------------------------------------------------------
(* Nothing is lost without an incident.                                    *)

\* The calls of every handler are numbered from 1 and fit CallIndex.
LEMMA CallsNumbered ==
  \A k \in Kinds : \E n \in 0..4 : DOMAIN HandlerCalls[k] = 1..n
<1> USE DEF HandlerCalls, Kinds
<1>1. DOMAIN HandlerCalls["UndoOther"] = 1..0
  OBVIOUS
<1>2. \A k \in {"AcceptOther", "Reject", "Add", "Like", "DeleteNote", "DeleteActor",
                "AnnounceOfRemote", "UndoFollowOther", "UndoAdd", "UndoLike",
                "UndoAnnounceOfRemote", "UndoBlock"} : DOMAIN HandlerCalls[k] = 1..1
  BY DEF AcceptOtherCalls, RejectCalls, AddCalls, LikeCalls, DeleteNoteCalls,
         DeleteActorCalls, AnnounceOfRemoteCalls, UndoFollowOtherCalls, UndoAddCalls,
         UndoLikeCalls, UndoAnnounceOfRemoteCalls, UndoBlockCalls
<1>3. \A k \in {"Accept", "Create", "Update", "Announce", "UndoFollow",
                "UndoAnnounce"} : DOMAIN HandlerCalls[k] = 1..2
  BY DEF AcceptCalls, CreateCalls, UpdateCalls, AnnounceCalls,
         UndoFollowCalls, UndoAnnounceCalls
<1>4. \A k \in {"Block", "Move"} : DOMAIN HandlerCalls[k] = 1..3
  BY DEF BlockCalls, MoveCalls
<1>5. DOMAIN HandlerCalls["Follow"] = 1..4
  BY DEF FollowCalls
<1>6. QED
  BY <1>1, <1>2, <1>3, <1>4, <1>5

\* A request whose handler run of activity a is under way or certain to start.
Handling(r, a) == stage[r] \in {"domain", "calls"} /\ task[r] = a

\* While no incident lost a: once it is marked or acknowledged, its calls are
\* complete or a request is handling it, and that request has made the calls
\* before its next one.
KeptInv(a) ==
  Spared(a) =>
    /\ a \in processed \/ "ok" \in answers[a]
         => Complete(a) \/ \E r \in Requests : Handling(r, a)
    /\ \A r \in Requests : Handling(r, a) =>
         \A i \in DOMAIN Calls(a) : i < next[r] => done[a][i] >= 1

\* A request that is not at its calls is before the first one.
FirstCall == \A r \in Requests : stage[r] # "calls" => next[r] = 1

LEMMA FirstCallStep ==
  ASSUME TypeOK, FirstCall, [Next]_vars
  PROVE  FirstCall'
<1> USE DEF FirstCall, TypeOK, RequestTypes
<1>1. ASSUME NEW r \in Requests, NEW s, Answer(r, s) PROVE FirstCall'
  BY <1>1 DEF Answer, Goto
<1>2. ASSUME NEW r \in Requests, NEW s, Goto(r, s), stage[r] # "calls", UNCHANGED next
      PROVE  FirstCall'
  BY <1>2 DEF Goto
<1>3. ASSUME NEW r \in Requests, AtCall(r), UNCHANGED stage, next' = [next EXCEPT ![r] = @ + 1]
      PROVE  FirstCall'
  BY <1>3 DEF AtCall
<1>4. ASSUME UNCHANGED <<stage, next>> PROVE FirstCall'
  BY <1>4
<1>5. ASSUME Crash PROVE FirstCall'
  BY <1>5 DEF Crash
<1>6. ASSUME NEW r \in Requests, Step(r) PROVE FirstCall'
  <2>1. Verify(r) \/ CheckProcessed(r) \/ CheckDomain(r) => FirstCall'
    BY <1>1, <1>2 DEF Verify, CheckProcessed, CheckDomain, Refuse
  <2>2. MarkProcessed(r) => FirstCall'
    BY <1>2 DEF MarkProcessed
  <2>3. CallSucceeds(r) \/ CallFails(r) => FirstCall'
    BY <1>1, <1>3 DEF CallSucceeds, CallFails, Refuse
  <2>4. CallStops(r) \/ CallRefuses(r) \/ Finish(r) => FirstCall'
    BY <1>1 DEF CallStops, CallRefuses, Finish
  <2>5. QED
    BY <1>6, <2>1, <2>2, <2>3, <2>4 DEF Step
<1>7. ASSUME NEW r \in Requests, NEW a \in Activities, Deliver(r, a) PROVE FirstCall'
  BY <1>2, <1>7 DEF Deliver
<1>8. QED
  BY <1>4, <1>5, <1>6, <1>7
     DEF Next, AddBlockedDomain, RemoveBlockedDomain, vars, requests

\* What is spared after a step was spared before it.
LEMMA SparedBefore ==
  ASSUME TypeOK, NEW a \in Activities, NEW b \in Activities, NEW w, Note(b, w)
  PROVE  Spared(a)' => Spared(a) /\ (a = b => w \notin Losing)
BY DEF TypeOK, HistoryTypes, Note, Spared

\* The calls of an activity do not change while it keeps its kind.
LEMMA CallsStay ==
  ASSUME TypeOK, NEW a \in Activities, UNCHANGED kind
  PROVE  /\ DOMAIN Calls(a)' = DOMAIN Calls(a)
         /\ \A i \in DOMAIN Calls(a) : i \in 1..4
<1>1. DOMAIN Calls(a)' = DOMAIN Calls(a)
  BY DEF Calls
<1>2. PICK n \in 0..4 : DOMAIN Calls(a) = 1..n
  BY CallsNumbered DEF Calls, TypeOK, StoreTypes
<1>3. QED
  BY <1>1, <1>2

\* A step that ends no handling of a and acknowledges a only if it is marked.
LEMMA KeptSame ==
  ASSUME TypeOK, NEW a \in Activities, KeptInv(a), Spared(a),
         UNCHANGED <<kind, processed, done>>,
         "ok" \in answers'[a] => "ok" \in answers[a] \/ a \in processed,
         \A q \in Requests : Handling(q, a) => Handling(q, a)',
         \A q \in Requests : Handling(q, a)' =>
            next'[q] = 1 \/ (Handling(q, a) /\ next'[q] = next[q])
  PROVE  KeptInv(a)'
<1>1. Complete(a)' <=> Complete(a)
  BY DEF Complete, Calls
<1>2. \A i \in DOMAIN Calls(a) : i \in 1..4
  BY CallsStay
<1>3. DOMAIN Calls(a)' = DOMAIN Calls(a)
  BY CallsStay
<1>4. ASSUME NEW q \in Requests, Handling(q, a)', NEW i \in DOMAIN Calls(a), i < next'[q]
      PROVE  done'[a][i] >= 1
  BY <1>2, <1>4 DEF KeptInv
<1>5. QED
  BY <1>1, <1>3, <1>4 DEF KeptInv

\* Answering a request that works on another activity, or that has not come to
\* handling, ends no handling of a.
LEMMA AnswerKeeps ==
  ASSUME TypeOK, NEW a \in Activities, NEW r \in Requests, NEW s, Answer(r, s),
         ~ Handling(r, a)
  PROVE  /\ \A q \in Requests : Handling(q, a) => Handling(q, a)'
         /\ \A q \in Requests : Handling(q, a)' =>
              next'[q] = 1 \/ (Handling(q, a) /\ next'[q] = next[q])
BY DEF TypeOK, RequestTypes, Answer, Goto, Handling

\* An answer changes only what the sender of that activity has been told.
LEMMA AnswerSays ==
  ASSUME TypeOK, NEW a \in Activities, NEW r \in Requests, NEW s, Answer(r, s),
         "ok" \in answers'[a], "ok" \notin answers[a]
  PROVE  task[r] = a /\ s = "ok"
BY DEF TypeOK, RequestTypes, SenderTypes, Answer

\* Moving request r on, short of its end, ends no handling of a.
LEMMA GotoKeeps ==
  ASSUME TypeOK, FirstCall, NEW a \in Activities, NEW r \in Requests,
         stage[r] # "calls", NEW s, Goto(r, s), UNCHANGED <<next>>,
         task' = task \/ (stage[r] = "idle" /\ \E b \in Activities : task' = [task EXCEPT ![r] = b]),
         stage[r] = "domain" => s = "calls"
  PROVE  /\ \A q \in Requests : Handling(q, a) => Handling(q, a)'
         /\ \A q \in Requests : Handling(q, a)' =>
              next'[q] = 1 \/ (Handling(q, a) /\ next'[q] = next[q])
BY DEF TypeOK, RequestTypes, Goto, Handling, FirstCall

LEMMA KeptStep ==
  ASSUME TypeOK, FirstCall, NEW a \in Activities, KeptInv(a), [Next]_vars
  PROVE  KeptInv(a)'
<1> SUFFICES ASSUME Spared(a)' PROVE KeptInv(a)'
  BY DEF KeptInv
<1>1. ASSUME NEW r \in Requests, Active(r) PROVE task[r] \in Activities
  BY <1>1 DEF TypeOK, RequestTypes
<1>2. ASSUME NEW r \in Requests, NEW b \in Activities, Deliver(r, b) PROVE KeptInv(a)'
  BY <1>2, KeptSame, GotoKeeps DEF Deliver, Spared, store
<1>3. ASSUME NEW r \in Requests, Verify(r) PROVE KeptInv(a)'
  <2>1. Spared(a) /\ ~ Handling(r, a)
    BY <1>1, <1>3, SparedBefore DEF Verify, Spared, Handling, Active
  <2>2. CASE Goto(r, "check") /\ UNCHANGED <<task, next, answers>>
    BY <1>3, <2>1, <2>2, KeptSame, GotoKeeps DEF Verify, store
  <2>3. CASE Answer(r, "error")
    BY <1>3, <2>1, <2>3, KeptSame, AnswerKeeps, AnswerSays DEF Verify, store
  <2>4. QED
    BY <1>3, <2>2, <2>3 DEF Verify
<1>4. ASSUME NEW r \in Requests, CheckProcessed(r) PROVE KeptInv(a)'
  <2>1. task[r] \in Activities
    BY <1>1, <1>4 DEF CheckProcessed, Active
  <2>2. Spared(a) /\ ~ Handling(r, a)
    BY <1>4, <2>1, SparedBefore DEF CheckProcessed, Spared, Handling
  <2>3. CASE task[r] \in processed /\ Answer(r, "ok")
    BY <1>4, <2>2, <2>3, KeptSame, AnswerKeeps, AnswerSays DEF CheckProcessed, store
  <2>4. CASE (Goto(r, "mark") \/ Goto(r, "domain")) /\ UNCHANGED <<task, next, answers>>
    BY <1>4, <2>2, <2>4, KeptSame, GotoKeeps DEF CheckProcessed, store
  <2>5. QED
    BY <1>4, <2>3, <2>4 DEF CheckProcessed
<1>5. ASSUME NEW r \in Requests, MarkProcessed(r) PROVE KeptInv(a)'
  <2>1. task[r] \in Activities
    BY <1>1, <1>5 DEF MarkProcessed, Active
  <2>2. Spared(a)
    BY <1>5, <2>1, SparedBefore DEF MarkProcessed, Spared
  <2>3. /\ \A q \in Requests : Handling(q, a) => Handling(q, a)'
        /\ \A q \in Requests : Handling(q, a)' =>
              next'[q] = 1 \/ (Handling(q, a) /\ next'[q] = next[q])
    BY <1>5, GotoKeeps DEF MarkProcessed
  <2>4. CASE task[r] # a \/ UNCHANGED processed
    <3>1. a \in processed' => a \in processed
      BY <1>5, <2>4 DEF MarkProcessed
    <3>2. Complete(a)' <=> Complete(a)
      BY <1>5 DEF MarkProcessed, Complete, Calls
    <3>3. DOMAIN Calls(a)' = DOMAIN Calls(a) /\ \A i \in DOMAIN Calls(a) : i \in 1..4
      BY <1>5, CallsStay DEF MarkProcessed
    <3>4. UNCHANGED <<answers, done>>
      BY <1>5 DEF MarkProcessed
    <3>5. QED
      BY <2>2, <2>3, <3>1, <3>2, <3>3, <3>4 DEF KeptInv
  <2>5. CASE task[r] = a
    <3>1. Handling(r, a)'
      BY <1>5, <2>5 DEF MarkProcessed, Goto, Handling, TypeOK, RequestTypes
    <3>2. DOMAIN Calls(a)' = DOMAIN Calls(a) /\ \A i \in DOMAIN Calls(a) : i \in 1..4
      BY <1>5, CallsStay DEF MarkProcessed
    <3>3. UNCHANGED done
      BY <1>5 DEF MarkProcessed
    <3>4. QED
      BY <2>2, <2>3, <3>1, <3>2, <3>3 DEF KeptInv
  <2>6. QED
    BY <2>4, <2>5
<1>6. ASSUME NEW r \in Requests, CheckDomain(r) PROVE KeptInv(a)'
  <2>1. task[r] \in Activities
    BY <1>1, <1>6 DEF CheckDomain, Active
  <2>2. Spared(a)
    BY <1>6, <2>1, SparedBefore DEF CheckDomain, Spared
  <2>3. CASE \E w \in Losing : Note(task[r], w) /\ \E s : Answer(r, s)
    <3>1. task[r] # a /\ ~ Handling(r, a)
      BY <2>1, <2>3, SparedBefore DEF Handling
    <3>2. QED
      BY <1>6, <2>2, <2>3, <3>1, KeptSame, AnswerKeeps, AnswerSays DEF CheckDomain, store
  <2>4. CASE Goto(r, "calls") /\ UNCHANGED <<task, next, answers>>
    BY <1>6, <2>2, <2>4, KeptSame, GotoKeeps DEF CheckDomain, store
  <2>5. QED
    BY <1>6, <2>3, <2>4 DEF CheckDomain, Losing, Refuse
<1>7. ASSUME NEW r \in Requests, CallSucceeds(r) PROVE KeptInv(a)'
  <2>1. task[r] \in Activities /\ Spared(a) /\ next[r] \in Nat
    BY <1>1, <1>7 DEF CallSucceeds, AtCall, Active, Spared, TypeOK, RequestTypes
  <2>2. UNCHANGED <<stage, task, processed, answers, kind>>
    BY <1>7 DEF CallSucceeds, store
  <2>3. DOMAIN Calls(a)' = DOMAIN Calls(a) /\ \A i \in DOMAIN Calls(a) : i \in CallIndex
    BY <2>2, CallsStay DEF CallIndex
  <2>4. \A i \in CallIndex :
          /\ done[a][i] \in Nat /\ done'[a][i] \in Nat
          /\ done'[a][i] >= done[a][i]
          /\ task[r] = a /\ i = next[r] => done'[a][i] >= 1
    BY <1>7, <2>1 DEF CallSucceeds, TypeOK, HistoryTypes
  <2>5. \A q \in Requests : next[q] \in Nat /\ next'[q] = IF q = r THEN next[q] + 1 ELSE next[q]
    BY <1>7 DEF CallSucceeds, TypeOK, RequestTypes
  <2>6. Complete(a) => Complete(a)'
    BY <2>3, <2>4 DEF Complete, CallIndex
  <2>7. \A q \in Requests : Handling(q, a)' <=> Handling(q, a)
    BY <2>2 DEF Handling
  <2>8. ASSUME NEW q \in Requests, Handling(q, a), NEW i \in DOMAIN Calls(a), i < next'[q]
        PROVE  done'[a][i] >= 1
    <3>1. i \in CallIndex
      BY <2>3
    <3>2. CASE i < next[q]
      BY <2>1, <2>4, <2>8, <3>1, <3>2 DEF KeptInv
    <3>3. CASE q = r /\ i = next[r]
      BY <2>4, <2>8, <3>1, <3>3 DEF Handling
    <3>4. QED
      BY <2>5, <2>8, <3>1, <3>2, <3>3 DEF CallIndex
  <2>9. QED
    BY <2>1, <2>2, <2>3, <2>6, <2>7, <2>8 DEF KeptInv
<1>8. ASSUME NEW r \in Requests, CallFails(r) \/ CallStops(r) \/ CallRefuses(r)
      PROVE  KeptInv(a)'
  <2>1. task[r] \in Activities
    BY <1>1, <1>8 DEF CallFails, CallStops, CallRefuses, AtCall, Active
  <2>2. Spared(a) /\ task[r] # a
    BY <1>8, <2>1, SparedBefore DEF CallFails, CallStops, CallRefuses, Losing
  <2>3. UNCHANGED <<kind, processed, done>>
    BY <1>8 DEF CallFails, CallStops, CallRefuses, store
  <2>4. CASE \E s : Answer(r, s)
    BY <2>2, <2>3, <2>4, KeptSame, AnswerKeeps, AnswerSays DEF Handling
  <2>5. CASE next' = [next EXCEPT ![r] = @ + 1] /\ UNCHANGED <<stage, task, answers>>
    <3>1. \A q \in Requests : Handling(q, a) => next'[q] = next[q]
      BY <2>2, <2>5 DEF Handling, TypeOK, RequestTypes
    <3>2. QED
      BY <2>2, <2>3, <2>5, <3>1, KeptSame DEF Handling
  <2>6. QED
    BY <1>8, <2>4, <2>5 DEF CallFails, CallStops, CallRefuses, Refuse
<1>9. ASSUME NEW r \in Requests, Finish(r) PROVE KeptInv(a)'
  <2>1. Spared(a) /\ UNCHANGED <<kind, processed, done>>
    BY <1>9 DEF Finish, Spared, store
  <2>2. Answer(r, "ok") /\ stage[r] = "calls"
    BY <1>9 DEF Finish
  <2>3. CASE task[r] # a
    BY <2>1, <2>2, <2>3, KeptSame, AnswerKeeps, AnswerSays DEF Handling
  <2>4. CASE task[r] = a
    <3>1. PICK n \in 0..4 : DOMAIN Calls(a) = 1..n
      BY CallsNumbered DEF Calls, TypeOK, StoreTypes
    <3>2. next[r] \in Nat \ {0} /\ next[r] > n
      BY <1>9, <2>4, <3>1 DEF Finish, TypeOK, RequestTypes
    <3>3. Complete(a)
      BY <2>1, <2>2, <2>4, <3>1, <3>2 DEF KeptInv, Handling, Complete
    <3>4. Complete(a)' /\ \A i \in DOMAIN Calls(a)' : done'[a][i] >= 1
      BY <2>1, <3>3 DEF Complete, Calls
    <3>5. QED
      BY <3>4 DEF KeptInv
  <2>5. QED
    BY <2>3, <2>4
<1>10. ASSUME NEW d \in Domains, AddBlockedDomain(d) \/ RemoveBlockedDomain(d)
       PROVE  KeptInv(a)'
  BY <1>10, KeptSame
     DEF AddBlockedDomain, RemoveBlockedDomain, requests, Spared, Handling
<1>11. CASE Crash
  <2>1. Spared(a) /\ ~ Busy(a)
    BY <1>11 DEF Crash, Spared, TypeOK, HistoryTypes, Losing
  <2>2. \A q \in Requests : ~ Handling(q, a) /\ ~ Handling(q, a)'
    BY <1>11, <2>1 DEF Crash, Busy, Active, Handling
  <2>3. QED
    BY <1>11, <2>1, <2>2, KeptSame DEF Crash, store
<1>12. CASE UNCHANGED vars
  BY <1>12, KeptSame DEF vars, store, requests, Handling, Spared
<1>13. QED
  BY <1>2, <1>3, <1>4, <1>5, <1>6, <1>7, <1>8, <1>9, <1>10, <1>11, <1>12
     DEF Next, Step

\* An activity whose sender was answered Ok and on which no request works any
\* more was handled completely, unless an incident explains the loss: the dedup
\* never drops a delivery before another one has done its work.
THEOREM NothingLostHolds == Spec => []NothingLostWithoutIncident
<1> DEFINE Inv == \A a \in Activities : KeptInv(a)
<1>1. Init => Inv /\ FirstCall
  BY DEF Init, KeptInv, Handling, FirstCall
<1>2. TypeOK /\ Inv /\ FirstCall /\ [Next]_vars => Inv' /\ FirstCall'
  BY KeptStep, FirstCallStep
<1>3. Inv => NothingLostWithoutIncident
  BY DEF KeptInv, NothingLostWithoutIncident, Handling, Busy, Active
<1> HIDE DEF Inv
<1>4. QED
  BY <1>1, <1>2, <1>3, TypeCorrect, PTL DEF Spec

-----------------------------------------------------------------------------
(* A blocked domain has no effect.                                         *)

\* A request whose domain is not blocked now has seen it unblocked, and so has
\* a request that reached the calls of its handler.
OpenInv ==
  \A r \in Requests :
    Active(r) /\ (stage[r] = "calls" \/ ~ Blocked(task[r])) => r \in opened

LEMMA OpenStep ==
  ASSUME TypeOK, OpenInv, [Next]_vars
  PROVE  OpenInv'
<1> USE DEF OpenInv, TypeOK, RequestTypes, Active
<1>1. ASSUME NEW r \in Requests, NEW s, Answer(r, s), UNCHANGED blockedDomains
      PROVE  OpenInv'
  BY <1>1 DEF Answer, Goto, Blocked
<1>2. ASSUME NEW r \in Requests, NEW s, Goto(r, s), Active(r), s # "calls" \/ ~ Blocked(task[r]),
             UNCHANGED <<task, opened, blockedDomains>>
      PROVE  OpenInv'
  BY <1>2 DEF Goto, Blocked
<1>3. ASSUME UNCHANGED <<stage, task, opened, blockedDomains>> PROVE OpenInv'
  BY <1>3 DEF Blocked
<1>4. ASSUME NEW r \in Requests, NEW a \in Activities, Deliver(r, a) PROVE OpenInv'
  BY <1>4 DEF Deliver, Goto, Blocked, store
<1>5. ASSUME NEW r \in Requests, Step(r) PROVE OpenInv'
  <2>1. Verify(r) \/ CheckProcessed(r) => OpenInv'
    BY <1>1, <1>2 DEF Verify, CheckProcessed, store
  <2>2. MarkProcessed(r) => OpenInv'
    BY <1>2 DEF MarkProcessed
  <2>3. CheckDomain(r) => OpenInv'
    BY <1>1, <1>2 DEF CheckDomain, store, Refuse
  <2>4. CallSucceeds(r) \/ CallFails(r) => OpenInv'
    BY <1>1, <1>3 DEF CallSucceeds, CallFails, store, Refuse
  <2>5. CallStops(r) \/ CallRefuses(r) \/ Finish(r) => OpenInv'
    BY <1>1 DEF CallStops, CallRefuses, Finish, store
  <2>6. QED
    BY <1>5, <2>1, <2>2, <2>3, <2>4, <2>5 DEF Step
<1>6. ASSUME NEW d \in Domains, AddBlockedDomain(d) PROVE OpenInv'
  BY <1>6 DEF AddBlockedDomain, requests, Blocked
<1>7. ASSUME NEW d \in Domains, RemoveBlockedDomain(d) PROVE OpenInv'
  BY <1>7 DEF RemoveBlockedDomain, Blocked
<1>8. CASE Crash
  BY <1>8 DEF Crash
<1>9. QED
  BY <1>3, <1>4, <1>5, <1>6, <1>7, <1>8 DEF Next, vars, store, requests

\* Only a handler call changes what took effect, and the request that makes it has
\* seen its domain unblocked.
LEMMA EffectByOpened ==
  ASSUME TypeOK, OpenInv, [Next]_vars, NEW a \in Activities, done'[a] # done[a]
  PROVE  \E r \in opened : Active(r) /\ task[r] = a /\ next'[r] # next[r]
<1>1. PICK r \in Requests : CallSucceeds(r)
  BY DEF Next, Step, vars, Deliver, Verify, CheckProcessed, MarkProcessed, CheckDomain,
         CallFails, CallStops, CallRefuses, Finish, AddBlockedDomain, RemoveBlockedDomain, Crash
<1>2. task[r] = a /\ Active(r) /\ r \in opened
  BY <1>1 DEF CallSucceeds, AtCall, Active, OpenInv, TypeOK, HistoryTypes
<1>3. next'[r] # next[r]
  BY <1>1 DEF CallSucceeds, TypeOK, RequestTypes
<1>4. QED
  BY <1>2, <1>3

\* The effect of a call comes from the very request that makes it, and that
\* request, at some moment since its delivery, saw the domain of the sender
\* unblocked.
THEOREM BlockedDomainHolds == Spec => NoEffectFromBlockedDomain
<1>1. Init => OpenInv
  BY DEF Init, OpenInv, Active
<1>2. TypeOK /\ OpenInv /\ [Next]_vars => OpenInv'
  BY OpenStep
<1>3. TypeOK /\ OpenInv /\ [Next]_vars =>
        [\A a \in Activities : done'[a] # done[a] =>
            \E r \in opened : Active(r) /\ task[r] = a /\ next'[r] # next[r]]_vars
  BY EffectByOpened
<1>4. QED
  BY <1>1, <1>2, <1>3, TypeCorrect, PTL DEF Spec, NoEffectFromBlockedDomain
=============================================================================
