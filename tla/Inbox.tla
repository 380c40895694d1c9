-------------------------------- MODULE Inbox --------------------------------
(***************************************************************************)
(* The inbox of a k-ap server: HTTP deliveries of signed activities, run   *)
(* concurrently, each through Activity::verify, check_guards and the calls *)
(* its receive() makes.  Every await of the code is a place where another  *)
(* request may run, so check, mark, domain check and every handler call is *)
(* a step of its own.                                                      *)
(*                                                                         *)
(* The calls of each handler are in Handlers.                              *)
(***************************************************************************)
EXTENDS Naturals, Sequences, FiniteSets, Handlers

CONSTANTS
  Activities,     \* ids of the activities remote servers deliver
  Domains,        \* hosts of remote actors
  DomainOf,       \* host of the actor of each activity
  Requests,       \* inbox requests the server can have in flight
  NoActivity,     \* the activity of an idle request
  MaxDeliveries,  \* deliveries a sender tries per activity
  MaxFaults,      \* repository and handler errors in a behaviour
  MaxCrashes,     \* restarts in a behaviour
  MaxChanges      \* changes of the domain blocklist in a behaviour

ASSUME InboxAssumption ==
  /\ DomainOf \in [Activities -> Domains]
  /\ NoActivity \notin Activities
  /\ MaxDeliveries \in Nat
  /\ MaxFaults \in Nat
  /\ MaxCrashes \in Nat
  /\ MaxChanges \in Nat

VARIABLES
  kind,           \* the kind of each activity
  processed,      \* ActivityRepository: the ids marked processed
  blockedDomains, \* BlocklistRepository: the blocked domains
  stage,          \* where each request is
  task,           \* the activity of each request
  next,           \* the handler call each request makes next
  opened,         \* requests that have seen their domain unblocked (history)
  deliveries,     \* deliveries started per activity
  answers,        \* what the sender has been answered
  done,           \* how often each call of an activity's handler succeeded
  incidents,      \* what went wrong for an activity (history)
  faults, crashes, changes  \* errors, restarts and blocklist changes so far

store    == <<kind, processed, blockedDomains>>
requests == <<stage, task, next, opened>>
counters == <<faults, crashes, changes>>
vars == <<store, requests, deliveries, answers, done, incidents, counters>>

Calls(a) == HandlerCalls[kind[a]]

-----------------------------------------------------------------------------
(* States of a request and what can happen to an activity.                 *)

Stages == {"idle", "verify", "check", "mark", "domain", "calls"}

Active(r) == stage[r] # "idle"
Busy(a) == \E r \in Requests : Active(r) /\ task[r] = a

Blocked(a) == DomainOf[a] \in blockedDomains

\* Incidents that weaken the dedup, and incidents that lose an activity.
Weakening == {"overlap", "check failed", "mark failed"}
Losing    == {"domain check failed", "call failed", "refused", "stopped", "crash",
              "blocked"}

Goto(r, s) == stage' = [stage EXCEPT ![r] = s]

Note(a, what) == incidents' = [incidents EXCEPT ![a] = @ \cup {what}]

Fault == faults < MaxFaults /\ faults' = faults + 1

\* Mutant: the activity of the request is dropped, the request is not.
AnswerKeepsStage(r, status) ==
  /\ UNCHANGED stage
  /\ task' = [task EXCEPT ![r] = NoActivity]
  /\ next' = [next EXCEPT ![r] = 1]
  /\ opened' = opened \ {r}
  /\ answers' = [answers EXCEPT ![task[r]] = @ \cup {status}]

\* The request ends and its sender is answered.
Answer(r, status) ==
  /\ Goto(r, "idle")
  /\ task' = [task EXCEPT ![r] = NoActivity]
  /\ next' = [next EXCEPT ![r] = 1]
  /\ opened' = opened \ {r}
  /\ answers' = [answers EXCEPT ![task[r]] = @ \cup {status}]

\* The request ends in an error of a repository, the application or a fetch.  If
\* it is internal and its text that of an unknown activity type, as when the
\* application fails to decode something, inbox_handler answers Ok.
Refuse(r) == \E status \in {"error", "ok"} : Answer(r, status)

-----------------------------------------------------------------------------
Init ==
  /\ kind \in [Activities -> Kinds]
  /\ processed = {}
  /\ blockedDomains = {}
  /\ stage = [r \in Requests |-> "idle"]
  /\ task = [r \in Requests |-> NoActivity]
  /\ next = [r \in Requests |-> 1]
  /\ opened = {}
  /\ deliveries = [a \in Activities |-> 0]
  /\ answers = [a \in Activities |-> {}]
  /\ done = [a \in Activities |-> [i \in CallIndex |-> 0]]
  /\ incidents = [a \in Activities |-> {}]
  /\ faults = 0
  /\ crashes = 0
  /\ changes = 0

\* A sender delivers, and delivers again until it is answered Ok: after an
\* error, or because its own timeout passed while the server still works.
Deliver(r, a) ==
  /\ stage[r] = "idle"
  /\ "ok" \notin answers[a]
  /\ deliveries[a] < MaxDeliveries
  /\ deliveries' = [deliveries EXCEPT ![a] = @ + 1]
  /\ Goto(r, "verify")
  /\ task' = [task EXCEPT ![r] = a]
  /\ opened' = IF Blocked(a) THEN opened ELSE opened \cup {r}
  /\ UNCHANGED <<store, next, answers, done, incidents, counters>>

\* Mutant: the activity is marked as soon as it is verified, before the check.
VerifyMarks(r) ==
  /\ stage[r] = "verify"
  /\ Goto(r, "check")
  /\ processed' = processed \cup {task[r]}
  /\ UNCHANGED <<kind, blockedDomains, task, next, opened, deliveries, answers, done,
                 incidents, counters>>

\* Only Follow's verify reads a repository: an error there is taken for a user who
\* is not found and refuses the request as a bad one.  (Activities that fail their
\* verify for good change nothing and are left out.)
Verify(r) ==
  /\ stage[r] = "verify"
  /\ \/ /\ Goto(r, "check")
        /\ UNCHANGED <<task, next, opened, answers, incidents, faults>>
     \/ /\ kind[task[r]] = "Follow"
        /\ Fault
        /\ Answer(r, "error")
        /\ UNCHANGED incidents
  /\ UNCHANGED <<store, deliveries, done, crashes, changes>>

\* Mutant: a duplicate is answered with an error.
CheckProcessedRefuses(r) ==
  LET a == task[r] IN
  /\ stage[r] = "check"
  /\ \/ /\ a \in processed
        /\ Answer(r, "error")
        /\ UNCHANGED <<incidents, faults>>
     \/ /\ a \notin processed
        /\ Goto(r, "mark")
        /\ IF \E q \in Requests \ {r} : stage[q] = "mark" /\ task[q] = a
           THEN Note(a, "overlap")
           ELSE UNCHANGED incidents
        /\ UNCHANGED <<task, next, opened, answers, faults>>
     \/ /\ Fault
        /\ Goto(r, "domain")
        /\ Note(a, "check failed")
        /\ UNCHANGED <<task, next, opened, answers>>
  /\ UNCHANGED <<store, deliveries, done, crashes, changes>>

\* is_activity_processed: an error is logged and the handler goes on.
CheckProcessed(r) ==
  LET a == task[r] IN
  /\ stage[r] = "check"
  /\ \/ /\ a \in processed
        /\ Answer(r, "ok")
        /\ UNCHANGED <<incidents, faults>>
     \/ /\ a \notin processed
        /\ Goto(r, "mark")
        /\ IF \E q \in Requests \ {r} : stage[q] = "mark" /\ task[q] = a
           THEN Note(a, "overlap")
           ELSE UNCHANGED incidents
        /\ UNCHANGED <<task, next, opened, answers, faults>>
     \/ /\ Fault
        /\ Goto(r, "domain")
        /\ Note(a, "check failed")
        /\ UNCHANGED <<task, next, opened, answers>>
  /\ UNCHANGED <<store, deliveries, done, crashes, changes>>

\* Mutant: the id is never recorded.
MarkProcessedNever(r) ==
  /\ stage[r] = "mark"
  /\ Goto(r, "domain")
  /\ UNCHANGED <<store, task, next, opened, deliveries, answers, done, incidents, counters>>

\* mark_activity_processed: an error is logged and the handler goes on.
MarkProcessed(r) ==
  LET a == task[r] IN
  /\ stage[r] = "mark"
  /\ Goto(r, "domain")
  /\ \/ /\ processed' = processed \cup {a}
        /\ UNCHANGED <<incidents, faults>>
     \/ /\ Fault
        /\ Note(a, "mark failed")
        /\ UNCHANGED processed
  /\ UNCHANGED <<kind, blockedDomains, task, next, opened, deliveries, answers,
                 done, crashes, changes>>

\* Mutant: an error of the domain check lets the activity through.
CheckDomainOpen(r) ==
  LET a == task[r] IN
  /\ stage[r] = "domain"
  /\ \/ /\ Blocked(a)
        /\ Answer(r, "ok")
        /\ Note(a, "blocked")
        /\ UNCHANGED faults
     \/ /\ ~Blocked(a)
        /\ Goto(r, "calls")
        /\ UNCHANGED <<task, next, opened, answers, incidents, faults>>
     \/ /\ Fault
        /\ Goto(r, "calls")
        /\ UNCHANGED <<task, next, opened, answers, incidents>>
  /\ UNCHANGED <<store, deliveries, done, crashes, changes>>

\* is_domain_blocked: an error is returned, after the id has been marked.
CheckDomain(r) ==
  LET a == task[r] IN
  /\ stage[r] = "domain"
  /\ \/ /\ Blocked(a)
        /\ Answer(r, "ok")
        /\ Note(a, "blocked")
        /\ UNCHANGED faults
     \/ /\ ~Blocked(a)
        /\ Goto(r, "calls")
        /\ UNCHANGED <<task, next, opened, answers, incidents, faults>>
     \/ /\ Fault
        /\ Refuse(r)
        /\ Note(a, "domain check failed")
  /\ UNCHANGED <<store, deliveries, done, crashes, changes>>

\* The request is at call next[r] of its handler.
AtCall(r) == stage[r] = "calls" /\ next[r] \in DOMAIN Calls(task[r])

Mode(r) == Calls(task[r])[next[r]].mode

\* The next call of the handler succeeds.
CallSucceeds(r) ==
  /\ AtCall(r)
  /\ Mode(r) # "refusal"
  /\ done' = [done EXCEPT ![task[r]][next[r]] = @ + 1]
  /\ next' = [next EXCEPT ![r] = @ + 1]
  /\ UNCHANGED <<store, stage, task, opened, deliveries, answers, incidents, counters>>

\* The next call fails: only the error of a Logged call is swallowed.
CallFails(r) ==
  /\ AtCall(r)
  /\ Mode(r) \notin {"guard", "refusal"}
  /\ Fault
  /\ Note(task[r], "call failed")
  /\ \/ /\ Mode(r) = "logged"
        /\ next' = [next EXCEPT ![r] = @ + 1]
        /\ UNCHANGED <<stage, task, opened, answers>>
     \/ /\ Mode(r) # "logged"
        /\ Refuse(r)
  /\ UNCHANGED <<store, deliveries, done, crashes, changes>>

\* A Check ends the handler with Ok: the target user has blocked the actor.
CallStops(r) ==
  /\ AtCall(r)
  /\ Mode(r) = "check"
  /\ Note(task[r], "stopped")
  /\ Answer(r, "ok")
  /\ UNCHANGED <<store, deliveries, done, counters>>

\* The handler takes the activity for a bad request, which inbox_handler does not
\* turn into Ok: the target of a Move does not name the old account, or an Accept
\* is of a Follow by no user of this server.
CallRefuses(r) ==
  /\ AtCall(r)
  /\ Mode(r) \in {"guard", "refusal"}
  /\ Note(task[r], "refused")
  /\ Answer(r, "error")
  /\ UNCHANGED <<store, deliveries, done, counters>>

\* receive() returns Ok.
Finish(r) ==
  /\ stage[r] = "calls"
  /\ next[r] \notin DOMAIN Calls(task[r])
  /\ Answer(r, "ok")
  /\ UNCHANGED <<store, deliveries, done, incidents, counters>>

\* An operator blocks or unblocks a domain while requests are in flight.
AddBlockedDomain(d) ==
  /\ changes < MaxChanges
  /\ changes' = changes + 1
  /\ blockedDomains' = blockedDomains \cup {d}
  /\ UNCHANGED <<kind, processed, requests, deliveries, answers, done, incidents,
                 faults, crashes>>

RemoveBlockedDomain(d) ==
  /\ changes < MaxChanges
  /\ changes' = changes + 1
  /\ blockedDomains' = blockedDomains \ {d}
  /\ opened' = opened \cup {r \in Requests : Active(r) /\ DomainOf[task[r]] = d}
  /\ UNCHANGED <<kind, processed, stage, task, next, deliveries, answers, done,
                 incidents, faults, crashes>>

\* The process restarts: requests in flight are gone, the repositories stay.
Crash ==
  /\ crashes < MaxCrashes
  /\ crashes' = crashes + 1
  /\ incidents' = [a \in Activities |->
                     IF Busy(a) THEN incidents[a] \cup {"crash"} ELSE incidents[a]]
  /\ stage' = [r \in Requests |-> "idle"]
  /\ task' = [r \in Requests |-> NoActivity]
  /\ next' = [r \in Requests |-> 1]
  /\ opened' = {}
  /\ UNCHANGED <<store, deliveries, answers, done, faults, changes>>

Step(r) ==
  \/ Verify(r)
  \/ CheckProcessed(r)
  \/ MarkProcessed(r)
  \/ CheckDomain(r)
  \/ CallSucceeds(r)
  \/ CallFails(r)
  \/ CallStops(r)
  \/ CallRefuses(r)
  \/ Finish(r)

Next ==
  \/ \E r \in Requests : Step(r)
  \/ \E r \in Requests, a \in Activities : Deliver(r, a)
  \/ \E d \in Domains : AddBlockedDomain(d) \/ RemoveBlockedDomain(d)
  \/ Crash

Spec == Init /\ [][Next]_vars

\* The executor runs every request on, and a sender that has not been answered
\* Ok delivers again while it has deliveries left.
FairSpec ==
  /\ Spec
  /\ \A r \in Requests : WF_vars(Step(r))
  /\ \A a \in Activities : WF_vars(\E r \in Requests : Deliver(r, a))

-----------------------------------------------------------------------------
(* Properties.                                                             *)

StoreTypes ==
  /\ kind \in [Activities -> Kinds]
  /\ processed \subseteq Activities
  /\ blockedDomains \subseteq Domains

RequestTypes ==
  /\ stage \in [Requests -> Stages]
  /\ task \in [Requests -> Activities \cup {NoActivity}]
  /\ \A r \in Requests : Active(r) => task[r] \in Activities
  /\ next \in [Requests -> Nat \ {0}]
  /\ opened \subseteq Requests

SenderTypes ==
  /\ deliveries \in [Activities -> 0..MaxDeliveries]
  /\ answers \in [Activities -> SUBSET {"ok", "error"}]

HistoryTypes ==
  /\ done \in [Activities -> [CallIndex -> Nat]]
  /\ incidents \in [Activities -> SUBSET (Weakening \cup Losing)]

CounterTypes ==
  /\ faults \in 0..MaxFaults
  /\ crashes \in 0..MaxCrashes
  /\ changes \in 0..MaxChanges

\* The type invariant.
TypeOK ==
  StoreTypes /\ RequestTypes /\ SenderTypes /\ HistoryTypes /\ CounterTypes

Clean(a) == incidents[a] \cap Weakening = {}
Spared(a) == incidents[a] \cap Losing = {}
Complete(a) == \A i \in DOMAIN Calls(a) : done[a][i] >= 1

\* However often an activity is delivered and however the deliveries overlap,
\* no call of its handler takes effect twice, unless two deliveries were in
\* the window between is_activity_processed and mark_activity_processed, or
\* one of these two calls failed (already_processed goes on in both cases).
AtMostOnce ==
  \A a \in Activities :
    Clean(a) => \A i \in CallIndex : done[a][i] <= 1

\* When the sender has been answered Ok and no request works on the activity
\* any more, every call of its handler took effect, unless a check or a call
\* failed, the handler refused it, the server restarted while handling it, or
\* sender or domain were blocked.  In particular the dedup by itself never drops
\* a first delivery.
NothingLostWithoutIncident ==
  \A a \in Activities :
    "ok" \in answers[a] /\ ~Busy(a) /\ Spared(a) => Complete(a)

\* A handler call takes effect only in a request during which, at some moment,
\* the domain of the sender was not blocked, whatever other requests with the
\* same activity saw: check_guards fails closed.  The request whose call took
\* effect is the one that goes on to its next call.
NoEffectFromBlockedDomain ==
  [][\A a \in Activities :
       done'[a] # done[a] =>
         \E r \in opened : Active(r) /\ task[r] = a /\ next'[r] # next[r]]_vars

\* While the sender has more deliveries than there are failing calls and requests
\* in flight together, and the server does not restart, it is eventually answered
\* Ok; a refused activity is, once it is marked and taken for a duplicate.
EventuallyAcknowledged ==
  \A a \in Activities : deliveries[a] > 0 ~> "ok" \in answers[a]

\* content.rs says of ApObjectHandler that an Err "propagates a 500 back to the
\* remote server, which will trigger a retry": if all that went wrong is the
\* error of a handler call, and the sender was told of it, a later Ok answer to
\* the sender means that the activity was handled.
RetryAfterErrIsHandled ==
  \A a \in Activities :
    /\ kind[a] \in {"Create", "Update", "Add", "Like", "DeleteNote", "DeleteActor",
                    "UndoAdd"}
    /\ answers[a] = {"error", "ok"} /\ ~Busy(a)
    /\ incidents[a] = {"call failed"}
    => \A i \in DOMAIN Calls(a) : Calls(a)[i].mode = "fatal" => done[a][i] >= 1
=============================================================================
