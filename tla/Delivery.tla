------------------------------ MODULE Delivery ------------------------------
(***************************************************************************)
(* The delivery of activities to the inboxes of other servers: a broadcast *)
(* collects the inboxes and hands the activity to dispatch_sends, which    *)
(* spawns a task and returns.  Without an EventPublisher the task sends to *)
(* one inbox after the other with send_with_retry.  With one it publishes  *)
(* a DeliveryRequested event for each inbox; the application keeps it as a *)
(* job of its queue, and a worker of it calls deliver_to_inbox, which runs *)
(* send_with_retry for the one inbox.                                      *)
(*                                                                         *)
(* A letter is an activity for an inbox.  The queue and its workers are    *)
(* the application's: a job stays until deliver_to_inbox has returned, and *)
(* after an error, or a restart, it may be run again.                      *)
(***************************************************************************)
EXTENDS Naturals, Sequences, SequencesExt

CONSTANTS
  Activities,   \* activities to deliver
  Inboxes,      \* inboxes of other servers
  Unparseable,  \* a stored inbox that is not a URL
  Audiences,    \* [followers, mentioned]: inboxes of a broadcast
  Workers,      \* workers of the application's queue
  AttemptLimits, \* values of delivery_max_attempts
  MaxRuns,      \* runs the application grants a job
  MaxMishaps    \* restarts, lost responses and errors of the publisher and of
                \* the preparation of a job in a behaviour

Letters == Activities \X Inboxes
Runs == Activities \cup Workers   \* who runs send_with_retry

-----------------------------------------------------------------------------
(* The inboxes of a broadcast.                                             *)

Parses(i) == i \in Inboxes
Distinct(s) == FoldLeft(LAMBDA seen, i : IF i \in ToSet(seen) THEN seen ELSE Append(seen, i),
                        <<>>, s)

AcceptedFollowerInboxes(aud) == SelectSeq(aud.followers, Parses)

MergeInboxes(aud) == Distinct(AcceptedFollowerInboxes(aud) \o aud.mentioned)

LettersTo(a, inboxes) == [n \in 1..Len(inboxes) |-> <<a, inboxes[n]>>]

ASSUME DeliveryAssumption ==
  /\ Activities \cap Workers = {}
  /\ Unparseable \notin Inboxes
  /\ \A aud \in Audiences : MergeInboxes(aud) \in Seq(Inboxes)
  /\ \A aud \in Audiences : AcceptedFollowerInboxes(aud) \in Seq(Inboxes)
  /\ AttemptLimits \cup {MaxRuns, MaxMishaps} \subseteq Nat

\* The repository lists every inbox of followers once.
ASSUME DistinctInboxes ==
  \A aud \in Audiences :
    IsInjective(MergeInboxes(aud)) /\ IsInjective(AcceptedFollowerInboxes(aud))

VARIABLES
  publisher,   \* an EventPublisher is configured
  maxAttempts, \* delivery_max_attempts
  wanted,      \* letters of the activities handed to the delivery so far
  publishing,  \* letters each activity's task has yet to publish
  queue,       \* jobs of the application's queue
  job,         \* the job of each worker, a set of one letter or none
  sending,     \* letters each run of send_with_retry has yet to send
  attempt,     \* the attempt it makes next at the first of them
  failures,    \* the letters it has failed to send
  runs,        \* runs of the job of each letter
  received,    \* how often each letter was received
  tried,       \* attempts at each letter
  givenUp,     \* letters reported as failed
  lost,        \* letters an incident took (history)
  excused,     \* letters that may arrive twice (history)
  mishaps

config  == <<publisher, maxAttempts>>
tasks   == <<publishing, sending, attempt, failures>>
jobs    == <<queue, job, runs>>
history == <<lost, excused>>
vars == <<config, wanted, tasks, jobs, received, tried, givenUp, history, mishaps>>

Mishap == mishaps < MaxMishaps /\ mishaps' = mishaps + 1

-----------------------------------------------------------------------------
Init ==
  /\ publisher \in BOOLEAN
  /\ maxAttempts \in AttemptLimits
  /\ wanted = {}
  /\ publishing = [a \in Activities |-> <<>>]
  /\ queue = {}
  /\ job = [w \in Workers |-> {}]
  /\ sending = [r \in Runs |-> <<>>]
  /\ attempt = [r \in Runs |-> 1]
  /\ failures = [r \in Runs |-> {}]
  /\ runs = [l \in Letters |-> 0]
  /\ received = [l \in Letters |-> 0]
  /\ tried = [l \in Letters |-> 0]
  /\ givenUp = {}
  /\ lost = {}
  /\ excused = {}
  /\ mishaps = 0

Asked(a) == \E l \in wanted : l[1] = a

\* dispatch_sends spawns the task of activity a and returns.
Dispatch(a, inboxes) ==
  /\ ~ Asked(a)
  /\ inboxes # <<>>
  /\ wanted' = wanted \cup ToSet(LettersTo(a, inboxes))
  /\ IF publisher
     THEN publishing' = [publishing EXCEPT ![a] = LettersTo(a, inboxes)] /\ UNCHANGED sending
     ELSE sending' = [sending EXCEPT ![a] = LettersTo(a, inboxes)] /\ UNCHANGED publishing
  /\ UNCHANGED <<config, attempt, failures, jobs, received, tried, givenUp, history,
                 mishaps>>

\* Create and Update go to followers and mentioned actors, everything else to
\* the followers; with no inbox nothing is sent.
BroadcastAddressed(a, aud) == Dispatch(a, MergeInboxes(aud))
BroadcastToFollowers(a, aud) == Dispatch(a, AcceptedFollowerInboxes(aud))

\* Mutant: an error of the publisher ends the task.
PublishStops(a) ==
  LET l == Head(publishing[a]) IN
  /\ publishing[a] # <<>>
  /\ \/ /\ publishing' = [publishing EXCEPT ![a] = Tail(@)]
        /\ queue' = queue \cup {l}
        /\ UNCHANGED <<lost, mishaps>>
     \/ /\ Mishap
        /\ publishing' = [publishing EXCEPT ![a] = <<>>]
        /\ lost' = lost \cup {l}
        /\ UNCHANGED queue
  /\ UNCHANGED <<config, wanted, sending, attempt, failures, job, runs, received, tried,
                 givenUp, excused>>

\* The task publishes the next DeliveryRequested; an error is only logged.
Publish(a) ==
  LET l == Head(publishing[a]) IN
  /\ publishing[a] # <<>>
  /\ publishing' = [publishing EXCEPT ![a] = Tail(@)]
  /\ \/ /\ queue' = queue \cup {l}
        /\ UNCHANGED <<lost, mishaps>>
     \/ /\ Mishap
        /\ lost' = lost \cup {l}
        /\ UNCHANGED queue
  /\ UNCHANGED <<config, wanted, sending, attempt, failures, job, runs, received, tried,
                 givenUp, excused>>

\* A worker calls deliver_to_inbox for a job nobody works on.
TakeJob(w, l) ==
  /\ job[w] = {}
  /\ l \in queue
  /\ \A x \in Workers : l \notin job[x]
  /\ job' = [job EXCEPT ![w] = {l}]
  /\ sending' = [sending EXCEPT ![w] = <<l>>]
  /\ runs' = [runs EXCEPT ![l] = @ + 1]
  /\ UNCHANGED <<config, wanted, publishing, attempt, failures, queue, received, tried,
                 givenUp, history, mishaps>>

-----------------------------------------------------------------------------
(* send_with_retry: the letters one after the other.                       *)

NextLetter(r) ==
  /\ sending' = [sending EXCEPT ![r] = Tail(@)]
  /\ attempt' = [attempt EXCEPT ![r] = 1]

Try(r) ==
  LET l == Head(sending[r]) IN
  /\ sending[r] # <<>>
  /\ attempt[r] <= maxAttempts
  /\ tried' = [tried EXCEPT ![l] = @ + 1]
  /\ UNCHANGED <<config, wanted, publishing, jobs, givenUp, lost>>

\* Mutant: the loop goes on after a success.
SendSucceedsGoesOn(r) ==
  LET l == Head(sending[r]) IN
  /\ Try(r)
  /\ received' = [received EXCEPT ![l] = @ + 1]
  /\ IF attempt[r] < maxAttempts
     THEN attempt' = [attempt EXCEPT ![r] = @ + 1] /\ UNCHANGED sending
     ELSE NextLetter(r)
  /\ UNCHANGED <<failures, excused, mishaps>>

SendSucceeds(r) ==
  LET l == Head(sending[r]) IN
  /\ Try(r)
  /\ received' = [received EXCEPT ![l] = @ + 1]
  /\ NextLetter(r)
  /\ UNCHANGED <<failures, excused, mishaps>>

\* Mutant: one attempt too many.
RetryTooOften(r, l) ==
  IF attempt[r] <= maxAttempts
  THEN attempt' = [attempt EXCEPT ![r] = @ + 1] /\ UNCHANGED <<sending, failures>>
  ELSE failures' = [failures EXCEPT ![r] = @ \cup {l}] /\ NextLetter(r)

\* Mutant: the last attempt is not made.
RetryOrFailEarly(r, l) ==
  IF attempt[r] + 1 < maxAttempts
  THEN attempt' = [attempt EXCEPT ![r] = @ + 1] /\ UNCHANGED <<sending, failures>>
  ELSE failures' = [failures EXCEPT ![r] = @ \cup {l}] /\ NextLetter(r)

RetryOrFail(r, l) ==
  IF attempt[r] < maxAttempts
  THEN attempt' = [attempt EXCEPT ![r] = @ + 1] /\ UNCHANGED <<sending, failures>>
  ELSE failures' = [failures EXCEPT ![r] = @ \cup {l}] /\ NextLetter(r)

\* The attempt ends in an error: the letter did not arrive, or its response
\* was lost on the way back.
SendFails(r) ==
  LET l == Head(sending[r]) IN
  /\ Try(r)
  /\ RetryOrFail(r, l)
  /\ \/ UNCHANGED <<received, excused, mishaps>>
     \/ /\ Mishap
        /\ received' = [received EXCEPT ![l] = @ + 1]
        /\ excused' = excused \cup {l}

\* delivery_max_attempts is zero: the loop has no round, nothing is sent and
\* nothing reported.
SkipLetter(r) ==
  /\ sending[r] # <<>>
  /\ maxAttempts = 0
  /\ lost' = lost \cup {Head(sending[r])}
  /\ NextLetter(r)
  /\ UNCHANGED <<config, wanted, publishing, failures, jobs, received, tried, givenUp,
                 excused, mishaps>>

-----------------------------------------------------------------------------
\* Mutant: the task drops its failures.
FinishTaskSilent(a) ==
  /\ sending[a] = <<>>
  /\ failures[a] # {}
  /\ failures' = [failures EXCEPT ![a] = {}]
  /\ UNCHANGED <<config, wanted, publishing, sending, attempt, jobs, received, tried,
                 givenUp, history, mishaps>>

\* The task of an activity ends: its failures are logged.
FinishTask(a) ==
  /\ sending[a] = <<>>
  /\ failures[a] # {}
  /\ givenUp' = givenUp \cup failures[a]
  /\ failures' = [failures EXCEPT ![a] = {}]
  /\ UNCHANGED <<config, wanted, publishing, sending, attempt, jobs, received, tried,
                 history, mishaps>>

\* deliver_to_inbox returns: Ok, and the application drops the job; or an error
\* after it published DeliveryFailed, and the application may run it again.
FinishJob(w) ==
  /\ job[w] # {}
  /\ sending[w] = <<>>
  /\ givenUp' = givenUp \cup failures[w]
  /\ failures' = [failures EXCEPT ![w] = {}]
  /\ job' = [job EXCEPT ![w] = {}]
  /\ \/ queue' = queue \ job[w]
     \/ /\ failures[w] # {}
        /\ \A l \in job[w] : runs[l] < MaxRuns
        /\ UNCHANGED queue
  /\ UNCHANGED <<config, wanted, publishing, sending, attempt, runs, received, tried,
                 history, mishaps>>

\* deliver_to_inbox returns an error before it sends anything: the signing actor
\* could not be read or the signature not be prepared.  No DeliveryFailed is
\* published; the application runs the job again or drops it.
DeliverFailsEarly(w) ==
  /\ sending[w] # <<>>
  /\ attempt[w] = 1
  /\ Mishap
  /\ job' = [job EXCEPT ![w] = {}]
  /\ sending' = [sending EXCEPT ![w] = <<>>]
  /\ \/ /\ queue' = queue \ job[w]
        /\ lost' = lost \cup {l \in job[w] : received[l] = 0 /\ l \notin givenUp}
     \/ /\ \A l \in job[w] : runs[l] < MaxRuns
        /\ UNCHANGED <<queue, lost>>
  /\ UNCHANGED <<config, wanted, publishing, attempt, failures, runs, received, tried,
                 givenUp, excused>>

\* The process restarts.  Its tasks are gone; the queue is kept, and the jobs
\* the workers had taken are run again.
Crash ==
  LET held == UNION {ToSet(publishing[a]) \cup ToSet(sending[a]) \cup failures[a] :
                       a \in Activities}
      arrived == {l \in Letters : received[l] > 0}
  IN
  /\ Mishap
  /\ lost' = lost \cup (held \ arrived)
  /\ excused' = excused \cup (arrived \cap UNION {job[w] : w \in Workers})
  /\ publishing' = [a \in Activities |-> <<>>]
  /\ sending' = [r \in Runs |-> <<>>]
  /\ attempt' = [r \in Runs |-> 1]
  /\ failures' = [r \in Runs |-> {}]
  /\ job' = [w \in Workers |-> {}]
  /\ UNCHANGED <<config, wanted, queue, runs, received, tried, givenUp>>

Advance(r) == SendSucceeds(r) \/ SendFails(r) \/ SkipLetter(r)

Next ==
  \/ \E a \in Activities, aud \in Audiences :
       BroadcastAddressed(a, aud) \/ BroadcastToFollowers(a, aud)
  \/ \E a \in Activities : Publish(a) \/ FinishTask(a)
  \/ \E w \in Workers, l \in Letters : TakeJob(w, l)
  \/ \E w \in Workers : FinishJob(w) \/ DeliverFailsEarly(w)
  \/ \E r \in Runs : Advance(r)
  \/ Crash

Spec == Init /\ [][Next]_vars

\* Spawned tasks and workers run on, and every job is taken by some worker.
FairSpec ==
  /\ Spec
  /\ \A a \in Activities : WF_vars(Publish(a)) /\ WF_vars(FinishTask(a))
  /\ \A r \in Runs : WF_vars(Advance(r))
  /\ \A w \in Workers : WF_vars(FinishJob(w))
  /\ \A l \in Letters : SF_vars(\E w \in Workers : TakeJob(w, l))

-----------------------------------------------------------------------------
(* Properties.                                                             *)

TaskTypes ==
  /\ publishing \in [Activities -> Seq(Letters)]
  /\ sending \in [Runs -> Seq(Letters)]
  /\ \A r \in Runs : attempt[r] = 1 \/ attempt[r] \in 1..maxAttempts
  /\ failures \in [Runs -> SUBSET Letters]

JobTypes ==
  /\ queue \subseteq Letters
  /\ job \in [Workers -> SUBSET Letters]
  /\ \A w \in Workers : job[w] \subseteq queue /\ (job[w] = {} => sending[w] = <<>>)
  /\ runs \in [Letters -> Nat]

\* The type invariant.
TypeOK ==
  /\ publisher \in BOOLEAN
  /\ maxAttempts \in AttemptLimits
  /\ wanted \subseteq Letters
  /\ TaskTypes
  /\ JobTypes
  /\ received \in [Letters -> Nat]
  /\ tried \in [Letters -> Nat]
  /\ givenUp \subseteq Letters
  /\ lost \subseteq Letters
  /\ excused \subseteq Letters
  /\ mishaps \in 0..MaxMishaps

Held(l) ==
  \/ l \in queue
  \/ \E a \in Activities : l \in ToSet(publishing[a]) \cup ToSet(sending[a]) \cup failures[a]

\* No letter is forgotten: a letter of a broadcast has arrived, was reported as
\* failed, is held by a task or the queue, or was lost: with a restart, an error
\* of the event publisher or before the first attempt of a job, or because
\* delivery_max_attempts is zero.
NoneForgotten ==
  \A l \in wanted : received[l] > 0 \/ l \in givenUp \/ l \in lost \/ Held(l)

\* Followers and mentioned actors who share an inbox, retries and failing sends
\* never deliver an activity twice to an inbox; only a lost response, or a restart
\* between the sending of a job and its end, does.
NoneTwice == \A l \in Letters : l \notin excused => received[l] <= 1

\* A letter is reported as failed only after all attempts.
GivenUpAfterAllAttempts == \A l \in givenUp : tried[l] >= maxAttempts /\ tried[l] > 0

Arrived == {l \in Letters : received[l] > 0}
Promise == INSTANCE DeliveryPromise WITH received <- Arrived

\* The delivery keeps its promise, with spawned tasks and with a queue: every
\* letter is settled at last, whatever the order in which sends fail.
KeepsPromise == Promise!Spec
=============================================================================
