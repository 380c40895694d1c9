--------------------------- MODULE DeliveryProofs ---------------------------
(***************************************************************************)
(* Proofs about Delivery, for any activities, inboxes, audiences, workers  *)
(* and limits: the types, that no letter is forgotten or arrives twice,    *)
(* that a letter is reported as failed only after all attempts, and that   *)
(* every step is one of DeliveryPromise.                                   *)
(***************************************************************************)
EXTENDS Delivery, SequenceTheorems, TLAPS

\* The types, with what the proofs need of the attempts and of the workers: each
\* works on a job of its own.
Types ==
  /\ TypeOK
  /\ attempt \in [Runs -> Nat]
  /\ \A w, x \in Workers : w # x => job[w] \cap job[x] = {}

-----------------------------------------------------------------------------
(* Sequences of letters.                                                   *)

LEMMA HeadAndTail ==
  ASSUME NEW S, NEW s \in Seq(S), s # <<>>
  PROVE  Head(s) \in S /\ Tail(s) \in Seq(S) /\ ToSet(s) = {Head(s)} \cup ToSet(Tail(s))
<1>1. Head(s) \in S /\ Tail(s) \in Seq(S)
  BY HeadTailProperties
<1>2. Len(s) \in Nat \ {0} /\ DOMAIN s = 1..Len(s) /\ Head(s) = s[1]
  BY EmptySeq, LenProperties
<1>3. Len(Tail(s)) = Len(s) - 1 /\ \A i \in 1..(Len(s) - 1) : Tail(s)[i] = s[i + 1]
  BY <1>2
<1>4. DOMAIN Tail(s) = 1..(Len(s) - 1)
  BY <1>1, <1>3, LenProperties
<1>5. ASSUME NEW i \in 1..Len(s), i # 1 PROVE s[i] \in ToSet(Tail(s))
  <2>1. i - 1 \in 1..(Len(s) - 1) /\ Tail(s)[i - 1] = s[i]
    BY <1>2, <1>3, <1>5
  <2>. QED
    BY <1>4, <2>1 DEF ToSet
<1>6. ASSUME NEW i \in 1..(Len(s) - 1) PROVE Tail(s)[i] \in ToSet(s)
  <2>1. i + 1 \in 1..Len(s) /\ Tail(s)[i] = s[i + 1]
    BY <1>2, <1>3
  <2>. QED
    BY <1>2, <2>1 DEF ToSet
<1>7. s[1] \in ToSet(s)
  BY <1>2 DEF ToSet
<1>. QED
  BY <1>1, <1>2, <1>4, <1>5, <1>6, <1>7 DEF ToSet

LEMMA TailDistinct ==
  ASSUME NEW S, NEW s \in Seq(S), s # <<>>, IsInjective(s)
  PROVE  IsInjective(Tail(s)) /\ Head(s) \notin ToSet(Tail(s))
<1>1. Tail(s) \in Seq(S)
  BY HeadTailProperties
<1>2. Len(s) \in Nat \ {0} /\ DOMAIN s = 1..Len(s) /\ Head(s) = s[1]
  BY EmptySeq, LenProperties
<1>3. Len(Tail(s)) = Len(s) - 1 /\ \A i \in 1..(Len(s) - 1) : Tail(s)[i] = s[i + 1]
  BY <1>2
<1>4. DOMAIN Tail(s) = 1..(Len(s) - 1)
  BY <1>1, <1>3, LenProperties
<1>5. ASSUME NEW i \in 1..(Len(s) - 1), NEW j \in 1..(Len(s) - 1), Tail(s)[i] = Tail(s)[j]
      PROVE  i = j
  <2>1. i + 1 \in DOMAIN s /\ j + 1 \in DOMAIN s /\ s[i + 1] = s[j + 1]
    BY <1>2, <1>3, <1>5
  <2>2. i + 1 = j + 1
    BY <2>1 DEF IsInjective
  <2>. QED
    BY <2>2
<1>6. ASSUME NEW i \in 1..(Len(s) - 1) PROVE Tail(s)[i] # Head(s)
  <2>1. i + 1 \in DOMAIN s /\ 1 \in DOMAIN s /\ i + 1 # 1 /\ Tail(s)[i] = s[i + 1]
    BY <1>2, <1>3
  <2>. QED
    BY <1>2, <2>1 DEF IsInjective
<1>. QED
  BY <1>4, <1>5, <1>6 DEF IsInjective, ToSet

LEMMA SetOfEmpty == ToSet(<<>>) = {}
BY DEF ToSet

LEMMA SetOfOne == ASSUME NEW l PROVE ToSet(<<l>>) = {l}
BY DEF ToSet

\* The letters of an activity to a sequence of inboxes.
LEMMA LettersToTypes ==
  ASSUME NEW a \in Activities, NEW s \in Seq(Inboxes)
  PROVE  /\ LettersTo(a, s) \in Seq(Letters)
         /\ ToSet(LettersTo(a, s)) \subseteq {l \in Letters : l[1] = a}
         /\ IsInjective(s) => IsInjective(LettersTo(a, s))
<1>1. Len(s) \in Nat /\ \A n \in 1..Len(s) : s[n] \in Inboxes
  BY LenProperties, ElementOfSeq
<1>2. \A n \in 1..Len(s) : <<a, s[n]>> \in Letters
  BY <1>1 DEF Letters
<1>3. LettersTo(a, s) \in Seq(Letters)
  BY <1>1, <1>2, IsASeq DEF LettersTo
<1>4. DOMAIN LettersTo(a, s) = 1..Len(s) /\ \A n \in 1..Len(s) : LettersTo(a, s)[n] = <<a, s[n]>>
  BY DEF LettersTo
<1>5. ToSet(LettersTo(a, s)) \subseteq {l \in Letters : l[1] = a}
  <2>1. \A n \in 1..Len(s) : LettersTo(a, s)[n][1] = a
    BY <1>4
  <2>. QED
    BY <1>1, <1>2, <1>4, <2>1 DEF ToSet
<1>6. ASSUME IsInjective(s) PROVE IsInjective(LettersTo(a, s))
  BY <1>1, <1>4, <1>6, LenProperties DEF IsInjective
<1>. QED
  BY <1>3, <1>5, <1>6

\* The inboxes of a broadcast.
LEMMA InboxesTypes ==
  ASSUME NEW aud \in Audiences
  PROVE  \A s \in {MergeInboxes(aud), AcceptedFollowerInboxes(aud)} :
           s \in Seq(Inboxes) /\ IsInjective(s)
BY DeliveryAssumption, DistinctInboxes

\* Every step is one of these.
LEMMA StepCases ==
  ASSUME [Next]_vars
  PROVE  \/ \E a \in Activities, s \in Seq(Inboxes) : IsInjective(s) /\ Dispatch(a, s)
         \/ \E a \in Activities : Publish(a) \/ FinishTask(a)
         \/ \E w \in Workers, l \in Letters : TakeJob(w, l)
         \/ \E w \in Workers : FinishJob(w) \/ DeliverFailsEarly(w)
         \/ \E r \in Runs : SendSucceeds(r) \/ SendFails(r) \/ SkipLetter(r)
         \/ Crash
         \/ UNCHANGED vars
BY InboxesTypes DEF Next, Advance, BroadcastAddressed, BroadcastToFollowers

\* Who runs send_with_retry.
LEMMA RunsAre ==
  /\ \A a \in Activities : a \in Runs /\ a \notin Workers
  /\ \A w \in Workers : w \in Runs /\ w \notin Activities
BY DeliveryAssumption DEF Runs

-----------------------------------------------------------------------------
(* Types.                                                                  *)

LEMMA TypesInitially == Init => Types
<1>. SUFFICES ASSUME Init PROVE Types
  OBVIOUS
<1>1. <<>> \in Seq(Letters)
  BY EmptySeq
<1>. QED
  BY <1>1, DeliveryAssumption DEF Init, Types, TypeOK, TaskTypes, JobTypes, Runs

\* Going on to the next letter keeps the types of the run.
LEMMA NextLetterTypes ==
  ASSUME Types, NEW r \in Runs, sending[r] # <<>>, NextLetter(r), UNCHANGED maxAttempts
  PROVE  /\ sending' \in [Runs -> Seq(Letters)] /\ attempt' \in [Runs -> Nat]
         /\ \A x \in Runs : attempt'[x] = 1 \/ attempt'[x] \in 1..maxAttempts'
BY HeadAndTail DEF Types, TypeOK, TaskTypes, NextLetter

\* An attempt changes the types of nothing it counts.
LEMMA TryTypes ==
  ASSUME Types, NEW r \in Runs, Try(r)
  PROVE  tried' \in [Letters -> Nat] /\ Head(sending[r]) \in Letters /\ sending[r] # <<>>
<1>1. sending[r] \in Seq(Letters) /\ sending[r] # <<>>
  BY DEF Types, TypeOK, TaskTypes, Try
<1>2. Head(sending[r]) \in Letters
  BY <1>1, HeadAndTail
<1>. QED
  BY <1>1, <1>2 DEF Types, TypeOK, Try

\* A run that no worker has a job for sends nothing, after a step as before.
LEMMA JobsKept ==
  ASSUME Types, UNCHANGED jobs, \A w \in Workers : sending[w] = <<>> => sending'[w] = <<>>
  PROVE  /\ JobTypes'
         /\ \A w, x \in Workers : w # x => job'[w] \cap job'[x] = {}
BY DEF Types, TypeOK, JobTypes, jobs

\* The bound on mishaps.
LEMMA MishapTypes ==
  ASSUME Types, Mishap \/ UNCHANGED mishaps
  PROVE  mishaps' \in 0..MaxMishaps
<1>1. MaxMishaps \in Nat /\ mishaps \in 0..MaxMishaps
  BY DeliveryAssumption DEF Types, TypeOK
<1>. QED
  BY <1>1 DEF Mishap

LEMMA TypesKept == Types /\ [Next]_vars => Types'
<1>. SUFFICES ASSUME Types, [Next]_vars PROVE Types'
  OBVIOUS
<1>1. ASSUME NEW a \in Activities, NEW s \in Seq(Inboxes), Dispatch(a, s) PROVE Types'
  <2>1. LettersTo(a, s) \in Seq(Letters) /\ ToSet(LettersTo(a, s)) \subseteq Letters
    BY LettersToTypes
  <2>2. publishing' \in [Activities -> Seq(Letters)] /\ sending' \in [Runs -> Seq(Letters)]
    BY <1>1, <2>1 DEF Dispatch, Types, TypeOK, TaskTypes
  <2>3. \A w \in Workers : sending'[w] = sending[w]
    BY <1>1, RunsAre DEF Dispatch, Types, TypeOK, TaskTypes
  <2>4. JobTypes' /\ \A w, x \in Workers : w # x => job'[w] \cap job'[x] = {}
    BY <1>1, <2>3, JobsKept DEF Dispatch
  <2>. QED
    BY <1>1, <2>1, <2>2, <2>4 DEF Dispatch, config, history, Types, TypeOK, TaskTypes
<1>2. ASSUME NEW a \in Activities, Publish(a) PROVE Types'
  <2>1. publishing[a] \in Seq(Letters) /\ publishing[a] # <<>>
    BY <1>2 DEF Publish, Types, TypeOK, TaskTypes
  <2>2. Head(publishing[a]) \in Letters /\ Tail(publishing[a]) \in Seq(Letters)
    BY <2>1, HeadAndTail
  <2>3. publishing' \in [Activities -> Seq(Letters)]
    BY <1>2, <2>2 DEF Publish, Types, TypeOK, TaskTypes
  <2>4. queue' \subseteq Letters /\ queue \subseteq queue' /\ lost' \subseteq Letters
    BY <1>2, <2>2 DEF Publish, Types, TypeOK, JobTypes
  <2>5. mishaps' \in 0..MaxMishaps
    BY <1>2, MishapTypes DEF Publish
  <2>. QED
    BY <1>2, <2>3, <2>4, <2>5 DEF Publish, config, Types, TypeOK, TaskTypes, JobTypes
<1>3. ASSUME NEW a \in Activities, FinishTask(a) PROVE Types'
  <2>1. a \in Runs
    BY RunsAre
  <2>2. failures' \in [Runs -> SUBSET Letters] /\ givenUp' \subseteq Letters
    BY <1>3, <2>1 DEF FinishTask, Types, TypeOK, TaskTypes
  <2>3. JobTypes' /\ \A w, x \in Workers : w # x => job'[w] \cap job'[x] = {}
    BY <1>3, JobsKept DEF FinishTask
  <2>. QED
    BY <1>3, <2>2, <2>3 DEF FinishTask, config, history, Types, TypeOK, TaskTypes
<1>4. ASSUME NEW w \in Workers, NEW l \in Letters, TakeJob(w, l) PROVE Types'
  <2>1. w \in Runs /\ <<l>> \in Seq(Letters)
    BY RunsAre
  <2>2. sending' \in [Runs -> Seq(Letters)] /\ \A x \in Workers \ {w} : sending'[x] = sending[x]
    BY <1>4, <2>1, RunsAre DEF TakeJob, Types, TypeOK, TaskTypes
  <2>3. /\ job' \in [Workers -> SUBSET Letters] /\ job'[w] = {l}
        /\ \A x \in Workers \ {w} : job'[x] = job[x] /\ l \notin job[x]
    BY <1>4 DEF TakeJob, Types, TypeOK, JobTypes
  <2>4. runs' \in [Letters -> Nat]
    BY <1>4 DEF TakeJob, Types, TypeOK, JobTypes
  <2>5. \A x \in Workers : job'[x] \subseteq queue' /\ (job'[x] = {} => sending'[x] = <<>>)
    BY <1>4, <2>2, <2>3 DEF TakeJob, Types, TypeOK, JobTypes
  <2>6. \A x, y \in Workers : x # y => job'[x] \cap job'[y] = {}
    BY <2>3 DEF Types
  <2>. QED
    BY <1>4, <2>2, <2>3, <2>4, <2>5, <2>6
    DEF TakeJob, config, history, Types, TypeOK, TaskTypes, JobTypes
<1>5. ASSUME NEW w \in Workers, FinishJob(w) PROVE Types'
  <2>1. w \in Runs
    BY RunsAre
  <2>2. failures' \in [Runs -> SUBSET Letters] /\ givenUp' \subseteq Letters
    BY <1>5, <2>1 DEF FinishJob, Types, TypeOK, TaskTypes
  <2>3. /\ job' \in [Workers -> SUBSET Letters] /\ job'[w] = {}
        /\ \A x \in Workers \ {w} : job'[x] = job[x]
    BY <1>5 DEF FinishJob, Types, TypeOK, JobTypes
  <2>4. queue' \subseteq queue /\ queue \ job[w] \subseteq queue'
    BY <1>5 DEF FinishJob
  <2>5. \A x \in Workers : job'[x] \subseteq queue' /\ (job'[x] = {} => sending'[x] = <<>>)
    BY <1>5, <2>3, <2>4 DEF FinishJob, Types, TypeOK, JobTypes
  <2>6. \A x, y \in Workers : x # y => job'[x] \cap job'[y] = {}
    BY <2>3 DEF Types
  <2>. QED
    BY <1>5, <2>2, <2>3, <2>4, <2>5, <2>6
    DEF FinishJob, config, history, Types, TypeOK, TaskTypes, JobTypes
<1>6. ASSUME NEW w \in Workers, DeliverFailsEarly(w) PROVE Types'
  <2>1. w \in Runs /\ <<>> \in Seq(Letters)
    BY RunsAre, EmptySeq
  <2>2. /\ sending' \in [Runs -> Seq(Letters)] /\ sending'[w] = <<>>
        /\ \A x \in Workers \ {w} : sending'[x] = sending[x]
    BY <1>6, <2>1, RunsAre DEF DeliverFailsEarly, Types, TypeOK, TaskTypes
  <2>3. /\ job' \in [Workers -> SUBSET Letters] /\ job'[w] = {}
        /\ \A x \in Workers \ {w} : job'[x] = job[x]
    BY <1>6 DEF DeliverFailsEarly, Types, TypeOK, JobTypes
  <2>4. queue' \subseteq queue /\ queue \ job[w] \subseteq queue'
    BY <1>6 DEF DeliverFailsEarly
  <2>5. \A x \in Workers : job'[x] \subseteq queue' /\ (job'[x] = {} => sending'[x] = <<>>)
    BY <2>2, <2>3, <2>4 DEF Types, TypeOK, JobTypes
  <2>6. \A x, y \in Workers : x # y => job'[x] \cap job'[y] = {}
    BY <2>3 DEF Types
  <2>7. lost' \subseteq Letters
    BY <1>6 DEF DeliverFailsEarly, Types, TypeOK, JobTypes
  <2>8. mishaps' \in 0..MaxMishaps
    BY <1>6, MishapTypes DEF DeliverFailsEarly
  <2>. QED
    BY <1>6, <2>2, <2>3, <2>4, <2>5, <2>6, <2>7, <2>8
    DEF DeliverFailsEarly, config, Types, TypeOK, TaskTypes, JobTypes
<1>7. ASSUME NEW r \in Runs, SendSucceeds(r) PROVE Types'
  <2>1. tried' \in [Letters -> Nat] /\ Head(sending[r]) \in Letters /\ sending[r] # <<>>
    BY <1>7, TryTypes DEF SendSucceeds
  <2>2. received' \in [Letters -> Nat]
    BY <1>7, <2>1 DEF SendSucceeds, Types, TypeOK
  <2>3. /\ sending' \in [Runs -> Seq(Letters)] /\ attempt' \in [Runs -> Nat]
        /\ \A x \in Runs : attempt'[x] = 1 \/ attempt'[x] \in 1..maxAttempts'
    BY <1>7, <2>1, NextLetterTypes DEF SendSucceeds, Try, config
  <2>4. \A w \in Workers : sending[w] = <<>> => sending'[w] = <<>>
    BY <1>7, <2>1, RunsAre DEF SendSucceeds, NextLetter, Types, TypeOK, TaskTypes
  <2>5. JobTypes' /\ \A w, x \in Workers : w # x => job'[w] \cap job'[x] = {}
    BY <1>7, <2>4, JobsKept DEF SendSucceeds, Try
  <2>. QED
    BY <1>7, <2>1, <2>2, <2>3, <2>5 DEF SendSucceeds, Try, config, Types, TypeOK, TaskTypes
<1>8. ASSUME NEW r \in Runs, SendFails(r) PROVE Types'
  <2>1. tried' \in [Letters -> Nat] /\ Head(sending[r]) \in Letters /\ sending[r] # <<>>
    BY <1>8, TryTypes DEF SendFails
  <2>2. received' \in [Letters -> Nat] /\ excused' \subseteq Letters
    BY <1>8, <2>1 DEF SendFails, Types, TypeOK
  <2>3. mishaps' \in 0..MaxMishaps
    BY <1>8, MishapTypes DEF SendFails
  <2>4. CASE attempt[r] < maxAttempts
    <3>1. attempt' = [attempt EXCEPT ![r] = @ + 1] /\ UNCHANGED <<sending, failures>>
      BY <1>8, <2>4 DEF SendFails, RetryOrFail
    <3>2. /\ attempt' \in [Runs -> Nat]
          /\ \A x \in Runs : attempt'[x] = 1 \/ attempt'[x] \in 1..maxAttempts
      BY <2>4, <3>1, DeliveryAssumption DEF Types, TypeOK, TaskTypes
    <3>3. JobTypes' /\ \A w, x \in Workers : w # x => job'[w] \cap job'[x] = {}
      BY <1>8, <3>1, JobsKept DEF SendFails, Try
    <3>. QED
      BY <1>8, <2>1, <2>2, <2>3, <3>1, <3>2, <3>3 DEF SendFails, Try, config, Types, TypeOK, TaskTypes
  <2>5. CASE ~ attempt[r] < maxAttempts
    <3>1. failures' = [failures EXCEPT ![r] = @ \cup {Head(sending[r])}] /\ NextLetter(r)
      BY <1>8, <2>5 DEF SendFails, RetryOrFail
    <3>2. failures' \in [Runs -> SUBSET Letters]
      BY <2>1, <3>1 DEF Types, TypeOK, TaskTypes
    <3>3. /\ sending' \in [Runs -> Seq(Letters)] /\ attempt' \in [Runs -> Nat]
          /\ \A x \in Runs : attempt'[x] = 1 \/ attempt'[x] \in 1..maxAttempts'
      BY <1>8, <2>1, <3>1, NextLetterTypes DEF SendFails, Try, config
    <3>4. \A w \in Workers : sending[w] = <<>> => sending'[w] = <<>>
      BY <2>1, <3>1, RunsAre DEF NextLetter, Types, TypeOK, TaskTypes
    <3>5. JobTypes' /\ \A w, x \in Workers : w # x => job'[w] \cap job'[x] = {}
      BY <1>8, <3>4, JobsKept DEF SendFails, Try
    <3>. QED
      BY <1>8, <2>1, <2>2, <2>3, <3>2, <3>3, <3>5 DEF SendFails, Try, config, Types, TypeOK, TaskTypes
  <2>. QED
    BY <2>4, <2>5
<1>9. ASSUME NEW r \in Runs, SkipLetter(r) PROVE Types'
  <2>1. sending[r] # <<>> /\ Head(sending[r]) \in Letters
    BY <1>9, HeadAndTail DEF SkipLetter, Types, TypeOK, TaskTypes
  <2>2. /\ sending' \in [Runs -> Seq(Letters)] /\ attempt' \in [Runs -> Nat]
        /\ \A x \in Runs : attempt'[x] = 1 \/ attempt'[x] \in 1..maxAttempts'
    BY <1>9, <2>1, NextLetterTypes DEF SkipLetter, config
  <2>3. \A w \in Workers : sending[w] = <<>> => sending'[w] = <<>>
    BY <1>9, <2>1, RunsAre DEF SkipLetter, NextLetter, Types, TypeOK, TaskTypes
  <2>4. JobTypes' /\ \A w, x \in Workers : w # x => job'[w] \cap job'[x] = {}
    BY <1>9, <2>3, JobsKept DEF SkipLetter
  <2>. QED
    BY <1>9, <2>1, <2>2, <2>4 DEF SkipLetter, config, Types, TypeOK, TaskTypes
<1>10. CASE Crash
  <2>1. <<>> \in Seq(Letters)
    BY EmptySeq
  <2>2. excused' \subseteq Letters
    BY <1>10 DEF Crash, Types, TypeOK
  <2>3. \A a \in Activities : ToSet(publishing[a]) \subseteq Letters /\ ToSet(sending[a]) \subseteq Letters
    BY RunsAre, LenProperties, ElementOfSeq DEF ToSet, Types, TypeOK, TaskTypes
  <2>4. \A a \in Activities : failures[a] \subseteq Letters
    BY RunsAre DEF Types, TypeOK, TaskTypes
  <2>5. lost' \subseteq Letters
    BY <1>10, <2>3, <2>4 DEF Crash, Types, TypeOK
  <2>6. mishaps' \in 0..MaxMishaps
    BY <1>10, MishapTypes DEF Crash
  <2>7. /\ publishing' \in [Activities -> Seq(Letters)] /\ sending' \in [Runs -> Seq(Letters)]
        /\ attempt' \in [Runs -> Nat] /\ failures' \in [Runs -> SUBSET Letters]
        /\ \A r \in Runs : attempt'[r] = 1
    BY <1>10, <2>1 DEF Crash
  <2>8. JobTypes' /\ \A w, x \in Workers : w # x => job'[w] \cap job'[x] = {}
    BY <1>10, RunsAre DEF Crash, Types, TypeOK, JobTypes
  <2>. QED
    BY <1>10, <2>2, <2>5, <2>6, <2>7, <2>8 DEF Crash, config, Types, TypeOK, TaskTypes
<1>11. CASE UNCHANGED vars
  BY <1>11 DEF vars, config, tasks, jobs, history, Types, TypeOK, TaskTypes, JobTypes
<1>. QED
  BY <1>1, <1>2, <1>3, <1>4, <1>5, <1>6, <1>7, <1>8, <1>9, <1>10, <1>11, StepCases

\* Type correctness of tasks, workers and the queue.
THEOREM TypeCorrect == Spec => []TypeOK
<1>1. Types => TypeOK
  BY DEF Types
<1>. QED
  BY <1>1, TypesInitially, TypesKept, PTL DEF Spec

-----------------------------------------------------------------------------
(* What tasks, workers and the queue hold.                                 *)

\* The letters the task of an activity holds.
TaskLetters(a) == ToSet(publishing[a]) \cup ToSet(sending[a]) \cup failures[a]

\* A task holds letters of its activity that were asked for.
TasksHold == \A a \in Activities : TaskLetters(a) \subseteq {l \in wanted : l[1] = a}

\* A worker sends the one letter of its job, and fails at no other.
WorkersHold ==
  \A w \in Workers :
    /\ failures[w] \subseteq job[w]
    /\ sending[w] # <<>> => /\ job[w] = {Head(sending[w])}
                            /\ Tail(sending[w]) = <<>>
                            /\ failures[w] = {}

\* Nothing happens to a letter nobody asked for.
OnlyWanted ==
  /\ queue \cup givenUp \cup lost \subseteq wanted
  /\ \A l \in Letters : received[l] > 0 => l \in wanted

HoldInv == TasksHold /\ WorkersHold /\ OnlyWanted

\* The head of what is sent is held by the task or is the worker's job.
LEMMA HeadHeld ==
  ASSUME Types, HoldInv, NEW r \in Runs, sending[r] # <<>>
  PROVE  /\ Head(sending[r]) \in wanted
         /\ ToSet(sending[r]) = {Head(sending[r])} \cup ToSet(Tail(sending[r]))
<1>1. ToSet(sending[r]) = {Head(sending[r])} \cup ToSet(Tail(sending[r]))
  BY HeadAndTail DEF Types, TypeOK, TaskTypes
<1>2. CASE r \in Activities
  BY <1>1, <1>2 DEF HoldInv, TasksHold, TaskLetters
<1>3. CASE r \in Workers
  <2>1. job[r] = {Head(sending[r])} /\ job[r] \subseteq queue /\ queue \subseteq wanted
    BY <1>3 DEF HoldInv, WorkersHold, OnlyWanted, Types, TypeOK, JobTypes
  <2>. QED
    BY <1>1, <2>1
<1>. QED
  BY <1>1, <1>2, <1>3 DEF Runs

\* Going on to the next letter, with or without a failure at this one.
LEMMA NextLetterHolds ==
  ASSUME Types, HoldInv, NEW r \in Runs, sending[r] # <<>>, NextLetter(r),
         UNCHANGED <<publishing, wanted, job>>,
         \/ UNCHANGED failures
         \/ failures' = [failures EXCEPT ![r] = @ \cup {Head(sending[r])}]
  PROVE  TasksHold' /\ WorkersHold'
<1>1. /\ sending'[r] = Tail(sending[r])
      /\ \A x \in Runs \ {r} : sending'[x] = sending[x] /\ failures'[x] = failures[x]
      /\ failures'[r] \subseteq failures[r] \cup {Head(sending[r])}
  BY DEF NextLetter, Types, TypeOK, TaskTypes
<1>2. ToSet(sending[r]) = {Head(sending[r])} \cup ToSet(Tail(sending[r]))
  BY HeadHeld
<1>3. \A a \in Activities : TaskLetters(a)' \subseteq TaskLetters(a)
  BY <1>1, <1>2, RunsAre DEF TaskLetters
<1>4. TasksHold'
  BY <1>3 DEF HoldInv, TasksHold
<1>5. ASSUME NEW w \in Workers
      PROVE  /\ failures'[w] \subseteq job'[w]
             /\ sending'[w] # <<>> => /\ job'[w] = {Head(sending'[w])}
                                      /\ Tail(sending'[w]) = <<>>
                                      /\ failures'[w] = {}
  BY <1>1, RunsAre DEF HoldInv, WorkersHold
<1>. QED
  BY <1>4, <1>5 DEF WorkersHold

LEMMA HoldInitially == Init => HoldInv
BY SetOfEmpty, RunsAre DEF Init, HoldInv, TasksHold, TaskLetters, WorkersHold, OnlyWanted

LEMMA HoldKept == Types /\ HoldInv /\ [Next]_vars => HoldInv'
<1>. SUFFICES ASSUME Types, HoldInv, [Next]_vars PROVE HoldInv'
  OBVIOUS
<1>1. ASSUME NEW a \in Activities, NEW s \in Seq(Inboxes), Dispatch(a, s) PROVE HoldInv'
  <2>1. ToSet(LettersTo(a, s)) \subseteq {l \in Letters : l[1] = a}
    BY LettersToTypes
  <2>2. wanted' = wanted \cup ToSet(LettersTo(a, s))
    BY <1>1 DEF Dispatch
  <2>3. a \in Runs /\ a \notin Workers
    BY RunsAre
  <2>4. TaskLetters(a)' \subseteq TaskLetters(a) \cup ToSet(LettersTo(a, s))
    BY <1>1, <2>3 DEF Dispatch, TaskLetters, Types, TypeOK, TaskTypes
  <2>5. \A b \in Activities \ {a} : TaskLetters(b)' = TaskLetters(b)
    BY <1>1, <2>3, RunsAre DEF Dispatch, TaskLetters, Types, TypeOK, TaskTypes
  <2>6. TasksHold'
    BY <2>1, <2>2, <2>4, <2>5 DEF HoldInv, TasksHold
  <2>7. \A w \in Workers : sending'[w] = sending[w]
    BY <1>1, <2>3, RunsAre DEF Dispatch, Types, TypeOK, TaskTypes
  <2>8. WorkersHold'
    BY <1>1, <2>7 DEF Dispatch, jobs, HoldInv, WorkersHold
  <2>. QED
    BY <1>1, <2>2, <2>6, <2>8 DEF Dispatch, jobs, history, HoldInv, OnlyWanted
<1>2. ASSUME NEW a \in Activities, Publish(a) PROVE HoldInv'
  <2>1. publishing[a] \in Seq(Letters) /\ publishing[a] # <<>>
    BY <1>2 DEF Publish, Types, TypeOK, TaskTypes
  <2>2. ToSet(publishing[a]) = {Head(publishing[a])} \cup ToSet(Tail(publishing[a]))
    BY <2>1, HeadAndTail
  <2>3. Head(publishing[a]) \in wanted
    BY <2>2 DEF HoldInv, TasksHold, TaskLetters
  <2>4. \A b \in Activities : TaskLetters(b)' \subseteq TaskLetters(b)
    BY <1>2, <2>2 DEF Publish, TaskLetters, Types, TypeOK, TaskTypes
  <2>5. queue' \subseteq wanted /\ lost' \subseteq wanted
    BY <1>2, <2>3 DEF Publish, HoldInv, OnlyWanted
  <2>. QED
    BY <1>2, <2>4, <2>5 DEF Publish, HoldInv, TasksHold, WorkersHold, OnlyWanted
<1>3. ASSUME NEW a \in Activities, FinishTask(a) PROVE HoldInv'
  <2>1. a \in Runs /\ failures[a] \subseteq wanted
    BY RunsAre DEF HoldInv, TasksHold, TaskLetters
  <2>2. \A x \in Runs : failures'[x] \subseteq failures[x]
    BY <1>3, <2>1 DEF FinishTask, Types, TypeOK, TaskTypes
  <2>3. TasksHold' /\ WorkersHold'
    BY <1>3, <2>2, RunsAre DEF FinishTask, jobs, HoldInv, TasksHold, TaskLetters, WorkersHold
  <2>. QED
    BY <1>3, <2>1, <2>3 DEF FinishTask, jobs, history, HoldInv, OnlyWanted
<1>4. ASSUME NEW w \in Workers, NEW l \in Letters, TakeJob(w, l) PROVE HoldInv'
  <2>1. /\ w \in Runs /\ sending'[w] = <<l>> /\ job'[w] = {l}
        /\ \A x \in Runs \ {w} : sending'[x] = sending[x]
        /\ \A x \in Workers \ {w} : job'[x] = job[x]
        /\ job[w] = {}
    BY <1>4, RunsAre DEF TakeJob, Types, TypeOK, TaskTypes, JobTypes
  <2>2. failures[w] = {}
    BY <2>1 DEF HoldInv, WorkersHold
  <2>3. Head(<<l>>) = l /\ Tail(<<l>>) = <<>>
    OBVIOUS
  <2>4. WorkersHold'
    BY <1>4, <2>1, <2>2, <2>3, RunsAre DEF TakeJob, HoldInv, WorkersHold
  <2>5. TasksHold'
    BY <1>4, <2>1, RunsAre DEF TakeJob, HoldInv, TasksHold, TaskLetters
  <2>. QED
    BY <1>4, <2>4, <2>5 DEF TakeJob, history, HoldInv, OnlyWanted
<1>5. ASSUME NEW w \in Workers, FinishJob(w) PROVE HoldInv'
  <2>1. /\ w \in Runs /\ sending[w] = <<>> /\ sending' = sending /\ failures'[w] = {}
        /\ \A x \in Runs \ {w} : failures'[x] = failures[x]
        /\ \A x \in Workers \ {w} : job'[x] = job[x]
    BY <1>5, RunsAre DEF FinishJob, Types, TypeOK, TaskTypes, JobTypes
  <2>2. queue' \subseteq queue /\ failures[w] \subseteq wanted
    BY <1>5 DEF FinishJob, HoldInv, WorkersHold, OnlyWanted, Types, TypeOK, JobTypes
  <2>3. WorkersHold'
    BY <2>1, RunsAre DEF HoldInv, WorkersHold
  <2>4. TasksHold'
    BY <1>5, <2>1, RunsAre DEF FinishJob, HoldInv, TasksHold, TaskLetters
  <2>. QED
    BY <1>5, <2>2, <2>3, <2>4 DEF FinishJob, history, HoldInv, OnlyWanted
<1>6. ASSUME NEW w \in Workers, DeliverFailsEarly(w) PROVE HoldInv'
  <2>1. /\ w \in Runs /\ sending'[w] = <<>> /\ job'[w] = {} /\ sending[w] # <<>>
        /\ \A x \in Runs \ {w} : sending'[x] = sending[x]
        /\ \A x \in Workers \ {w} : job'[x] = job[x]
        /\ failures' = failures
    BY <1>6, RunsAre DEF DeliverFailsEarly, Types, TypeOK, TaskTypes, JobTypes
  <2>2. job[w] \subseteq wanted
    BY DEF HoldInv, OnlyWanted, Types, TypeOK, JobTypes
  <2>3. queue' \subseteq queue /\ lost' \subseteq wanted
    BY <1>6, <2>2 DEF DeliverFailsEarly, HoldInv, OnlyWanted
  <2>4. TasksHold'
    BY <1>6, <2>1, RunsAre DEF DeliverFailsEarly, HoldInv, TasksHold, TaskLetters
  <2>5. WorkersHold'
    BY <2>1, RunsAre DEF HoldInv, WorkersHold
  <2>. QED
    BY <1>6, <2>3, <2>4, <2>5 DEF DeliverFailsEarly, HoldInv, OnlyWanted
<1>7. ASSUME NEW r \in Runs, SendSucceeds(r) PROVE HoldInv'
  <2>1. sending[r] # <<>>
    BY <1>7 DEF SendSucceeds, Try
  <2>2. TasksHold' /\ WorkersHold'
    BY <1>7, <2>1, NextLetterHolds DEF SendSucceeds, Try, jobs
  <2>3. \A l \in Letters : received'[l] > 0 => received[l] > 0 \/ l = Head(sending[r])
    BY <1>7 DEF SendSucceeds, Types, TypeOK
  <2>. QED
    BY <1>7, <2>1, <2>2, <2>3, HeadHeld DEF SendSucceeds, Try, jobs, HoldInv, OnlyWanted
<1>8. ASSUME NEW r \in Runs, SendFails(r) PROVE HoldInv'
  <2>1. sending[r] # <<>>
    BY <1>8 DEF SendFails, Try
  <2>2. TasksHold' /\ WorkersHold'
    <3>1. CASE attempt[r] < maxAttempts
      BY <1>8, <3>1 DEF SendFails, Try, jobs, RetryOrFail, HoldInv, TasksHold, TaskLetters, WorkersHold
    <3>2. CASE ~ attempt[r] < maxAttempts
      BY <1>8, <2>1, <3>2, NextLetterHolds DEF SendFails, Try, jobs, RetryOrFail
    <3>. QED
      BY <3>1, <3>2
  <2>3. \A l \in Letters : received'[l] > 0 => received[l] > 0 \/ l = Head(sending[r])
    BY <1>8 DEF SendFails, Types, TypeOK
  <2>. QED
    BY <1>8, <2>1, <2>2, <2>3, HeadHeld DEF SendFails, Try, jobs, HoldInv, OnlyWanted
<1>9. ASSUME NEW r \in Runs, SkipLetter(r) PROVE HoldInv'
  <2>1. TasksHold' /\ WorkersHold'
    BY <1>9, NextLetterHolds DEF SkipLetter, jobs
  <2>. QED
    BY <1>9, <2>1, HeadHeld DEF SkipLetter, jobs, HoldInv, OnlyWanted
<1>10. CASE Crash
  <2>1. lost' \subseteq wanted
    BY <1>10 DEF Crash, HoldInv, OnlyWanted, TasksHold, TaskLetters
  <2>2. \A a \in Activities : TaskLetters(a)' = {}
    BY <1>10, SetOfEmpty, RunsAre DEF Crash, TaskLetters
  <2>3. WorkersHold'
    BY <1>10, RunsAre DEF Crash, WorkersHold
  <2>. QED
    BY <1>10, <2>1, <2>2, <2>3 DEF Crash, HoldInv, TasksHold, OnlyWanted
<1>11. CASE UNCHANGED vars
  BY <1>11 DEF vars, config, tasks, jobs, history, HoldInv, TasksHold, TaskLetters, WorkersHold, OnlyWanted
<1>. QED
  BY <1>1, <1>2, <1>3, <1>4, <1>5, <1>6, <1>7, <1>8, <1>9, <1>10, <1>11, StepCases

-----------------------------------------------------------------------------
(* Attempts.                                                               *)

\* What was tried all along.
TriedEnough(l) == tried[l] >= maxAttempts /\ tried[l] > 0

\* An attempt past the first follows as many attempts at the same letter.
AttemptsCounted ==
  \A r \in Runs :
    \/ attempt[r] = 1
    \/ sending[r] # <<>> /\ attempt[r] <= tried[Head(sending[r])] + 1

FailuresTried == \A r \in Runs : \A l \in failures[r] : TriedEnough(l)

TriedInv == GivenUpAfterAllAttempts /\ AttemptsCounted /\ FailuresTried

\* The task of an activity nobody asked for is idle.
LEMMA IdleUntilAsked ==
  ASSUME Types, HoldInv, NEW a \in Activities, ~ Asked(a)
  PROVE  publishing[a] = <<>> /\ sending[a] = <<>> /\ failures[a] = {}
<1>1. TaskLetters(a) = {}
  BY DEF HoldInv, TasksHold, Asked
<1>2. publishing[a] \in Seq(Letters) /\ sending[a] \in Seq(Letters)
  BY RunsAre DEF Types, TypeOK, TaskTypes
<1>3. ToSet(publishing[a]) = {} /\ ToSet(sending[a]) = {} /\ failures[a] = {}
  BY <1>1 DEF TaskLetters
<1>4. ASSUME NEW q \in Seq(Letters), ToSet(q) = {} PROVE q = <<>>
  BY <1>4, HeadAndTail
<1>. QED
  BY <1>2, <1>3, <1>4

\* A step that tries nothing and adds no failure keeps the attempts counted.
LEMMA TriedUntouched ==
  ASSUME Types, TriedInv, UNCHANGED <<tried, maxAttempts>>,
         \A r \in Runs : failures'[r] \subseteq failures[r],
         givenUp' \subseteq givenUp \cup UNION {failures[r] : r \in Runs},
         \A r \in Runs : attempt'[r] = 1 \/ (attempt'[r] = attempt[r] /\ sending'[r] = sending[r])
  PROVE  TriedInv'
<1>1. \A l \in givenUp' : TriedEnough(l)
  BY DEF TriedInv, GivenUpAfterAllAttempts, FailuresTried, TriedEnough
<1>2. AttemptsCounted'
  BY DEF TriedInv, AttemptsCounted
<1>3. FailuresTried'
  BY DEF TriedInv, FailuresTried, TriedEnough
<1>. QED
  BY <1>1, <1>2, <1>3 DEF TriedInv, GivenUpAfterAllAttempts, TriedEnough

\* An attempt counts for every letter that was tried before.
LEMMA TryCounts ==
  ASSUME Types, NEW r \in Runs, Try(r)
  PROVE  /\ Head(sending[r]) \in Letters
         /\ tried'[Head(sending[r])] = tried[Head(sending[r])] + 1
         /\ \A l \in Letters : tried[l] \in Nat /\ tried'[l] \in Nat /\ tried[l] <= tried'[l]
         /\ maxAttempts \in Nat /\ maxAttempts' = maxAttempts
<1>1. tried \in [Letters -> Nat] /\ Head(sending[r]) \in Letters
  BY TryTypes DEF Types, TypeOK
<1>2. tried' = [tried EXCEPT ![Head(sending[r])] = @ + 1] /\ maxAttempts' = maxAttempts
  BY DEF Try, config
<1>3. maxAttempts \in Nat
  BY DeliveryAssumption DEF Types, TypeOK
<1>. QED
  BY <1>1, <1>2, <1>3

\* A letter that was tried enough stays so.
LEMMA TriedStays ==
  ASSUME Types, NEW r \in Runs, Try(r), NEW l \in Letters, TriedEnough(l)
  PROVE  TriedEnough(l)'
BY TryCounts DEF TriedEnough

\* Going on to the next letter starts at its first attempt.
LEMMA NextLetterCounts ==
  ASSUME Types, AttemptsCounted, NEW r \in Runs, Try(r), NextLetter(r)
  PROVE  AttemptsCounted'
<1>1. ASSUME NEW x \in Runs, x # r
      PROVE  \/ attempt'[x] = 1
             \/ sending'[x] # <<>> /\ attempt'[x] <= tried'[Head(sending'[x])] + 1
  <2>1. attempt'[x] = attempt[x] /\ sending'[x] = sending[x]
    BY <1>1 DEF NextLetter, Types, TypeOK, TaskTypes
  <2>2. sending[x] # <<>> => Head(sending[x]) \in Letters
    BY HeadAndTail DEF Types, TypeOK, TaskTypes
  <2>3. attempt[x] \in Nat
    BY DEF Types
  <2>. QED
    BY <2>1, <2>2, <2>3, TryCounts DEF AttemptsCounted
<1>2. attempt'[r] = 1
  BY DEF NextLetter, Types
<1>. QED
  BY <1>1, <1>2 DEF AttemptsCounted

LEMMA TriedInitially == Init => TriedInv
BY DEF Init, TriedInv, GivenUpAfterAllAttempts, AttemptsCounted, FailuresTried

LEMMA TriedKept == Types /\ HoldInv /\ TriedInv /\ [Next]_vars => TriedInv'
<1>. SUFFICES ASSUME Types, HoldInv, TriedInv, [Next]_vars PROVE TriedInv'
  OBVIOUS
<1>a. \A r \in Runs : attempt[r] \in Nat /\ failures[r] \subseteq Letters
  BY DEF Types, TypeOK, TaskTypes
<1>1. ASSUME NEW a \in Activities, NEW s \in Seq(Inboxes), Dispatch(a, s) PROVE TriedInv'
  <2>1. sending[a] = <<>> /\ a \in Runs
    BY <1>1, IdleUntilAsked, RunsAre DEF Dispatch
  <2>2. attempt[a] = 1
    BY <2>1 DEF TriedInv, AttemptsCounted
  <2>3. \A r \in Runs : attempt'[r] = 1 \/ (attempt'[r] = attempt[r] /\ sending'[r] = sending[r])
    BY <1>1, <2>2 DEF Dispatch, Types, TypeOK, TaskTypes
  <2>. QED
    BY <1>1, <2>3, TriedUntouched DEF Dispatch, config
<1>2. ASSUME NEW a \in Activities, Publish(a) PROVE TriedInv'
  BY <1>2, TriedUntouched DEF Publish, config
<1>3. ASSUME NEW a \in Activities, FinishTask(a) PROVE TriedInv'
  <2>1. a \in Runs /\ failures' = [failures EXCEPT ![a] = {}] /\ givenUp' = givenUp \cup failures[a]
    BY <1>3, RunsAre DEF FinishTask
  <2>2. \A r \in Runs : failures'[r] \subseteq failures[r]
    BY <2>1 DEF Types, TypeOK, TaskTypes
  <2>. QED
    BY <1>3, <2>1, <2>2, TriedUntouched DEF FinishTask, config
<1>4. ASSUME NEW w \in Workers, NEW l \in Letters, TakeJob(w, l) PROVE TriedInv'
  <2>1. w \in Runs /\ sending[w] = <<>>
    BY <1>4, RunsAre DEF TakeJob, Types, TypeOK, JobTypes
  <2>2. attempt[w] = 1
    BY <2>1 DEF TriedInv, AttemptsCounted
  <2>3. \A r \in Runs : attempt'[r] = 1 \/ (attempt'[r] = attempt[r] /\ sending'[r] = sending[r])
    BY <1>4, <2>2 DEF TakeJob, Types, TypeOK, TaskTypes
  <2>. QED
    BY <1>4, <2>3, TriedUntouched DEF TakeJob, config
<1>5. ASSUME NEW w \in Workers, FinishJob(w) PROVE TriedInv'
  <2>1. w \in Runs /\ failures' = [failures EXCEPT ![w] = {}] /\ givenUp' = givenUp \cup failures[w]
    BY <1>5, RunsAre DEF FinishJob
  <2>2. \A r \in Runs : failures'[r] \subseteq failures[r]
    BY <2>1 DEF Types, TypeOK, TaskTypes
  <2>. QED
    BY <1>5, <2>1, <2>2, TriedUntouched DEF FinishJob, config
<1>6. ASSUME NEW w \in Workers, DeliverFailsEarly(w) PROVE TriedInv'
  <2>1. \A r \in Runs : attempt'[r] = 1 \/ (attempt'[r] = attempt[r] /\ sending'[r] = sending[r])
    BY <1>6 DEF DeliverFailsEarly, Types, TypeOK, TaskTypes
  <2>. QED
    BY <1>6, <2>1, TriedUntouched DEF DeliverFailsEarly, config
<1>7. ASSUME NEW r \in Runs, SendSucceeds(r) PROVE TriedInv'
  <2>1. Try(r) /\ NextLetter(r) /\ UNCHANGED <<failures, givenUp>>
    BY <1>7 DEF SendSucceeds, Try
  <2>2. AttemptsCounted'
    BY <2>1, NextLetterCounts DEF TriedInv
  <2>. QED
    BY <1>a, <2>1, <2>2, TriedStays
    DEF TriedInv, GivenUpAfterAllAttempts, FailuresTried, TriedEnough, Types, TypeOK
<1>8. ASSUME NEW r \in Runs, SendFails(r) PROVE TriedInv'
  <2>1. Try(r) /\ UNCHANGED givenUp
    BY <1>8 DEF SendFails, Try
  <2>2. GivenUpAfterAllAttempts'
    BY <2>1, TriedStays DEF TriedInv, GivenUpAfterAllAttempts, TriedEnough, Types, TypeOK
  <2>3. CASE attempt[r] < maxAttempts
    <3>1. attempt' = [attempt EXCEPT ![r] = @ + 1] /\ UNCHANGED <<sending, failures>>
      BY <1>8, <2>3 DEF SendFails, RetryOrFail
    <3>2. FailuresTried'
      BY <1>a, <2>1, <3>1, TriedStays DEF TriedInv, FailuresTried
    <3>3. AttemptsCounted'
      <4>1. ASSUME NEW x \in Runs, x # r
            PROVE  \/ attempt'[x] = 1
                   \/ sending'[x] # <<>> /\ attempt'[x] <= tried'[Head(sending'[x])] + 1
        <5>1. attempt'[x] = attempt[x] /\ sending'[x] = sending[x]
          BY <3>1, <4>1 DEF Types
        <5>2. sending[x] # <<>> => Head(sending[x]) \in Letters
          BY HeadAndTail DEF Types, TypeOK, TaskTypes
        <5>. QED
          BY <1>a, <2>1, <5>1, <5>2, TryCounts DEF TriedInv, AttemptsCounted
      <4>2. sending'[r] # <<>> /\ attempt'[r] <= tried'[Head(sending'[r])] + 1
        <5>1. attempt'[r] = attempt[r] + 1 /\ sending'[r] = sending[r] /\ sending[r] # <<>>
          BY <2>1, <3>1 DEF Types, Try
        <5>. QED
          BY <1>a, <2>1, <5>1, TryCounts DEF TriedInv, AttemptsCounted
      <4>. QED
        BY <4>1, <4>2 DEF AttemptsCounted
    <3>. QED
      BY <2>2, <3>2, <3>3 DEF TriedInv
  <2>4. CASE ~ attempt[r] < maxAttempts
    <3>. PICK l \in Letters : l = Head(sending[r])
      BY <2>1, TryCounts
    <3>1. failures' = [failures EXCEPT ![r] = @ \cup {l}] /\ NextLetter(r)
      BY <1>8, <2>4 DEF SendFails, RetryOrFail
    <3>2. TriedEnough(l)'
      <4>1. tried[l] \in Nat /\ tried'[l] = tried[l] + 1 /\ maxAttempts \in Nat /\ maxAttempts' = maxAttempts
        BY <2>1, TryCounts
      <4>2. attempt[r] = 1 \/ attempt[r] <= tried[l] + 1
        BY DEF TriedInv, AttemptsCounted
      <4>. QED
        BY <1>a, <2>4, <4>1, <4>2 DEF TriedEnough
    <3>3. \A x \in Runs : failures'[x] \subseteq failures[x] \cup {l}
      BY <3>1 DEF Types, TypeOK, TaskTypes
    <3>4. FailuresTried'
      BY <1>a, <2>1, <3>2, <3>3, TriedStays DEF TriedInv, FailuresTried
    <3>5. AttemptsCounted'
      BY <2>1, <3>1, NextLetterCounts DEF TriedInv
    <3>. QED
      BY <2>2, <3>4, <3>5 DEF TriedInv
  <2>. QED
    BY <2>3, <2>4
<1>9. ASSUME NEW r \in Runs, SkipLetter(r) PROVE TriedInv'
  <2>1. \A x \in Runs : attempt'[x] = 1 \/ (attempt'[x] = attempt[x] /\ sending'[x] = sending[x])
    BY <1>9 DEF SkipLetter, NextLetter, Types, TypeOK, TaskTypes
  <2>. QED
    BY <1>9, <2>1, TriedUntouched DEF SkipLetter, config
<1>10. CASE Crash
  <2>1. \A x \in Runs : attempt'[x] = 1 /\ failures'[x] \subseteq failures[x]
    BY <1>10 DEF Crash
  <2>. QED
    BY <1>10, <2>1, TriedUntouched DEF Crash, config
<1>11. CASE UNCHANGED vars
  BY <1>11, TriedUntouched DEF vars, config, tasks, jobs, history
<1>. QED
  BY <1>1, <1>2, <1>3, <1>4, <1>5, <1>6, <1>7, <1>8, <1>9, <1>10, <1>11, StepCases

\* A letter is reported as failed only after all attempts at it.
THEOREM GivenUpAfterAllAttemptsHolds == Spec => []GivenUpAfterAllAttempts
<1>1. TriedInv => GivenUpAfterAllAttempts
  BY DEF TriedInv
<1>. QED
  BY <1>1, TypesInitially, TypesKept, HoldInitially, HoldKept, TriedInitially, TriedKept, PTL
  DEF Spec

-----------------------------------------------------------------------------
(* No letter is forgotten.                                                 *)

Settled(l) == received[l] > 0 \/ l \in givenUp \/ l \in lost

\* A worker that has sent its job knows how it went.
JobsAccounted ==
  \A w \in Workers : \A l \in job[w] :
    sending[w] = <<>> => received[l] > 0 \/ l \in failures[w] \/ l \in lost

ForgetInv == NoneForgotten /\ JobsAccounted

\* What is settled stays settled, and what has arrived has arrived.
LEMMA SettledStays ==
  ASSUME Types, [Next]_vars
  PROVE  /\ \A l \in Letters : received[l] > 0 => received'[l] > 0
         /\ givenUp \subseteq givenUp' /\ lost \subseteq lost'
<1>0. \A l \in Letters : received[l] \in Nat
  BY DEF Types, TypeOK
<1>1. ASSUME NEW a \in Activities, NEW s \in Seq(Inboxes), Dispatch(a, s)
      PROVE  received' = received /\ givenUp \subseteq givenUp' /\ lost \subseteq lost'
  BY <1>1 DEF Dispatch, history
<1>2. ASSUME NEW a \in Activities, Publish(a) \/ FinishTask(a)
      PROVE  received' = received /\ givenUp \subseteq givenUp' /\ lost \subseteq lost'
  BY <1>2 DEF Publish, FinishTask, history
<1>3. ASSUME NEW w \in Workers, NEW l \in Letters, TakeJob(w, l)
      PROVE  received' = received /\ givenUp \subseteq givenUp' /\ lost \subseteq lost'
  BY <1>3 DEF TakeJob, history
<1>4. ASSUME NEW w \in Workers, FinishJob(w) \/ DeliverFailsEarly(w)
      PROVE  received' = received /\ givenUp \subseteq givenUp' /\ lost \subseteq lost'
  BY <1>4 DEF FinishJob, DeliverFailsEarly, history
<1>5. ASSUME NEW r \in Runs, SendSucceeds(r) \/ SendFails(r) \/ SkipLetter(r)
      PROVE  /\ \A l \in Letters : received[l] > 0 => received'[l] > 0
             /\ givenUp \subseteq givenUp' /\ lost \subseteq lost'
  <2>1. \/ UNCHANGED received
        \/ received' = [received EXCEPT ![Head(sending[r])] = @ + 1]
    BY <1>5 DEF SendSucceeds, SendFails, SkipLetter
  <2>2. \A l \in Letters : received[l] > 0 => received'[l] > 0
    BY <1>0, <2>1 DEF Types, TypeOK
  <2>3. givenUp \subseteq givenUp' /\ lost \subseteq lost'
    BY <1>5 DEF SendSucceeds, SendFails, SkipLetter, Try
  <2>. QED
    BY <2>2, <2>3
<1>6. CASE Crash
  BY <1>6 DEF Crash
<1>7. CASE UNCHANGED vars
  BY <1>7 DEF vars, history
<1>. QED
  BY <1>1, <1>2, <1>3, <1>4, <1>5, <1>6, <1>7, StepCases

\* The heads of what is sent, after an attempt that goes on to the next letter.
LEMMA NextLetterForgetsNone ==
  ASSUME Types, HoldInv, ForgetInv, [Next]_vars, NEW r \in Runs, sending[r] # <<>>,
         NextLetter(r), UNCHANGED <<publishing, wanted, jobs>>,
         \A x \in Runs : failures[x] \subseteq failures'[x],
         \A l \in Letters : l = Head(sending[r]) => received'[l] > 0 \/ l \in failures'[r] \/ l \in lost'
  PROVE  ForgetInv'
<1>1. /\ sending'[r] = Tail(sending[r])
      /\ \A x \in Runs \ {r} : sending'[x] = sending[x]
  BY DEF NextLetter, Types, TypeOK, TaskTypes
<1>2. ToSet(sending[r]) = {Head(sending[r])} \cup ToSet(Tail(sending[r]))
  BY HeadHeld
<1>3. ASSUME NEW l \in wanted PROVE received'[l] > 0 \/ l \in givenUp' \/ l \in lost' \/ Held(l)'
  <2>1. l \in Letters
    BY DEF Types, TypeOK
  <2>2. CASE Settled(l)
    BY <2>1, <2>2, SettledStays DEF Settled
  <2>3. CASE l \in queue
    BY <2>3 DEF Held, jobs
  <2>4. ASSUME NEW a \in Activities, l \in TaskLetters(a)
        PROVE  received'[l] > 0 \/ l \in givenUp' \/ l \in lost' \/ Held(l)'
    <3>1. a \in Runs
      BY RunsAre
    <3>2. CASE l \in ToSet(publishing[a]) \cup failures[a]
      BY <3>1, <3>2 DEF Held
    <3>3. CASE a = r /\ l = Head(sending[r])
      BY <2>1, <3>3 DEF Held
    <3>4. CASE l \in ToSet(sending[a]) /\ ~ (a = r /\ l = Head(sending[r]))
      <4>1. l \in ToSet(sending'[a])
        BY <1>1, <1>2, <3>1, <3>4
      <4>. QED
        BY <4>1 DEF Held
    <3>. QED
      BY <2>4, <3>2, <3>3, <3>4 DEF TaskLetters
  <2>. QED
    BY <2>2, <2>3, <2>4 DEF ForgetInv, NoneForgotten, Settled, Held, TaskLetters
<1>4. ASSUME NEW w \in Workers, NEW l \in job'[w], sending'[w] = <<>>
      PROVE  received'[l] > 0 \/ l \in failures'[w] \/ l \in lost'
  <2>1. w \in Runs /\ l \in job[w] /\ l \in Letters
    BY <1>4, RunsAre DEF jobs, Types, TypeOK, JobTypes
  <2>2. CASE w = r
    <3>1. l = Head(sending[r])
      BY <2>1, <2>2 DEF HoldInv, WorkersHold
    <3>. QED
      BY <2>1, <2>2, <3>1
  <2>3. CASE w # r
    <3>1. received[l] > 0 \/ l \in failures[w] \/ l \in lost
      BY <1>1, <1>4, <2>1, <2>3 DEF ForgetInv, JobsAccounted
    <3>. QED
      BY <2>1, <3>1, SettledStays
  <2>. QED
    BY <2>2, <2>3
<1>. QED
  BY <1>3, <1>4 DEF ForgetInv, NoneForgotten, JobsAccounted

\* A step that leaves the workers alone and keeps, or settles, what was held.
LEMMA HeldKept ==
  ASSUME Types, ForgetInv, [Next]_vars,
         \A w \in Workers : \/ job'[w] = {}
                            \/ sending'[w] # <<>>
                            \/ job'[w] = job[w] /\ sending[w] = <<>> /\ failures'[w] = failures[w],
         \A l \in wanted : Held(l) => (Settled(l)' \/ Held(l)'),
         \A l \in wanted' : l \in wanted \/ Held(l)'
  PROVE  ForgetInv'
<1>1. ASSUME NEW l \in wanted' PROVE received'[l] > 0 \/ l \in givenUp' \/ l \in lost' \/ Held(l)'
  <2>1. CASE l \in wanted /\ Held(l)
    BY <2>1 DEF Settled
  <2>2. CASE l \in wanted /\ Settled(l)
    <3>1. l \in Letters
      BY <2>2 DEF Types, TypeOK
    <3>. QED
      BY <2>2, <3>1, SettledStays DEF Settled
  <2>. QED
    BY <2>1, <2>2 DEF ForgetInv, NoneForgotten, Settled
<1>2. ASSUME NEW w \in Workers, NEW l \in job'[w], sending'[w] = <<>>
      PROVE  received'[l] > 0 \/ l \in failures'[w] \/ l \in lost'
  <2>1. job'[w] = job[w] /\ sending[w] = <<>> /\ failures'[w] = failures[w]
    BY <1>2
  <2>2. l \in Letters
    BY <1>2, <2>1 DEF Types, TypeOK, JobTypes
  <2>. QED
    BY <1>2, <2>1, <2>2, SettledStays DEF ForgetInv, JobsAccounted
<1>. QED
  BY <1>1, <1>2 DEF ForgetInv, NoneForgotten, JobsAccounted

LEMMA ForgetInitially == Init => ForgetInv
BY DEF Init, ForgetInv, NoneForgotten, JobsAccounted

LEMMA ForgetKept == Types /\ HoldInv /\ ForgetInv /\ [Next]_vars => ForgetInv'
<1>. SUFFICES ASSUME Types, HoldInv, ForgetInv, [Next]_vars PROVE ForgetInv'
  OBVIOUS
<1>1. ASSUME NEW a \in Activities, NEW s \in Seq(Inboxes), Dispatch(a, s) PROVE ForgetInv'
  <2>1. publishing[a] = <<>> /\ sending[a] = <<>> /\ failures[a] = {}
    BY <1>1, IdleUntilAsked DEF Dispatch
  <2>2. TaskLetters(a) = {}
    BY <2>1, SetOfEmpty DEF TaskLetters
  <2>3. /\ a \in Runs
        /\ \A x \in Runs \ {a} : sending'[x] = sending[x]
        /\ \A b \in Activities \ {a} : publishing'[b] = publishing[b]
    BY <1>1, RunsAre DEF Dispatch, Types, TypeOK, TaskTypes
  <2>4. \A l \in wanted : Held(l) => Held(l)'
    BY <1>1, <2>2, <2>3, RunsAre DEF Dispatch, jobs, Held, TaskLetters
  <2>5. publishing'[a] = LettersTo(a, s) \/ sending'[a] = LettersTo(a, s)
    BY <1>1, <2>3 DEF Dispatch, Types, TypeOK, TaskTypes
  <2>6. \A l \in wanted' : l \in wanted \/ Held(l)'
    BY <1>1, <2>5 DEF Dispatch, Held
  <2>7. \A w \in Workers : job'[w] = job[w] /\ sending'[w] = sending[w] /\ failures'[w] = failures[w]
    BY <1>1, <2>3, RunsAre DEF Dispatch, jobs
  <2>. QED
    BY <2>4, <2>6, <2>7, HeldKept
<1>2. ASSUME NEW a \in Activities, Publish(a) PROVE ForgetInv'
  <2>1. publishing[a] \in Seq(Letters) /\ publishing[a] # <<>>
    BY <1>2 DEF Publish, Types, TypeOK, TaskTypes
  <2>2. ToSet(publishing[a]) = {Head(publishing[a])} \cup ToSet(Tail(publishing[a]))
    BY <2>1, HeadAndTail
  <2>3. /\ publishing'[a] = Tail(publishing[a])
        /\ \A b \in Activities \ {a} : publishing'[b] = publishing[b]
        /\ queue \subseteq queue'
        /\ Head(publishing[a]) \in queue' \cup lost'
    BY <1>2 DEF Publish, Types, TypeOK, TaskTypes
  <2>4. \A l \in wanted : Held(l) => (l \in lost' \/ Held(l)')
    BY <1>2, <2>2, <2>3 DEF Publish, Held
  <2>5. \A l \in wanted : Held(l) => (Settled(l)' \/ Held(l)')
    BY <2>4 DEF Settled
  <2>. QED
    BY <1>2, <2>5, HeldKept DEF Publish
<1>3. ASSUME NEW a \in Activities, FinishTask(a) PROVE ForgetInv'
  <2>1. /\ failures[a] \subseteq givenUp'
        /\ \A x \in Runs \ {a} : failures'[x] = failures[x]
    BY <1>3 DEF FinishTask, Types, TypeOK, TaskTypes
  <2>2. \A l \in wanted : Held(l) => (l \in givenUp' \/ Held(l)')
    BY <1>3, <2>1, RunsAre DEF FinishTask, jobs, Held
  <2>3. \A l \in wanted : Held(l) => (Settled(l)' \/ Held(l)')
    BY <2>2 DEF Settled
  <2>4. \A w \in Workers : failures'[w] = failures[w]
    BY <2>1, <1>3, RunsAre
  <2>. QED
    BY <1>3, <2>3, <2>4, HeldKept DEF FinishTask, jobs
<1>4. ASSUME NEW w \in Workers, NEW l \in Letters, TakeJob(w, l) PROVE ForgetInv'
  <2>1. /\ w \in Runs /\ sending'[w] = <<l>>
        /\ \A x \in Runs \ {w} : sending'[x] = sending[x]
        /\ \A x \in Workers \ {w} : job'[x] = job[x]
    BY <1>4, RunsAre DEF TakeJob, Types, TypeOK, TaskTypes, JobTypes
  <2>2. sending'[w] # <<>>
    <3>1. <<l>> # <<>>
      OBVIOUS
    <3>. QED
      BY <2>1, <3>1
  <2>3. \A x \in Workers : \/ job'[x] = {}
                           \/ sending'[x] # <<>>
                           \/ job'[x] = job[x] /\ sending[x] = <<>> /\ failures'[x] = failures[x]
    BY <1>4, <2>1, <2>2, RunsAre DEF TakeJob
  <2>4. \A k \in wanted : Held(k) => Held(k)'
    BY <1>4, <2>1, RunsAre DEF TakeJob, Held
  <2>. QED
    BY <1>4, <2>3, <2>4, HeldKept DEF TakeJob
<1>5. ASSUME NEW w \in Workers, FinishJob(w) PROVE ForgetInv'
  <2>1. /\ w \in Runs /\ sending[w] = <<>> /\ sending' = sending /\ job[w] # {} /\ job'[w] = {}
        /\ failures[w] \subseteq givenUp'
        /\ \A x \in Runs \ {w} : failures'[x] = failures[x]
        /\ \A x \in Workers \ {w} : job'[x] = job[x]
        /\ queue \ job[w] \subseteq queue'
    BY <1>5, RunsAre DEF FinishJob, Types, TypeOK, TaskTypes, JobTypes
  <2>2. \A l \in job[w] : l \in Letters /\ (received[l] > 0 \/ l \in givenUp' \/ l \in lost)
    BY <2>1 DEF ForgetInv, JobsAccounted, Types, TypeOK, JobTypes
  <2>3. \A l \in job[w] : received'[l] > 0 \/ l \in givenUp' \/ l \in lost'
    BY <2>2, SettledStays
  <2>4. \A l \in wanted : Held(l) => (l \in job[w] \/ Held(l)')
    BY <1>5, <2>1, RunsAre DEF FinishJob, Held
  <2>5. \A l \in wanted : Held(l) => (Settled(l)' \/ Held(l)')
    BY <2>3, <2>4 DEF Settled
  <2>6. \A x \in Workers : \/ job'[x] = {}
                           \/ sending'[x] # <<>>
                           \/ job'[x] = job[x] /\ sending[x] = <<>> /\ failures'[x] = failures[x]
    BY <2>1, RunsAre
  <2>. QED
    BY <1>5, <2>5, <2>6, HeldKept DEF FinishJob
<1>6. ASSUME NEW w \in Workers, DeliverFailsEarly(w) PROVE ForgetInv'
  <2>1. /\ w \in Runs /\ sending[w] # <<>> /\ job'[w] = {}
        /\ \A x \in Runs \ {w} : sending'[x] = sending[x]
        /\ \A x \in Workers \ {w} : job'[x] = job[x]
        /\ failures' = failures
    BY <1>6, RunsAre DEF DeliverFailsEarly, Types, TypeOK, TaskTypes, JobTypes
  <2>2. job[w] # {} /\ job[w] \subseteq Letters /\ \A l \in Letters : received[l] \in Nat
    BY <2>1 DEF Types, TypeOK, JobTypes
  <2>3. \/ queue' = queue
        \/ /\ queue' = queue \ job[w]
           /\ \A l \in job[w] : received[l] = 0 /\ l \notin givenUp => l \in lost'
    BY <1>6 DEF DeliverFailsEarly
  <2>4. \A l \in queue : l \in queue' \/ received[l] > 0 \/ l \in givenUp \/ l \in lost'
    BY <2>2, <2>3
  <2>5. \A l \in queue : l \in queue' \/ received'[l] > 0 \/ l \in givenUp' \/ l \in lost'
    BY <1>6, <2>4 DEF DeliverFailsEarly
  <2>6. \A l \in wanted : Held(l) => (l \in queue \/ Held(l)')
    BY <1>6, <2>1, RunsAre DEF DeliverFailsEarly, Held
  <2>7. \A l \in queue : l \in queue' => Held(l)'
    BY DEF Held
  <2>8. \A l \in wanted : Held(l) => (Settled(l)' \/ Held(l)')
    BY <2>5, <2>6, <2>7 DEF Settled
  <2>9. \A x \in Workers : \/ job'[x] = {}
                           \/ sending'[x] # <<>>
                           \/ job'[x] = job[x] /\ sending[x] = <<>> /\ failures'[x] = failures[x]
    BY <2>1, <2>2, RunsAre
  <2>. QED
    BY <1>6, <2>8, <2>9, HeldKept DEF DeliverFailsEarly
<1>7. ASSUME NEW r \in Runs, SendSucceeds(r) PROVE ForgetInv'
  <2>1. /\ Try(r) /\ NextLetter(r) /\ UNCHANGED <<failures, publishing, wanted, jobs>>
        /\ received' = [received EXCEPT ![Head(sending[r])] = @ + 1]
    BY <1>7 DEF SendSucceeds, Try
  <2>2. \A l \in Letters : l = Head(sending[r]) => received'[l] > 0
    BY <2>1 DEF Types, TypeOK
  <2>. QED
    BY <2>1, <2>2, NextLetterForgetsNone DEF Try
<1>8. ASSUME NEW r \in Runs, SendFails(r) PROVE ForgetInv'
  <2>1. Try(r) /\ sending[r] # <<>> /\ UNCHANGED <<publishing, wanted, jobs>>
    BY <1>8 DEF SendFails, Try
  <2>2. CASE attempt[r] < maxAttempts
    <3>1. UNCHANGED <<sending, failures, queue, job>>
      BY <1>8, <2>1, <2>2 DEF SendFails, RetryOrFail, jobs
    <3>2. \A l \in wanted : Held(l) => Held(l)'
      BY <2>1, <3>1 DEF Held
    <3>. QED
      BY <2>1, <3>1, <3>2, HeldKept
  <2>3. CASE ~ attempt[r] < maxAttempts
    <3>1. NextLetter(r) /\ failures' = [failures EXCEPT ![r] = @ \cup {Head(sending[r])}]
      BY <1>8, <2>3 DEF SendFails, RetryOrFail
    <3>2. \A x \in Runs : failures[x] \subseteq failures'[x]
      BY <3>1 DEF Types, TypeOK, TaskTypes
    <3>3. Head(sending[r]) \in failures'[r]
      BY <3>1 DEF Types, TypeOK, TaskTypes
    <3>. QED
      BY <2>1, <3>1, <3>2, <3>3, NextLetterForgetsNone
  <2>. QED
    BY <2>2, <2>3
<1>9. ASSUME NEW r \in Runs, SkipLetter(r) PROVE ForgetInv'
  BY <1>9, NextLetterForgetsNone DEF SkipLetter
<1>10. CASE Crash
  <2>1. \A l \in Letters : received[l] \in Nat
    BY DEF Types, TypeOK
  <2>2. \A l \in wanted : Held(l) => (l \in queue \/ l \in lost' \/ received[l] > 0)
    BY <1>10, <2>1 DEF Crash, Held, Types, TypeOK
  <2>3. \A l \in wanted : Held(l) => (l \in queue' \/ l \in lost' \/ received'[l] > 0)
    BY <1>10, <2>2 DEF Crash
  <2>4. \A l \in wanted : Held(l) => (Settled(l)' \/ Held(l)')
    BY <2>3 DEF Settled, Held
  <2>. QED
    BY <1>10, <2>4, HeldKept DEF Crash
<1>11. CASE UNCHANGED vars
  <2>1. \A l \in wanted : Held(l) => Held(l)'
    BY <1>11 DEF vars, tasks, jobs, Held
  <2>. QED
    BY <1>11, <2>1, HeldKept DEF vars, tasks, jobs
<1>. QED
  BY <1>1, <1>2, <1>3, <1>4, <1>5, <1>6, <1>7, <1>8, <1>9, <1>10, <1>11, StepCases

\* No letter of a broadcast is forgotten.
THEOREM NoneForgottenHolds == Spec => []NoneForgotten
<1>1. ForgetInv => NoneForgotten
  BY DEF ForgetInv
<1>. QED
  BY <1>1, TypesInitially, TypesKept, HoldInitially, HoldKept, ForgetInitially, ForgetKept, PTL
  DEF Spec

-----------------------------------------------------------------------------
(* No letter arrives twice.                                                *)

\* A letter that has not arrived, or may arrive twice.
Fresh(l) == received[l] = 0 \/ l \in excused

\* A worker has sent it and not yet returned.
Sent(l) == \E w \in Workers : l \in job[w] /\ sending[w] = <<>> /\ l \notin failures[w]

\* The letters of the tasks go through the queue, or the tasks send them.
OneWay ==
  /\ publisher => \A a \in Activities : sending[a] = <<>>
  /\ ~ publisher => queue = {} /\ \A a \in Activities : publishing[a] = <<>>

\* A task holds every letter once, and publishes none of the queue's; a worker
\* has one job at most.
HeldOnce ==
  /\ \A a \in Activities :
       /\ IsInjective(publishing[a]) /\ IsInjective(sending[a])
       /\ ToSet(publishing[a]) \cap queue = {}
  /\ \A w \in Workers : \A l, k \in job[w] : l = k

\* What is yet to be sent has not arrived.
YetToSend ==
  /\ \A a \in Activities : \A l \in ToSet(publishing[a]) \cup ToSet(sending[a]) : Fresh(l)
  /\ \A l \in queue : Fresh(l) \/ Sent(l)

OnceInv == NoneTwice /\ OneWay /\ HeldOnce /\ YetToSend

\* A letter of an activity is held by no other activity.
LEMMA HeldByItsActivity ==
  ASSUME HoldInv, NEW a \in Activities, NEW b \in Activities, NEW l,
         l \in TaskLetters(a), l \in TaskLetters(b)
  PROVE  a = b
BY DEF HoldInv, TasksHold

\* The letter at the head of a run has not arrived, and the run alone holds it.
LEMMA HeadFresh ==
  ASSUME Types, HoldInv, OnceInv, NEW r \in Runs, sending[r] # <<>>,
         NEW k \in Letters, k = Head(sending[r])
  PROVE  /\ Fresh(k)
         /\ r \in Activities => k \notin queue /\ ~ publisher /\ k \in ToSet(sending[r])
         /\ r \in Workers => k \in queue /\ job[r] = {k} /\ publisher
<1>1. ToSet(sending[r]) = {k} \cup ToSet(Tail(sending[r]))
  BY HeadAndTail DEF Types, TypeOK, TaskTypes
<1>2. CASE r \in Activities
  <2>1. ~ publisher /\ queue = {}
    BY <1>2 DEF OnceInv, OneWay, Types, TypeOK
  <2>2. k \in ToSet(sending[r]) /\ Fresh(k)
    BY <1>1, <1>2 DEF OnceInv, YetToSend
  <2>. QED
    BY <1>2, <2>1, <2>2, RunsAre
<1>3. CASE r \in Workers
  <2>1. job[r] = {k} /\ k \in queue
    BY <1>3 DEF HoldInv, WorkersHold, Types, TypeOK, JobTypes
  <2>2. ~ Sent(k)
    BY <1>3, <2>1 DEF Sent, Types
  <2>3. publisher
    BY <2>1 DEF OnceInv, OneWay
  <2>. QED
    BY <1>3, <2>1, <2>2, <2>3, RunsAre DEF OnceInv, YetToSend
<1>. QED
  BY <1>2, <1>3 DEF Runs

\* Going on to the next letter: the letter arrived now, or may arrive again, or
\* did not arrive.
LEMMA NextLetterOnce ==
  ASSUME Types, HoldInv, OnceInv, NEW r \in Runs, sending[r] # <<>>,
         NEW k \in Letters, k = Head(sending[r]), NextLetter(r),
         UNCHANGED <<publisher, publishing, queue, job>>,
         \A x \in Runs \ {r} : failures'[x] = failures[x],
         excused \subseteq excused',
         \A l \in Letters \ {k} : received'[l] = received[l],
         k \in excused' \/ received'[k] = 0 \/ (received'[k] = 1 /\ failures'[r] = failures[r])
  PROVE  OnceInv'
<1>1. /\ sending'[r] = Tail(sending[r])
      /\ \A x \in Runs \ {r} : sending'[x] = sending[x]
      /\ sending[r] \in Seq(Letters)
  BY DEF NextLetter, Types, TypeOK, TaskTypes
<1>2. ToSet(sending[r]) = {k} \cup ToSet(Tail(sending[r]))
  BY <1>1, HeadAndTail
<1>3. NoneTwice'
  BY DEF OnceInv, NoneTwice
<1>4. \A a \in Activities : /\ IsInjective(sending'[a])
                            /\ a = r => k \notin ToSet(sending'[a])
                            /\ ToSet(sending'[a]) \subseteq ToSet(sending[a])
                            /\ sending[a] = <<>> => sending'[a] = <<>>
  BY <1>1, <1>2, TailDistinct, RunsAre DEF OnceInv, HeldOnce
<1>5. OneWay' /\ HeldOnce'
  BY <1>4 DEF OnceInv, OneWay, HeldOnce
<1>6. ASSUME NEW a \in Activities, NEW l \in ToSet(publishing'[a]) \cup ToSet(sending'[a])
      PROVE  Fresh(l)'
  <2>1. l \in TaskLetters(a) /\ Fresh(l) /\ l \in Letters
    BY <1>4, <1>6 DEF TaskLetters, OnceInv, YetToSend, HoldInv, TasksHold, Types, TypeOK
  <2>2. l # k
    <3>1. SUFFICES ASSUME l = k PROVE FALSE
      OBVIOUS
    <3>2. CASE r \in Activities
      <4>1. l \in ToSet(sending'[a])
        BY <1>6, <3>2, HeadFresh, SetOfEmpty DEF OnceInv, OneWay
      <4>2. k \in TaskLetters(r)
        BY <1>2 DEF TaskLetters
      <4>3. a = r
        BY <2>1, <3>1, <3>2, <4>2, HeldByItsActivity
      <4>. QED
        BY <1>4, <3>1, <4>1, <4>3
    <3>3. CASE r \in Workers
      <4>1. k \in queue /\ publisher
        BY <3>3, HeadFresh
      <4>2. l \in ToSet(publishing[a])
        BY <1>4, <1>6, <4>1, SetOfEmpty DEF OnceInv, OneWay
      <4>. QED
        BY <3>1, <4>1, <4>2 DEF OnceInv, HeldOnce
    <3>. QED
      BY <3>2, <3>3 DEF Runs
  <2>. QED
    BY <2>1, <2>2 DEF Fresh
<1>7. ASSUME NEW l \in queue' PROVE Fresh(l)' \/ Sent(l)'
  <2>1. l \in queue /\ l \in Letters /\ (Fresh(l) \/ Sent(l))
    BY <1>7 DEF OnceInv, YetToSend, Types, TypeOK, JobTypes
  <2>2. CASE l # k /\ Fresh(l)
    BY <2>1, <2>2 DEF Fresh
  <2>3. CASE Sent(l)
    <3>1. PICK w \in Workers : l \in job[w] /\ sending[w] = <<>> /\ l \notin failures[w]
      BY <2>3 DEF Sent
    <3>2. w # r /\ w \in Runs
      BY <3>1, RunsAre
    <3>3. l \in job'[w] /\ sending'[w] = <<>> /\ l \notin failures'[w]
      BY <1>1, <3>1, <3>2
    <3>. QED
      BY <3>3 DEF Sent
  <2>4. CASE l = k
    <3>1. r \in Workers /\ job[r] = {k}
      BY <2>1, <2>4, HeadFresh DEF Runs
    <3>2. sending'[r] = <<>> /\ failures[r] = {}
      BY <1>1, <3>1 DEF HoldInv, WorkersHold
    <3>3. received'[k] = 1 /\ failures'[r] = failures[r] => Sent(k)'
      BY <3>1, <3>2 DEF Sent
    <3>. QED
      BY <2>4, <3>3 DEF Fresh
  <2>. QED
    BY <2>1, <2>2, <2>3, <2>4
<1>. QED
  BY <1>3, <1>5, <1>6, <1>7 DEF OnceInv, YetToSend

\* A job of a worker that sends it, or failed at it, has not arrived.
LEMMA JobFresh ==
  ASSUME Types, OnceInv, NEW w \in Workers, NEW l \in job[w],
         sending[w] # <<>> \/ l \in failures[w]
  PROVE  Fresh(l)
<1>1. l \in queue /\ ~ Sent(l)
  BY DEF Sent, Types, TypeOK, JobTypes
<1>. QED
  BY <1>1 DEF OnceInv, YetToSend

\* A job that was sent stays so while its worker is left alone.
LEMMA SentStays ==
  ASSUME NEW l, Sent(l), NEW w \in Workers, l \notin job[w] \/ ~ (sending[w] = <<>>),
         \A x \in Workers \ {w} : /\ job'[x] = job[x] /\ sending'[x] = sending[x]
                                  /\ failures'[x] = failures[x]
  PROVE  Sent(l)'
<1>1. PICK x \in Workers : l \in job[x] /\ sending[x] = <<>> /\ l \notin failures[x]
  BY DEF Sent
<1>2. x # w
  BY <1>1
<1>. QED
  BY <1>1, <1>2 DEF Sent

LEMMA OnceInitially == Init => OnceInv
<1>. SUFFICES ASSUME Init PROVE OnceInv
  OBVIOUS
<1>1. IsInjective(<<>>)
  BY DEF IsInjective
<1>. QED
  BY <1>1, SetOfEmpty, RunsAre
  DEF Init, OnceInv, NoneTwice, OneWay, HeldOnce, YetToSend

LEMMA OnceKept == Types /\ HoldInv /\ OnceInv /\ [Next]_vars => OnceInv'
<1>. SUFFICES ASSUME Types, HoldInv, OnceInv, [Next]_vars PROVE OnceInv'
  OBVIOUS
<1>1. ASSUME NEW a \in Activities, NEW s \in Seq(Inboxes), IsInjective(s), Dispatch(a, s)
      PROVE  OnceInv'
  <2>1. publishing[a] = <<>> /\ sending[a] = <<>> /\ a \in Runs
    BY <1>1, IdleUntilAsked, RunsAre DEF Dispatch
  <2>2. /\ IsInjective(LettersTo(a, s))
        /\ ToSet(LettersTo(a, s)) \subseteq {l \in Letters : l[1] = a}
    BY <1>1, LettersToTypes
  <2>3. \A l \in ToSet(LettersTo(a, s)) : l \in Letters /\ l \notin wanted
    BY <1>1, <2>2 DEF Dispatch, Asked
  <2>4. \A l \in Letters : received[l] \in Nat
    BY DEF Types, TypeOK
  <2>5. \A l \in ToSet(LettersTo(a, s)) : Fresh(l) /\ l \notin queue
    BY <2>3, <2>4 DEF Fresh, HoldInv, OnlyWanted
  <2>6. /\ \A b \in Activities \ {a} : publishing'[b] = publishing[b] /\ sending'[b] = sending[b]
        /\ publisher => publishing'[a] = LettersTo(a, s) /\ sending'[a] = <<>>
        /\ ~ publisher => publishing'[a] = <<>> /\ sending'[a] = LettersTo(a, s)
        /\ \A w \in Workers : sending'[w] = sending[w]
    BY <1>1, <2>1, RunsAre DEF Dispatch, Types, TypeOK, TaskTypes
  <2>7. UNCHANGED <<publisher, queue, job, failures, received, excused>>
    BY <1>1 DEF Dispatch, config, jobs, history
  <2>8. IsInjective(<<>>)
    BY DEF IsInjective
  <2>9. OneWay'
    BY <2>6, <2>7 DEF OnceInv, OneWay
  <2>10. HeldOnce'
    BY <2>2, <2>5, <2>6, <2>7, <2>8, SetOfEmpty DEF OnceInv, HeldOnce, Types, TypeOK
  <2>11. \A l : (Fresh(l)' <=> Fresh(l)) /\ (Sent(l)' <=> Sent(l))
    BY <2>6, <2>7 DEF Fresh, Sent
  <2>12. YetToSend'
    BY <2>5, <2>6, <2>7, <2>11, SetOfEmpty DEF OnceInv, YetToSend, Types, TypeOK
  <2>. QED
    BY <2>7, <2>9, <2>10, <2>12 DEF OnceInv, NoneTwice
<1>2. ASSUME NEW a \in Activities, Publish(a) PROVE OnceInv'
  <2>1. publishing[a] \in Seq(Letters) /\ publishing[a] # <<>>
    BY <1>2 DEF Publish, Types, TypeOK, TaskTypes
  <2>2. PICK h \in Letters : h = Head(publishing[a])
    BY <2>1, HeadAndTail
  <2>3. ToSet(publishing[a]) = {h} \cup ToSet(Tail(publishing[a]))
    BY <2>1, <2>2, HeadAndTail
  <2>4. IsInjective(Tail(publishing[a])) /\ h \notin ToSet(Tail(publishing[a]))
    BY <2>1, <2>2, TailDistinct DEF OnceInv, HeldOnce
  <2>5. /\ publishing'[a] = Tail(publishing[a])
        /\ \A b \in Activities \ {a} : publishing'[b] = publishing[b]
        /\ queue' \subseteq queue \cup {h}
    BY <1>2, <2>2 DEF Publish, Types, TypeOK, TaskTypes
  <2>6. UNCHANGED <<publisher, sending, job, failures, received, excused>>
    BY <1>2 DEF Publish, config
  <2>7. \A b \in Activities \ {a} : h \notin ToSet(publishing[b])
    BY <2>3, HeldByItsActivity DEF TaskLetters
  <2>8. publisher
    BY <2>1 DEF OnceInv, OneWay
  <2>9. OneWay'
    BY <2>6, <2>8 DEF OnceInv, OneWay
  <2>10. HeldOnce'
    BY <2>3, <2>4, <2>5, <2>6, <2>7 DEF OnceInv, HeldOnce
  <2>11. \A l : (Fresh(l)' <=> Fresh(l)) /\ (Sent(l)' <=> Sent(l))
    BY <2>6 DEF Fresh, Sent
  <2>12. Fresh(h)
    BY <2>3 DEF OnceInv, YetToSend
  <2>13. YetToSend'
    BY <2>3, <2>5, <2>6, <2>11, <2>12 DEF OnceInv, YetToSend
  <2>. QED
    BY <2>6, <2>9, <2>10, <2>13 DEF OnceInv, NoneTwice
<1>3. ASSUME NEW a \in Activities, FinishTask(a) PROVE OnceInv'
  <2>1. /\ UNCHANGED <<publisher, publishing, queue, sending, job, received, excused>>
        /\ \A w \in Workers : failures'[w] = failures[w]
    BY <1>3, RunsAre DEF FinishTask, config, jobs, history, Types, TypeOK, TaskTypes
  <2>2. \A l : (Fresh(l)' <=> Fresh(l)) /\ (Sent(l)' <=> Sent(l))
    BY <2>1 DEF Fresh, Sent
  <2>. QED
    BY <2>1, <2>2 DEF OnceInv, NoneTwice, OneWay, HeldOnce, YetToSend
<1>4. ASSUME NEW w \in Workers, NEW l \in Letters, TakeJob(w, l) PROVE OnceInv'
  <2>1. /\ job[w] = {} /\ job'[w] = {l}
        /\ \A x \in Workers \ {w} : job'[x] = job[x] /\ sending'[x] = sending[x] /\ failures'[x] = failures[x]
        /\ \A a \in Activities : sending'[a] = sending[a]
        /\ UNCHANGED <<publisher, publishing, queue, received, excused>>
        /\ \A x \in Workers : l \notin job[x]
        /\ sending'[w] # <<>>
    <3>1. <<l>> # <<>>
      OBVIOUS
    <3>. QED
      BY <1>4, <3>1, RunsAre DEF TakeJob, config, history, Types, TypeOK, TaskTypes, JobTypes
  <2>2. \A k : (Fresh(k)' <=> Fresh(k)) /\ (Sent(k) => Sent(k)')
    BY <2>1, SentStays DEF Fresh
  <2>. QED
    BY <2>1, <2>2 DEF OnceInv, NoneTwice, OneWay, HeldOnce, YetToSend
<1>5. ASSUME NEW w \in Workers, FinishJob(w) PROVE OnceInv'
  <2>1. /\ job'[w] = {}
        /\ \A x \in Workers \ {w} : job'[x] = job[x] /\ sending'[x] = sending[x] /\ failures'[x] = failures[x]
        /\ UNCHANGED <<publisher, publishing, sending, received, excused>>
        /\ queue' = queue \ job[w] \/ (queue' = queue /\ failures[w] # {})
    BY <1>5, RunsAre DEF FinishJob, config, history, Types, TypeOK, TaskTypes, JobTypes
  <2>2. ASSUME NEW k \in queue' PROVE Fresh(k) \/ Sent(k)'
    <3>1. CASE k \notin job[w]
      BY <2>1, <2>2, <3>1, SentStays DEF OnceInv, YetToSend
    <3>2. CASE k \in job[w]
      <4>1. k \in failures[w]
        BY <2>1, <2>2, <3>2 DEF OnceInv, HeldOnce, HoldInv, WorkersHold
      <4>. QED
        BY <3>2, <4>1, JobFresh
    <3>. QED
      BY <3>1, <3>2
  <2>3. \A k : Fresh(k)' <=> Fresh(k)
    BY <2>1 DEF Fresh
  <2>. QED
    BY <2>1, <2>2, <2>3 DEF OnceInv, NoneTwice, OneWay, HeldOnce, YetToSend
<1>6. ASSUME NEW w \in Workers, DeliverFailsEarly(w) PROVE OnceInv'
  <2>1. /\ job'[w] = {} /\ sending[w] # <<>>
        /\ \A x \in Workers \ {w} : job'[x] = job[x] /\ sending'[x] = sending[x] /\ failures'[x] = failures[x]
        /\ \A a \in Activities : sending'[a] = sending[a]
        /\ UNCHANGED <<publisher, publishing, received, excused>>
        /\ queue' \subseteq queue
    BY <1>6, RunsAre DEF DeliverFailsEarly, config, Types, TypeOK, TaskTypes, JobTypes
  <2>2. ASSUME NEW k \in queue' PROVE Fresh(k) \/ Sent(k)'
    BY <2>1, <2>2, SentStays DEF OnceInv, YetToSend
  <2>3. \A k : Fresh(k)' <=> Fresh(k)
    BY <2>1 DEF Fresh
  <2>. QED
    BY <2>1, <2>2, <2>3 DEF OnceInv, NoneTwice, OneWay, HeldOnce, YetToSend
<1>7. ASSUME NEW r \in Runs, SendSucceeds(r) PROVE OnceInv'
  <2>1. /\ Try(r) /\ NextLetter(r) /\ sending[r] # <<>>
        /\ UNCHANGED <<failures, excused, publisher, publishing, queue, job>>
        /\ received' = [received EXCEPT ![Head(sending[r])] = @ + 1]
    BY <1>7 DEF SendSucceeds, Try, config, jobs
  <2>2. PICK k \in Letters : k = Head(sending[r])
    BY <2>1, TryTypes
  <2>3. \A l \in Letters : received[l] \in Nat /\ received'[l] = (IF l = k THEN received[l] + 1 ELSE received[l])
    BY <2>1, <2>2 DEF Types, TypeOK
  <2>4. Fresh(k)
    BY <2>1, <2>2, HeadFresh
  <2>. QED
    BY <2>1, <2>2, <2>3, <2>4, NextLetterOnce DEF Fresh
<1>8. ASSUME NEW r \in Runs, SendFails(r) PROVE OnceInv'
  <2>1. Try(r) /\ sending[r] # <<>> /\ UNCHANGED <<publisher, publishing, queue, job>>
    BY <1>8 DEF SendFails, Try, config, jobs
  <2>2. PICK k \in Letters : k = Head(sending[r])
    BY <2>1, TryTypes
  <2>3. Fresh(k)
    BY <2>1, <2>2, HeadFresh
  <2>4. /\ excused \subseteq excused'
        /\ \A l \in Letters \ {k} : received'[l] = received[l]
        /\ k \in excused' \/ received'[k] = 0
    BY <1>8, <2>2, <2>3 DEF SendFails, Fresh, Types, TypeOK
  <2>5. CASE attempt[r] < maxAttempts
    <3>1. UNCHANGED <<sending, failures>>
      BY <1>8, <2>5 DEF SendFails, RetryOrFail
    <3>2. \A l \in Letters : Fresh(l) => Fresh(l)'
      BY <2>4 DEF Fresh
    <3>3. \A l : Sent(l)' <=> Sent(l)
      BY <2>1, <3>1 DEF Sent
    <3>4. NoneTwice'
      BY <2>4 DEF OnceInv, NoneTwice
    <3>5. \A a \in Activities : ToSet(publishing[a]) \cup ToSet(sending[a]) \subseteq Letters
      BY DEF HoldInv, TasksHold, TaskLetters, Types, TypeOK
    <3>6. YetToSend'
      BY <2>1, <3>1, <3>2, <3>3, <3>5 DEF OnceInv, YetToSend, Types, TypeOK, JobTypes
    <3>. QED
      BY <2>1, <3>1, <3>4, <3>6 DEF OnceInv, OneWay, HeldOnce
  <2>6. CASE ~ attempt[r] < maxAttempts
    <3>1. NextLetter(r) /\ \A x \in Runs \ {r} : failures'[x] = failures[x]
      BY <1>8, <2>6 DEF SendFails, RetryOrFail, Types, TypeOK, TaskTypes
    <3>. QED
      BY <2>1, <2>2, <2>4, <3>1, NextLetterOnce
  <2>. QED
    BY <2>5, <2>6
<1>9. ASSUME NEW r \in Runs, SkipLetter(r) PROVE OnceInv'
  <2>1. /\ NextLetter(r) /\ sending[r] # <<>> /\ sending[r] \in Seq(Letters)
        /\ UNCHANGED <<failures, excused, received, publisher, publishing, queue, job>>
    BY <1>9 DEF SkipLetter, config, jobs, Types, TypeOK, TaskTypes
  <2>2. PICK k \in Letters : k = Head(sending[r])
    BY <2>1, HeadAndTail
  <2>3. Fresh(k)
    BY <2>1, <2>2, HeadFresh
  <2>. QED
    BY <2>1, <2>2, <2>3, NextLetterOnce DEF Fresh
<1>10. CASE Crash
  <2>1. /\ UNCHANGED <<publisher, queue, received>>
        /\ excused \subseteq excused'
        /\ \A w \in Workers : \A l \in job[w] : l \in Letters /\ received[l] > 0 => l \in excused'
        /\ \A a \in Activities : publishing'[a] = <<>> /\ sending'[a] = <<>>
        /\ \A w \in Workers : job'[w] = {}
    BY <1>10, RunsAre DEF Crash, config
  <2>2. ASSUME NEW l \in queue PROVE Fresh(l)'
    <3>1. l \in Letters /\ received[l] \in Nat
      BY DEF Types, TypeOK, JobTypes
    <3>2. Fresh(l) \/ \E w \in Workers : l \in job[w]
      BY DEF OnceInv, YetToSend, Sent
    <3>. QED
      BY <2>1, <3>1, <3>2 DEF Fresh
  <2>3. IsInjective(<<>>)
    BY DEF IsInjective
  <2>4. OneWay' /\ HeldOnce' /\ NoneTwice'
    BY <2>1, <2>3, SetOfEmpty DEF OnceInv, OneWay, HeldOnce, NoneTwice
  <2>5. YetToSend'
    BY <2>1, <2>2, SetOfEmpty DEF YetToSend
  <2>. QED
    BY <2>4, <2>5 DEF OnceInv
<1>11. CASE UNCHANGED vars
  <2>1. UNCHANGED <<publisher, publishing, queue, sending, job, failures, received, excused>>
    BY <1>11 DEF vars, config, tasks, jobs, history
  <2>2. \A l : (Fresh(l)' <=> Fresh(l)) /\ (Sent(l)' <=> Sent(l))
    BY <2>1 DEF Fresh, Sent
  <2>. QED
    BY <2>1, <2>2 DEF OnceInv, NoneTwice, OneWay, HeldOnce, YetToSend
<1>. QED
  BY <1>1, <1>2, <1>3, <1>4, <1>5, <1>6, <1>7, <1>8, <1>9, <1>10, <1>11, StepCases

\* No activity is delivered twice to an inbox, but for a lost response or a restart.
THEOREM NoneTwiceHolds == Spec => []NoneTwice
<1>1. OnceInv => NoneTwice
  BY DEF OnceInv
<1>. QED
  BY <1>1, TypesInitially, TypesKept, HoldInitially, HoldKept, OnceInitially, OnceKept, PTL
  DEF Spec

-----------------------------------------------------------------------------
(* Every step is one of DeliveryPromise, or changes nothing of it.         *)

\* What the tasks hold is neither lost nor given up; what they have yet to
\* publish has not arrived.
TasksOpen ==
  \A a \in Activities :
    /\ \A l \in ToSet(publishing[a]) : received[l] = 0 /\ l \notin lost /\ l \notin givenUp
    /\ \A l \in ToSet(sending[a]) \cup failures[a] : l \notin lost /\ l \notin givenUp

\* A job of the queue is lost only when no attempts are configured.
QueueOpen ==
  /\ publisher => \A a \in Activities : failures[a] = {}
  /\ \A l \in queue : l \in lost => maxAttempts = 0

\* Without attempts nothing arrives and nothing fails.
NoAttempts ==
  maxAttempts = 0 => /\ givenUp = {}
                     /\ \A r \in Runs : failures[r] = {}
                     /\ \A l \in Letters : received[l] = 0

KeepInv == TasksOpen /\ QueueOpen /\ NoAttempts

PromiseStep == [Promise!Next]_(Promise!vars)

LEMMA Stutters ==
  ASSUME UNCHANGED <<wanted, received, givenUp, lost>>
  PROVE  PromiseStep
<1>1. Arrived' = Arrived
  BY DEF Arrived
<1>. QED
  BY <1>1 DEF PromiseStep, Promise!vars

LEMMA Loses ==
  ASSUME UNCHANGED <<wanted, received, givenUp>>, lost \subseteq lost', lost' \subseteq Letters,
         \A l \in lost' \ lost : l \in wanted /\ received[l] = 0 /\ l \notin givenUp
  PROVE  PromiseStep
<1>. DEFINE S == lost' \ lost
<1>1. Arrived' = Arrived /\ \A l \in S : l \notin Arrived
  BY DEF Arrived
<1>2. S \in SUBSET Letters /\ lost' = lost \cup S
  OBVIOUS
<1>3. Promise!Lose(S)
  BY <1>1, <1>2 DEF Promise!Lose, Promise!Open
<1>. QED
  BY <1>2, <1>3 DEF PromiseStep, Promise!Next

LEMMA GivesUp ==
  ASSUME UNCHANGED <<wanted, received, lost>>, NEW S \in SUBSET Letters,
         S \subseteq wanted \ lost, givenUp' = givenUp \cup S
  PROVE  PromiseStep
<1>1. Arrived' = Arrived
  BY DEF Arrived
<1>2. Promise!GiveUp(S)
  BY <1>1 DEF Promise!GiveUp
<1>. QED
  BY <1>2 DEF PromiseStep, Promise!Next

LEMMA Arrives ==
  ASSUME Types, UNCHANGED <<wanted, givenUp, lost>>, NEW k \in Letters, k \in wanted, k \notin lost,
         received' = [received EXCEPT ![k] = @ + 1]
  PROVE  PromiseStep
<1>1. \A l \in Letters : received[l] \in Nat /\ received'[l] = IF l = k THEN received[l] + 1 ELSE received[l]
  BY DEF Types, TypeOK
<1>2. Arrived' = Arrived \cup {k}
  BY <1>1 DEF Arrived
<1>3. Promise!Arrive(k)
  BY <1>2 DEF Promise!Arrive
<1>. QED
  BY <1>3 DEF PromiseStep, Promise!Next

\* An attempt, whatever comes of it.
LEMMA TryKeeps ==
  ASSUME Types, HoldInv, OnceInv, KeepInv, NEW r \in Runs, Try(r),
         NEW k \in Letters, k = Head(sending[r]),
         UNCHANGED <<publisher, publishing>>,
         \A a \in Activities : ToSet(sending'[a]) \subseteq ToSet(sending[a]),
         \A x \in Runs \ {r} : failures'[x] = failures[x],
         failures'[r] \subseteq failures[r] \cup {k},
         UNCHANGED received \/ received' = [received EXCEPT ![k] = @ + 1]
  PROVE  KeepInv' /\ PromiseStep
<1>1. /\ UNCHANGED <<wanted, queue, givenUp, lost, maxAttempts>> /\ sending[r] # <<>>
      /\ maxAttempts # 0
  <2>1. attempt[r] \in Nat /\ (attempt[r] = 1 \/ attempt[r] \in 1..maxAttempts) /\ attempt[r] <= maxAttempts
    BY DEF Try, Types, TypeOK, TaskTypes
  <2>2. maxAttempts # 0
    BY <2>1
  <2>. QED
    BY <2>2 DEF Try, config, jobs
<1>2. /\ r \in Activities => k \notin queue /\ ~ publisher /\ k \in ToSet(sending[r])
      /\ r \in Workers => k \in queue /\ publisher
  BY <1>1, HeadFresh
<1>3. k \in wanted /\ k \notin lost
  BY <1>1, <1>2, HeadHeld DEF KeepInv, TasksOpen, QueueOpen, Runs
<1>4. \A l \in Letters \ {k} : received'[l] = received[l]
  BY DEF Types, TypeOK
<1>5. ASSUME NEW a \in Activities, NEW l \in ToSet(publishing'[a])
      PROVE  received'[l] = 0 /\ l \notin lost' /\ l \notin givenUp'
  <2>1. received[l] = 0 /\ l \notin lost /\ l \notin givenUp /\ l \in Letters
    BY <1>5 DEF KeepInv, TasksOpen, HoldInv, TasksHold, TaskLetters, Types, TypeOK
  <2>2. publisher
    BY <1>5, SetOfEmpty DEF OnceInv, OneWay
  <2>3. l # k
    BY <1>2, <1>5, <2>2 DEF Runs, OnceInv, HeldOnce
  <2>. QED
    BY <1>1, <1>4, <2>1, <2>3
<1>6. ASSUME NEW a \in Activities, NEW l \in ToSet(sending'[a]) \cup failures'[a]
      PROVE  l \notin lost' /\ l \notin givenUp'
  <2>1. l \in ToSet(sending[a]) \cup failures[a]
    BY <1>2, <1>6, RunsAre
  <2>. QED
    BY <1>1, <2>1 DEF KeepInv, TasksOpen
<1>7. QueueOpen'
  BY <1>1, <1>2, RunsAre DEF KeepInv, QueueOpen
<1>8. NoAttempts'
  BY <1>1 DEF NoAttempts
<1>9. PromiseStep
  BY <1>1, <1>3, Stutters, Arrives
<1>. QED
  BY <1>5, <1>6, <1>7, <1>8, <1>9 DEF KeepInv, TasksOpen

\* Going on to the next letter leaves no more to send.
LEMMA NextLetterLess ==
  ASSUME Types, NEW r \in Runs, sending[r] # <<>>, NextLetter(r)
  PROVE  \A x \in Runs : ToSet(sending'[x]) \subseteq ToSet(sending[x])
<1>1. ToSet(sending[r]) = {Head(sending[r])} \cup ToSet(Tail(sending[r]))
  BY HeadAndTail DEF Types, TypeOK, TaskTypes
<1>. QED
  BY <1>1 DEF NextLetter, Types, TypeOK, TaskTypes

LEMMA KeepInitially == Init => KeepInv /\ Promise!Init
<1>. SUFFICES ASSUME Init PROVE KeepInv /\ Promise!Init
  OBVIOUS
<1>1. KeepInv
  BY SetOfEmpty, RunsAre DEF Init, KeepInv, TasksOpen, QueueOpen, NoAttempts
<1>2. Arrived = {}
  BY DEF Init, Arrived
<1>. QED
  BY <1>1, <1>2 DEF Init, Promise!Init

LEMMA KeepKept == Types /\ HoldInv /\ OnceInv /\ KeepInv /\ [Next]_vars => KeepInv' /\ PromiseStep
<1>. SUFFICES ASSUME Types, HoldInv, OnceInv, KeepInv, [Next]_vars PROVE KeepInv' /\ PromiseStep
  OBVIOUS
<1>1. ASSUME NEW a \in Activities, NEW s \in Seq(Inboxes), Dispatch(a, s)
      PROVE  KeepInv' /\ PromiseStep
  <2>. DEFINE S == ToSet(LettersTo(a, s))
  <2>1. publishing[a] = <<>> /\ sending[a] = <<>> /\ failures[a] = {} /\ a \in Runs
    BY <1>1, IdleUntilAsked, RunsAre DEF Dispatch
  <2>2. S \subseteq Letters /\ S \cap wanted = {}
    BY <1>1, LettersToTypes DEF Dispatch, Asked
  <2>3. \A l \in S : received[l] = 0 /\ l \notin lost /\ l \notin givenUp
    BY <2>2 DEF HoldInv, OnlyWanted, Types, TypeOK
  <2>4. /\ \A b \in Activities : ToSet(publishing'[b]) \subseteq ToSet(publishing[b]) \cup S
        /\ \A b \in Activities : ToSet(sending'[b]) \subseteq ToSet(sending[b]) \cup S
    BY <1>1, <2>1, RunsAre DEF Dispatch, Types, TypeOK, TaskTypes
  <2>5. UNCHANGED <<publisher, maxAttempts, queue, failures, received, lost, givenUp>>
    BY <1>1 DEF Dispatch, config, jobs, history
  <2>6. KeepInv'
    BY <2>3, <2>4, <2>5 DEF KeepInv, TasksOpen, QueueOpen, NoAttempts
  <2>7. Arrived' = Arrived
    BY <2>5 DEF Arrived
  <2>8. Promise!Ask(S)
    BY <1>1, <2>2, <2>5, <2>7 DEF Dispatch, Promise!Ask
  <2>. QED
    BY <2>2, <2>6, <2>8 DEF PromiseStep, Promise!Next
<1>2. ASSUME NEW a \in Activities, Publish(a) PROVE KeepInv' /\ PromiseStep
  <2>1. publishing[a] \in Seq(Letters) /\ publishing[a] # <<>>
    BY <1>2 DEF Publish, Types, TypeOK, TaskTypes
  <2>2. PICK h \in Letters : h = Head(publishing[a])
    BY <2>1, HeadAndTail
  <2>3. ToSet(publishing[a]) = {h} \cup ToSet(Tail(publishing[a])) /\ h \notin ToSet(Tail(publishing[a]))
    BY <2>1, <2>2, HeadAndTail, TailDistinct DEF OnceInv, HeldOnce
  <2>4. /\ publishing'[a] = Tail(publishing[a])
        /\ \A b \in Activities \ {a} : publishing'[b] = publishing[b]
        /\ queue' \subseteq queue \cup {h} /\ lost \subseteq lost' /\ lost' \subseteq lost \cup {h}
        /\ queue' = queue \/ lost' = lost
        /\ UNCHANGED <<publisher, maxAttempts, wanted, sending, failures, received, givenUp>>
    BY <1>2, <2>2 DEF Publish, config, Types, TypeOK, TaskTypes
  <2>5. h \in wanted /\ received[h] = 0 /\ h \notin lost /\ h \notin givenUp
    BY <2>3 DEF KeepInv, TasksOpen, HoldInv, TasksHold, TaskLetters
  <2>6. h \notin queue /\ \A b \in Activities \ {a} : h \notin TaskLetters(b)
    BY <2>3, HeldByItsActivity DEF TaskLetters, OnceInv, HeldOnce
  <2>7. publisher
    BY <2>1 DEF OnceInv, OneWay
  <2>8. \A b \in Activities : sending[b] = <<>> /\ failures[b] = {}
    BY <2>7 DEF OnceInv, OneWay, KeepInv, QueueOpen
  <2>9. TasksOpen'
    BY <2>3, <2>4, <2>6, <2>8, SetOfEmpty DEF KeepInv, TasksOpen, TaskLetters
  <2>10. QueueOpen' /\ NoAttempts'
    BY <2>4, <2>5, <2>6 DEF KeepInv, QueueOpen, NoAttempts
  <2>11. PromiseStep
    <3>1. lost' \subseteq Letters
      BY <2>4 DEF Types, TypeOK
    <3>. QED
      BY <2>4, <2>5, <3>1, Loses
  <2>. QED
    BY <2>9, <2>10, <2>11 DEF KeepInv
<1>3. ASSUME NEW a \in Activities, FinishTask(a) PROVE KeepInv' /\ PromiseStep
  <2>1. /\ a \in Runs /\ failures[a] # {} /\ givenUp' = givenUp \cup failures[a] /\ failures'[a] = {}
        /\ \A x \in Runs \ {a} : failures'[x] = failures[x]
        /\ UNCHANGED <<publisher, maxAttempts, wanted, publishing, sending, queue, received, lost>>
        /\ sending[a] = <<>>
    BY <1>3, RunsAre DEF FinishTask, config, jobs, history, Types, TypeOK, TaskTypes
  <2>2. ~ publisher /\ maxAttempts # 0
    BY <2>1 DEF KeepInv, QueueOpen, NoAttempts
  <2>3. failures[a] \in SUBSET Letters /\ failures[a] \subseteq wanted \ lost
    BY <2>1 DEF KeepInv, TasksOpen, HoldInv, TasksHold, TaskLetters, Types, TypeOK, TaskTypes
  <2>4. \A b \in Activities \ {a} : \A l \in ToSet(sending[b]) \cup failures[b] : l \notin failures[a]
    BY HeldByItsActivity DEF TaskLetters
  <2>5. \A b \in Activities : publishing[b] = <<>>
    BY <2>2 DEF OnceInv, OneWay
  <2>6. TasksOpen'
    <3>1. ASSUME NEW b \in Activities, NEW l \in ToSet(sending'[b]) \cup failures'[b]
          PROVE  l \notin lost' /\ l \notin givenUp'
      <4>1. b # a
        BY <2>1, <3>1, SetOfEmpty
      <4>2. l \in ToSet(sending[b]) \cup failures[b]
        BY <2>1, <3>1, <4>1, RunsAre
      <4>. QED
        BY <2>1, <2>4, <4>1, <4>2 DEF KeepInv, TasksOpen
    <3>. QED
      BY <2>1, <2>5, <3>1, SetOfEmpty DEF TasksOpen
  <2>7. QueueOpen' /\ NoAttempts'
    BY <2>1, <2>2 DEF KeepInv, QueueOpen, NoAttempts
  <2>. QED
    BY <2>1, <2>3, <2>6, <2>7, GivesUp DEF KeepInv
<1>4. ASSUME NEW w \in Workers, NEW l \in Letters, TakeJob(w, l) PROVE KeepInv' /\ PromiseStep
  <2>1. /\ \A a \in Activities : sending'[a] = sending[a]
        /\ UNCHANGED <<publisher, maxAttempts, wanted, publishing, failures, queue, received, lost, givenUp>>
    BY <1>4, RunsAre DEF TakeJob, config, history, Types, TypeOK, TaskTypes
  <2>. QED
    BY <2>1, Stutters DEF KeepInv, TasksOpen, QueueOpen, NoAttempts
<1>5. ASSUME NEW w \in Workers, FinishJob(w) PROVE KeepInv' /\ PromiseStep
  <2>1. /\ w \in Runs /\ givenUp' = givenUp \cup failures[w]
        /\ \A x \in Runs \ {w} : failures'[x] = failures[x]
        /\ failures'[w] = {} /\ queue' \subseteq queue
        /\ UNCHANGED <<publisher, maxAttempts, wanted, publishing, sending, received, lost>>
    BY <1>5, RunsAre DEF FinishJob, config, history, Types, TypeOK, TaskTypes
  <2>2. failures[w] \subseteq queue /\ queue \subseteq Letters /\ queue \subseteq wanted
    BY DEF HoldInv, WorkersHold, OnlyWanted, Types, TypeOK, JobTypes
  <2>3. maxAttempts = 0 => failures[w] = {}
    BY <2>1 DEF KeepInv, NoAttempts
  <2>4. failures[w] \in SUBSET Letters /\ failures[w] \subseteq wanted \ lost
    BY <2>2, <2>3 DEF KeepInv, QueueOpen
  <2>5. failures[w] # {} => \A a \in Activities : sending[a] = <<>> /\ failures[a] = {}
    BY <2>2 DEF OnceInv, OneWay, KeepInv, QueueOpen
  <2>6. \A a \in Activities : failures'[a] = failures[a] /\ ToSet(publishing[a]) \cap failures[w] = {}
    BY <2>1, <2>2, RunsAre DEF OnceInv, HeldOnce
  <2>7. TasksOpen'
    BY <2>1, <2>5, <2>6, SetOfEmpty DEF KeepInv, TasksOpen
  <2>8. QueueOpen' /\ NoAttempts'
    BY <2>1, <2>3, <2>6 DEF KeepInv, QueueOpen, NoAttempts
  <2>. QED
    BY <2>1, <2>4, <2>7, <2>8, GivesUp DEF KeepInv
<1>6. ASSUME NEW w \in Workers, DeliverFailsEarly(w) PROVE KeepInv' /\ PromiseStep
  <2>1. /\ job[w] # {} /\ job[w] \subseteq queue /\ queue \subseteq Letters /\ queue \subseteq wanted
        /\ \A l \in Letters : received[l] \in Nat
    BY <1>6 DEF DeliverFailsEarly, HoldInv, OnlyWanted, Types, TypeOK, JobTypes
  <2>2. /\ \A a \in Activities : sending'[a] = sending[a]
        /\ UNCHANGED <<publisher, maxAttempts, wanted, publishing, failures, received, givenUp>>
        /\ lost \subseteq lost' /\ queue' \subseteq queue
        /\ \A l \in lost' \ lost : l \in job[w] /\ l \notin queue' /\ received[l] = 0 /\ l \notin givenUp
    BY <1>6, RunsAre DEF DeliverFailsEarly, config, Types, TypeOK, TaskTypes
  <2>3. \A a \in Activities : /\ sending[a] = <<>> /\ failures[a] = {}
                              /\ ToSet(publishing[a]) \cap job[w] = {}
    BY <2>1 DEF OnceInv, OneWay, HeldOnce, KeepInv, QueueOpen
  <2>4. TasksOpen'
    BY <2>2, <2>3, SetOfEmpty DEF KeepInv, TasksOpen
  <2>5. QueueOpen' /\ NoAttempts'
    BY <2>2 DEF KeepInv, QueueOpen, NoAttempts
  <2>6. lost' \subseteq Letters /\ \A l \in lost' \ lost : l \in wanted
    BY <2>1, <2>2 DEF Types, TypeOK
  <2>. QED
    BY <2>2, <2>4, <2>5, <2>6, Loses DEF KeepInv
<1>7. ASSUME NEW r \in Runs, SendSucceeds(r) PROVE KeepInv' /\ PromiseStep
  <2>1. /\ Try(r) /\ NextLetter(r)
        /\ UNCHANGED <<failures, publisher, publishing>>
        /\ received' = [received EXCEPT ![Head(sending[r])] = @ + 1]
    BY <1>7 DEF SendSucceeds, Try, config
  <2>2. PICK k \in Letters : k = Head(sending[r])
    BY <2>1, TryTypes
  <2>3. \A a \in Activities : ToSet(sending'[a]) \subseteq ToSet(sending[a])
    BY <2>1, NextLetterLess, TryTypes, RunsAre
  <2>. QED
    BY <2>1, <2>2, <2>3, TryKeeps
<1>8. ASSUME NEW r \in Runs, SendFails(r) PROVE KeepInv' /\ PromiseStep
  <2>1. /\ Try(r) /\ UNCHANGED <<publisher, publishing>>
        /\ \/ UNCHANGED received
           \/ received' = [received EXCEPT ![Head(sending[r])] = @ + 1]
    BY <1>8 DEF SendFails, Try, config
  <2>2. PICK k \in Letters : k = Head(sending[r])
    BY <2>1, TryTypes
  <2>3. /\ UNCHANGED sending \/ NextLetter(r)
        /\ \A x \in Runs \ {r} : failures'[x] = failures[x]
        /\ failures'[r] \subseteq failures[r] \cup {k}
    BY <1>8, <2>2 DEF SendFails, RetryOrFail, Types, TypeOK, TaskTypes
  <2>4. \A a \in Activities : ToSet(sending'[a]) \subseteq ToSet(sending[a])
    BY <2>1, <2>3, NextLetterLess, TryTypes, RunsAre
  <2>. QED
    BY <2>1, <2>2, <2>3, <2>4, TryKeeps
<1>9. ASSUME NEW r \in Runs, SkipLetter(r) PROVE KeepInv' /\ PromiseStep
  <2>1. /\ NextLetter(r) /\ sending[r] # <<>> /\ maxAttempts = 0
        /\ UNCHANGED <<publisher, maxAttempts, wanted, publishing, queue, failures, received, givenUp>>
    BY <1>9 DEF SkipLetter, config, jobs
  <2>2. PICK k \in Letters : k = Head(sending[r])
    BY <2>1, HeadAndTail DEF Types, TypeOK, TaskTypes
  <2>3. lost' = lost \cup {k} /\ k \in wanted
    BY <1>9, <2>1, <2>2, HeadHeld DEF SkipLetter
  <2>4. givenUp = {} /\ (\A x \in Runs : failures[x] = {}) /\ \A l \in Letters : received[l] = 0
    BY <2>1 DEF KeepInv, NoAttempts
  <2>5. /\ r \in Activities => ~ publisher /\ k \in ToSet(sending[r])
        /\ r \in Workers => k \in queue /\ publisher
    BY <2>1, <2>2, HeadFresh
  <2>6. /\ \A a \in Activities : ToSet(sending'[a]) \subseteq ToSet(sending[a])
        /\ k \notin ToSet(sending'[r]) \/ r \in Workers
    <3>1. r \in Activities => IsInjective(sending[r])
      BY DEF OnceInv, HeldOnce
    <3>2. sending'[r] = Tail(sending[r]) /\ sending[r] \in Seq(Letters)
      BY <2>1 DEF NextLetter, Types, TypeOK, TaskTypes
    <3>. QED
      BY <2>1, <2>2, <3>1, <3>2, NextLetterLess, TailDistinct, RunsAre DEF Runs
  <2>7. ASSUME NEW a \in Activities PROVE k \notin ToSet(publishing[a]) /\ k \notin ToSet(sending'[a])
    <3>1. CASE r \in Activities
      <4>1. publishing[a] = <<>>
        BY <2>5, <3>1 DEF OnceInv, OneWay
      <4>2. k \in ToSet(sending[a]) => a = r
        BY <2>5, <3>1, HeldByItsActivity DEF TaskLetters
      <4>. QED
        BY <2>6, <3>1, <4>1, <4>2, SetOfEmpty, RunsAre
    <3>2. CASE r \in Workers
      BY <2>5, <2>6, <3>2, SetOfEmpty DEF OnceInv, OneWay, HeldOnce
    <3>. QED
      BY <3>1, <3>2 DEF Runs
  <2>8. TasksOpen'
    BY <2>1, <2>3, <2>4, <2>6, <2>7, RunsAre DEF KeepInv, TasksOpen
  <2>9. QueueOpen' /\ NoAttempts'
    BY <2>1, <2>4 DEF KeepInv, QueueOpen, NoAttempts
  <2>10. lost' \subseteq Letters
    BY <2>3 DEF Types, TypeOK
  <2>. QED
    BY <2>1, <2>3, <2>4, <2>8, <2>9, <2>10, Loses DEF KeepInv
<1>10. CASE Crash
  <2>1. /\ UNCHANGED <<publisher, maxAttempts, wanted, queue, received, givenUp>>
        /\ \A a \in Activities : publishing'[a] = <<>> /\ sending'[a] = <<>>
        /\ \A r \in Runs : failures'[r] = {}
    BY <1>10, RunsAre DEF Crash, config
  <2>2. \A a \in Activities : TaskLetters(a) \subseteq wanted /\ TaskLetters(a) \subseteq Letters
    BY DEF HoldInv, TasksHold, Types, TypeOK
  <2>3. /\ lost \subseteq lost'
        /\ \A l \in lost' \ lost : \E a \in Activities : l \in TaskLetters(a) /\ ~ (l \in Letters /\ received[l] > 0)
    BY <1>10 DEF Crash, TaskLetters
  <2>4. \A l \in lost' \ lost : l \in wanted /\ l \in Letters /\ received[l] = 0 /\ l \notin givenUp
    BY <2>2, <2>3 DEF KeepInv, TasksOpen, TaskLetters, Types, TypeOK
  <2>5. TasksOpen' /\ NoAttempts'
    BY <2>1, SetOfEmpty, RunsAre DEF KeepInv, TasksOpen, NoAttempts
  <2>6. ASSUME NEW l \in queue PROVE l \notin lost' \ lost
    <3>1. publisher
      BY <2>6 DEF OnceInv, OneWay
    <3>2. \A a \in Activities : l \notin TaskLetters(a)
      BY <2>6, <3>1, SetOfEmpty DEF TaskLetters, OnceInv, OneWay, HeldOnce, KeepInv, QueueOpen
    <3>. QED
      BY <2>3, <3>2
  <2>7. QueueOpen'
    BY <2>1, <2>6, RunsAre DEF KeepInv, QueueOpen
  <2>8. lost' \subseteq Letters
    BY <2>4 DEF Types, TypeOK
  <2>. QED
    BY <2>1, <2>3, <2>4, <2>5, <2>7, <2>8, Loses DEF KeepInv
<1>11. CASE UNCHANGED vars
  <2>1. UNCHANGED <<publisher, maxAttempts, wanted, publishing, sending, failures, queue, received, lost, givenUp>>
    BY <1>11 DEF vars, config, tasks, jobs, history
  <2>. QED
    BY <2>1, Stutters DEF KeepInv, TasksOpen, QueueOpen, NoAttempts
<1>. QED
  BY <1>1, <1>2, <1>3, <1>4, <1>5, <1>6, <1>7, <1>8, <1>9, <1>10, <1>11, StepCases

\* The delivery implements the safety part of DeliveryPromise: it starts as the
\* promise does, and every step of tasks, workers and the queue asks for letters,
\* delivers one, gives some up, loses open ones or changes nothing of the promise.
THEOREM StepsKeepPromise == Spec => Promise!Init /\ [][Promise!Next]_(Promise!vars)
<1>1. Init => Promise!Init
  BY KeepInitially
<1>2. Types /\ HoldInv /\ OnceInv /\ KeepInv /\ [Next]_vars => [Promise!Next]_(Promise!vars)
  BY KeepKept DEF PromiseStep
<1>3. Init => KeepInv
  BY KeepInitially
<1>4. Types /\ HoldInv /\ OnceInv /\ KeepInv /\ [Next]_vars => KeepInv'
  BY KeepKept
<1>. QED
  BY <1>1, <1>2, <1>3, <1>4, TypesInitially, TypesKept, HoldInitially, HoldKept, OnceInitially,
     OnceKept, PTL
  DEF Spec
=============================================================================
