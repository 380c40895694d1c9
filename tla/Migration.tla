----------------------------- MODULE Migration -----------------------------
(***************************************************************************)
(* An account moves: its followers' server receives a Move from the old    *)
(* account to the new one, asks the new account's server whether the new   *)
(* one names the old one as an alias, moves its users' follows over in one *)
(* repository call, answers, and sends a Follow for each of these users in *)
(* a task of its own.  Meanwhile a user may unfollow the new account, the  *)
(* new account's server may reject a follower, and the Move may come again *)
(* under the same id or another one.  The activities between the two       *)
(* servers arrive in any order.                                            *)
(*                                                                         *)
(* migrate_follower_actor belongs to the application: it moves the rows and *)
(* returns their users, unless the application keeps the trait's default,  *)
(* which does nothing.                                                     *)
(***************************************************************************)
EXTENDS Naturals, FiniteSets

CONSTANTS
  Locals,       \* local users
  Moves,        \* ids of the Moves
  Deliveries,   \* pairs of a Move and a number
  MaxFailures   \* failed requests, lost letters and restarts

ASSUME MigrationAssumption == Deliveries \subseteq Moves \X Nat

VARIABLES
  migrates,     \* the application implements migrate_follower_actor
  barred,       \* the old account's domain is blocked at the users' server
  aliased,      \* the new account names the old one
  follows,      \* the accounts each user follows, of "old" and "new"
  processed,    \* Moves the dedup knows
  stage,        \* of each delivery
  refollow,     \* users whose Follow a delivery's task has yet to send
  leaving,      \* users whose unfollow has sent its Undo
  net,          \* activities between the two servers: kind and user
  followed,     \* the new account's followers, at its server
  attempts,     \* Follows sent for each user (history)
  failed,       \* Moves a delivery of which ended in an error (history)
  dropped,      \* Moves a delivery of which found the domain blocked (history)
  missed,       \* users a letter or a re-follow of whom was lost (history)
  crossed,      \* users who unfollowed while their Follow was on its way (history)
  failures

server   == <<migrates, barred, processed, failed, dropped>>
varsMove == <<server, aliased, follows, stage, refollow, leaving, net, followed, attempts,
              missed, crossed, failures>>

InitMove ==
  /\ migrates \in BOOLEAN /\ barred \in BOOLEAN /\ aliased \in BOOLEAN
  /\ follows \in [Locals -> {{"old"}, {"old", "new"}, {}}]
  /\ followed = {u \in Locals : "new" \in follows[u]}
  /\ processed = {} /\ leaving = {} /\ net = {}
  /\ stage = [d \in Deliveries |-> "none"]
  /\ refollow = [d \in Deliveries |-> {}]
  /\ attempts = [u \in Locals |-> 0]
  /\ failed = {} /\ dropped = {} /\ missed = {} /\ crossed = {}
  /\ failures = 0

Failure == failures < MaxFailures /\ failures' = failures + 1

To(d, s) == stage' = [stage EXCEPT ![d] = s]

-----------------------------------------------------------------------------
(* MoveActivity::receive.                                                  *)

\* already_processed: a Move whose id is known is answered Ok at once; when the
\* check fails, the handler goes on.
CheckProcessed(d) ==
  /\ stage[d] = "none"
  /\ \/ d[1] \in processed /\ To(d, "ok") /\ UNCHANGED failures
     \/ d[1] \notin processed /\ To(d, "mark") /\ UNCHANGED failures
     \/ Failure /\ To(d, "domain")
  /\ UNCHANGED <<server, aliased, follows, refollow, leaving, net, followed, attempts, missed,
                 crossed>>

\* An error of mark_activity_processed is logged, too.
MarkProcessed(d) ==
  /\ stage[d] = "mark"
  /\ To(d, "domain")
  /\ \/ processed' = processed \cup {d[1]} /\ UNCHANGED failures
     \/ Failure /\ UNCHANGED processed
  /\ UNCHANGED <<migrates, barred, failed, dropped, aliased, follows, refollow, leaving, net,
                 followed, attempts, missed, crossed>>

\* check_guards: the Move of an account on a blocked domain is answered Ok, too.
CheckDomain(d) ==
  /\ stage[d] = "domain"
  /\ IF barred
     THEN To(d, "ok") /\ dropped' = dropped \cup {d[1]}
     ELSE To(d, "target") /\ UNCHANGED dropped
  /\ UNCHANGED <<migrates, barred, processed, failed, aliased, follows, refollow, leaving, net,
                 followed, attempts, missed, crossed, failures>>

\* Mutant: a target that does not name the old account is answered Ok.
DereferenceOk(d) ==
  /\ stage[d] = "target"
  /\ To(d, IF aliased THEN "migrate" ELSE "ok")
  /\ UNCHANGED <<server, aliased, follows, refollow, leaving, net, followed, attempts, missed,
                 crossed, failures>>

\* The target is fetched; it must name the old account.
Dereference(d) ==
  /\ stage[d] = "target"
  /\ IF aliased
     THEN To(d, "migrate") /\ UNCHANGED failed
     ELSE To(d, "error") /\ failed' = failed \cup {d[1]}
  /\ UNCHANGED <<migrates, barred, processed, dropped, aliased, follows, refollow, leaving, net,
                 followed, attempts, missed, crossed, failures>>

\* Mutant: the follows of other users are returned too.
MigratedAll == Locals

\* migrate_follower_actor: the users whose rows the application moves, none by default.
Migrated == {u \in Locals : migrates /\ "old" \in follows[u]}

\* Something of the user's that undoes a follow is under way.
Undoing(u) == u \in leaving \/ {<<"Undo", u>>, <<"Reject", u>>} \cap net # {}

MoveRows ==
  LET moved == {u \in Locals : migrates /\ "old" \in follows[u]} IN
  /\ follows' = [u \in Locals |->
       IF u \in moved THEN (follows[u] \ {"old"}) \cup {"new"} ELSE follows[u]]
  /\ crossed' = crossed \cup {u \in moved : Undoing(u)}

\* Mutant: no re-follow is spawned.
MigrateSilently(d) ==
  /\ stage[d] = "migrate"
  /\ MoveRows
  /\ To(d, "ok")
  /\ UNCHANGED <<server, aliased, refollow, leaving, net, followed, attempts, missed, failures>>

\* Mutant: the re-follows are sent before the Move is answered.
MigrateUnanswered(d) ==
  /\ stage[d] = "migrate"
  /\ MoveRows
  /\ refollow' = [refollow EXCEPT ![d] = Migrated]
  /\ UNCHANGED <<server, aliased, stage, leaving, net, followed, attempts, missed, failures>>

\* The rows are moved, the re-follows are spawned and the Move is answered.
Migrate(d) ==
  /\ stage[d] = "migrate"
  /\ MoveRows
  /\ refollow' = [refollow EXCEPT ![d] = Migrated]
  /\ To(d, "ok")
  /\ UNCHANGED <<server, aliased, leaving, net, followed, attempts, missed, failures>>

\* A delivery past the check for a duplicate, marked or not.
Guarded(d) == stage[d] \in {"domain", "target", "migrate"}

\* A delivery the server is handling.
Begun(d) == stage[d] = "mark" \/ Guarded(d)

\* The domain check, the fetch or the repository fails: the Move, marked or not, is
\* answered with an error.
ReceiveFails(d) ==
  /\ Guarded(d)
  /\ Failure
  /\ To(d, "error")
  /\ failed' = failed \cup {d[1]}
  /\ UNCHANGED <<migrates, barred, processed, dropped, aliased, follows, refollow, leaving, net,
                 followed, attempts, missed, crossed>>

\* send_refollow for the next user; a failure is logged, and the task goes on.
SendRefollow(d, u) ==
  /\ u \in refollow[d]
  /\ refollow' = [refollow EXCEPT ![d] = @ \ {u}]
  /\ \/ /\ net' = net \cup {<<"Follow", u>>}
        /\ attempts' = [attempts EXCEPT ![u] = @ + 1]
        /\ UNCHANGED <<missed, failures>>
     \/ /\ Failure
        /\ missed' = missed \cup {u}
        /\ UNCHANGED <<net, attempts>>
  /\ UNCHANGED <<server, aliased, follows, stage, leaving, followed, crossed>>

\* A restart takes the requests and tasks under way; the Move stays processed.
Restart ==
  /\ Failure
  /\ stage' = [d \in Deliveries |-> IF Begun(d) THEN "error" ELSE stage[d]]
  /\ failed' = failed \cup {d[1] : d \in {x \in Deliveries : Guarded(x)}}
  /\ refollow' = [d \in Deliveries |-> {}]
  /\ missed' = missed \cup leaving \cup UNION {refollow[d] : d \in Deliveries}
  /\ leaving' = {}
  /\ UNCHANGED <<migrates, barred, processed, dropped, aliased, follows, net, followed, attempts,
                 crossed>>

-----------------------------------------------------------------------------
(* Users and the new account's server.                                     *)

\* An operator blocks the old account's domain or unblocks it.
SetBarred ==
  /\ barred' = ~barred
  /\ UNCHANGED <<migrates, processed, failed, dropped, aliased, follows, stage, refollow, leaving,
                 net, followed, attempts, missed, crossed, failures>>

\* The owner of the new account names the old one, once and for all.
SetAlias ==
  /\ ~aliased
  /\ aliased' = TRUE
  /\ UNCHANGED <<server, follows, stage, refollow, leaving, net, followed, attempts, missed, crossed,
                 failures>>

FollowUnderWay(u) == <<"Follow", u>> \in net \/ \E d \in Deliveries : u \in refollow[d]

\* unfollow sends the Undo of the Follow, ...
SendUndo(u) ==
  /\ "new" \in follows[u] /\ u \notin leaving
  /\ net' = net \cup {<<"Undo", u>>}
  /\ leaving' = leaving \cup {u}
  /\ crossed' = IF FollowUnderWay(u) THEN crossed \cup {u} ELSE crossed
  /\ UNCHANGED <<server, aliased, follows, stage, refollow, followed, attempts, missed, failures>>

\* ... and removes the row.
RemoveFollowing(u) ==
  /\ u \in leaving
  /\ leaving' = leaving \ {u}
  /\ follows' = [follows EXCEPT ![u] = @ \ {"new"}]
  /\ crossed' = IF FollowUnderWay(u) THEN crossed \cup {u} ELSE crossed
  /\ UNCHANGED <<server, aliased, stage, refollow, net, followed, attempts, missed, failures>>

\* The new account's server records the follower or removes it; a Reject removes
\* the row of the user.
Receive(l) ==
  /\ net' = net \ {l}
  /\ \/ l[1] = "Follow" /\ followed' = followed \cup {l[2]} /\ UNCHANGED follows
     \/ l[1] = "Undo" /\ followed' = followed \ {l[2]} /\ UNCHANGED follows
     \/ l[1] = "Reject" /\ follows' = [follows EXCEPT ![l[2]] = @ \ {"new"}] /\ UNCHANGED followed
  /\ UNCHANGED <<server, aliased, stage, refollow, leaving, attempts, missed, crossed, failures>>

\* It rejects a follower.
Reject(u) ==
  /\ u \in followed
  /\ followed' = followed \ {u}
  /\ net' = net \cup {<<"Reject", u>>}
  /\ crossed' = IF FollowUnderWay(u) THEN crossed \cup {u} ELSE crossed
  /\ UNCHANGED <<server, aliased, follows, stage, refollow, leaving, attempts, missed, failures>>

\* An activity is lost.
Lose(l) ==
  /\ Failure
  /\ net' = net \ {l}
  /\ missed' = missed \cup {l[2]}
  /\ UNCHANGED <<server, aliased, follows, stage, refollow, leaving, followed, attempts, crossed>>

-----------------------------------------------------------------------------
NextMove ==
  \/ \E d \in Deliveries :
       \/ CheckProcessed(d) \/ MarkProcessed(d) \/ CheckDomain(d)
       \/ Dereference(d) \/ Migrate(d) \/ ReceiveFails(d)
  \/ \E d \in Deliveries, u \in Locals : SendRefollow(d, u)
  \/ Restart
  \/ SetBarred \/ SetAlias
  \/ \E u \in Locals : SendUndo(u) \/ RemoveFollowing(u) \/ Reject(u)
  \/ \E l \in net : Receive(l) \/ Lose(l)

SpecMove == InitMove /\ [][NextMove]_varsMove

-----------------------------------------------------------------------------
(* Properties.                                                             *)

\* Type correctness of the Move's handler and the rows it moves: a task has
\* re-follows to send only when its delivery was answered Ok.
TypeOKMove ==
  /\ migrates \in BOOLEAN /\ barred \in BOOLEAN /\ aliased \in BOOLEAN
  /\ follows \in [Locals -> SUBSET {"old", "new"}]
  /\ processed \cup failed \cup dropped \subseteq Moves
  /\ \A d \in Deliveries : Begun(d) \/ stage[d] \in {"none", "ok", "error"}
  /\ \A d \in Deliveries : refollow[d] # {} => refollow[d] \subseteq Locals /\ stage[d] = "ok"
  /\ leaving \cup followed \cup missed \cup crossed \subseteq Locals
  /\ net \subseteq {"Follow", "Undo", "Reject"} \X Locals

AtRest ==
  /\ net = {} /\ leaving = {}
  /\ \A d \in Deliveries : refollow[d] = {} /\ ~Begun(d)

\* After a Move both servers agree who follows the new account, unless a letter or
\* a re-follow was lost, to a failed send or a restart, which nothing makes up for
\* as a repeated Move finds no row to move, or the re-follow of a user crossed an
\* unfollow or a rejection of that user.
FollowersAgree ==
  AtRest => \A u \in Locals \ (missed \cup crossed) : "new" \in follows[u] <=> u \in followed

\* However often and under how many ids a Move arrives, and however its handlers
\* overlap, a user is sent one re-follow: only the handler that moves the row of a
\* user sends it.
RefollowedOnce == \A u \in Locals : attempts[u] <= 1

\* Where the application moves follows at all, a Move answered Ok has moved every
\* one, also when it was answered as a duplicate, unless a delivery of it failed
\* before, as its id is marked even so, or came from a domain that was blocked.
MoveTakesEffect ==
  AtRest /\ migrates => \A d \in Deliveries :
    stage[d] = "ok" /\ d[1] \notin failed \cup dropped
      => \A u \in Locals : "old" \notin follows[u]
=============================================================================
