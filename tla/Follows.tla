------------------------------- MODULE Follows -------------------------------
(***************************************************************************)
(* The follow relationship between users of different k-ap servers: the    *)
(* operations of ActivityPubService on it (follow, unfollow,               *)
(* accept_follower, reject_follower, remove_follower, block_actor,         *)
(* unblock_actor, mark_follower_accepted, mark_follower_rejected) and the  *)
(* inbound activities they exchange (Follow, Accept, Reject, Undo of       *)
(* Follow, Block, Undo of Block).                                          *)
(*                                                                         *)
(* A task runs the calls of one operation or handler (module Handlers) one *)
(* by one, so that tasks of both servers interleave at every await.  The   *)
(* network delivers activities once and in any order, or loses them;       *)
(* module Inbox shows what the dedup in front of the handlers lets         *)
(* through.  The repositories do what their callers rely on: every write   *)
(* is atomic and keyed by (user, actor), add is an upsert, and updating or *)
(* removing a row that is not there does nothing.                          *)
(***************************************************************************)
EXTENDS Naturals, Sequences, FiniteSets, Handlers

CONSTANTS
  Users,          \* users of all servers
  Servers,
  Home,           \* the server of each user
  Scripts,        \* <<operation, user, peer>>: what users may do
  Tasks,          \* tasks that can run at a time
  NoUser,         \* the user of an idle task
  MaxOperations,  \* operations users start in a behaviour
  MaxMishaps      \* failing calls, lost activities and restarts in a behaviour

ASSUME FollowsAssumption ==
  /\ Home \in [Users -> Servers]
  /\ Scripts \subseteq (DOMAIN ServiceCalls) \X Users \X Users
  /\ \A s \in Scripts : Home[s[2]] # Home[s[3]]
  /\ NoUser \notin Users
  /\ {MaxOperations, MaxMishaps} \subseteq Nat

VARIABLES
  following, followingId, \* FollowRepository: status and Follow id of outgoing follows
  follower, followerId,   \* FollowRepository: status and Follow id of incoming follows
  blocked,                \* BlocklistRepository: the actors each user has blocked
  net,                    \* activities on their way
  op, user, peer,         \* the operation of each task, whose it is, and towards whom
  id, ref,                \* the id of its activity, and of the Follow it is about
  pc,                     \* the call it makes next
  saved,                  \* ids of the follows a user recorded for an actor (history)
  granted,                \* <<user, actor>>: the user accepted the actor (history)
  late,                   \* Follow handlers a block has overtaken (history)
  breached,               \* <<user, actor>>: a follow slipped past a block (history)
  untold,                 \* <<user, actor>>: the follow ended untold, see Untold (history)
  operations, mishaps

rows     == <<following, followingId, follower, followerId, blocked>>
taskVars == <<op, user, peer, id, ref, pc>>
history  == <<saved, granted, late, breached, untold>>
counters == <<operations, mishaps>>
vars == <<rows, net, taskVars, history, counters>>

-----------------------------------------------------------------------------
Operations == DOMAIN ServiceCalls
Handled == {"Follow", "Accept", "Reject", "UndoFollow", "Block", "UndoBlock"}

Steps(o) == IF o \in Operations THEN ServiceCalls[o] ELSE HandlerCalls[o]

\* The activity an operation sends.
Sends == [follow |-> "Follow", unfollow |-> "UndoFollow", accept_follower |-> "Accept",
          reject_follower |-> "Reject", block_actor |-> "Block", unblock_actor |-> "UndoBlock"]

Ids == 0..MaxOperations   \* 0 is no id

Running(t) == op[t] # "idle"
AtCall(t, name) == Running(t) /\ Steps(op[t])[pc[t]].name = name

\* The task ends, or goes on to its next call.
End(t) ==
  /\ op' = [op EXCEPT ![t] = "idle"]
  /\ user' = [user EXCEPT ![t] = NoUser]
  /\ peer' = [peer EXCEPT ![t] = NoUser]
  /\ id' = [id EXCEPT ![t] = 0]
  /\ ref' = [ref EXCEPT ![t] = 0]
  /\ pc' = [pc EXCEPT ![t] = 1]

GoOn(t) == pc' = [pc EXCEPT ![t] = @ + 1] /\ UNCHANGED <<op, user, peer, id, ref>>

\* Mutant: a task goes one call too far.
AdvanceTooFar(t) == IF pc[t] <= Len(Steps(op[t])) THEN GoOn(t) ELSE End(t)

Advance(t) == IF pc[t] < Len(Steps(op[t])) THEN GoOn(t) ELSE End(t)

\* Task t runs operation o of u towards v and is at its call number n.
Doing(t, o, u, v, n) == op[t] = o /\ user[t] = u /\ peer[t] = v /\ pc[t] = n

-----------------------------------------------------------------------------
Init ==
  /\ following = [u \in Users |-> [v \in Users |-> "none"]]
  /\ followingId = [u \in Users |-> [v \in Users |-> 0]]
  /\ follower = [u \in Users |-> [v \in Users |-> "none"]]
  /\ followerId = [u \in Users |-> [v \in Users |-> 0]]
  /\ blocked = [u \in Users |-> {}]
  /\ net = {}
  /\ op = [t \in Tasks |-> "idle"]
  /\ user = [t \in Tasks |-> NoUser]
  /\ peer = [t \in Tasks |-> NoUser]
  /\ id = [t \in Tasks |-> 0]
  /\ ref = [t \in Tasks |-> 0]
  /\ pc = [t \in Tasks |-> 1]
  /\ saved = [u \in Users |-> [v \in Users |-> {}]]
  /\ granted = {}
  /\ late = {}
  /\ breached = {}
  /\ untold = {}
  /\ operations = 0
  /\ mishaps = 0

\* A user calls an operation of the service: a fresh activity id is drawn.
Start(t, o, u, v) ==
  /\ ~ Running(t)
  /\ operations < MaxOperations
  /\ operations' = operations + 1
  /\ op' = [op EXCEPT ![t] = o]
  /\ user' = [user EXCEPT ![t] = u]
  /\ peer' = [peer EXCEPT ![t] = v]
  /\ id' = [id EXCEPT ![t] = operations + 1]
  /\ ref' = [ref EXCEPT ![t] = operations + 1]
  /\ UNCHANGED <<rows, net, pc, history, mishaps>>

\* The server of m.to receives an activity and starts its handler.
Receive(t, m) ==
  /\ ~ Running(t)
  /\ net' = net \ {m}
  /\ op' = [op EXCEPT ![t] = m.kind]
  /\ user' = [user EXCEPT ![t] = m.to]
  /\ peer' = [peer EXCEPT ![t] = m.from]
  /\ id' = [id EXCEPT ![t] = m.id]
  /\ ref' = [ref EXCEPT ![t] = m.follow]
  /\ UNCHANGED <<rows, pc, history, counters>>

-----------------------------------------------------------------------------
\* History: the follows <<user, actor>> that task t ends now so that the user's
\* server is told nothing (remove_follower, mark_follower_rejected), or is told
\* before it recorded the follow it is to end.
Untold(t) ==
  LET u == user[t]
      v == peer[t]
      Early(x, y) == IF saved[x][y] = {} THEN {<<x, y>>} ELSE {}
  IN CASE op[t] \in {"remove_follower", "mark_follower_rejected"} -> {<<v, u>>}
       [] op[t] = "reject_follower" -> Early(v, u)
       [] op[t] \in {"unfollow", "block_actor"} -> Early(u, v)
       [] OTHER -> {}

(* The calls.                                                              *)

AddFollowing(t) ==
  LET u == user[t]
      v == peer[t] IN
  /\ AtCall(t, "add_following")
  /\ following' = [following EXCEPT ![u][v] = "Pending"]
  /\ followingId' = [followingId EXCEPT ![u][v] = id[t]]
  /\ saved' = [saved EXCEPT ![u][v] = @ \cup {id[t]}]
  /\ Advance(t)
  /\ UNCHANGED <<follower, followerId, blocked, net, granted, late, breached, untold,
                 counters>>

RemoveFollowing(t) ==
  LET u == user[t]
      v == peer[t] IN
  /\ AtCall(t, "remove_following")
  /\ following' = [following EXCEPT ![u][v] = "none"]
  /\ followingId' = [followingId EXCEPT ![u][v] = 0]
  /\ untold' = untold \cup Untold(t)
  /\ Advance(t)
  /\ UNCHANGED <<follower, followerId, blocked, net, saved, granted, late, breached,
                 counters>>

\* An Accept is applied to whatever follow of the actor is recorded.
UpdateFollowingStatus(t) ==
  LET u == user[t]
      v == peer[t] IN
  /\ AtCall(t, "update_following_status")
  /\ following' = [following EXCEPT ![u][v] = IF @ = "none" THEN @ ELSE "Accepted"]
  /\ Advance(t)
  /\ UNCHANGED <<followingId, follower, followerId, blocked, net, history, counters>>

\* Mutant: a follower needs no approval.
AddFollowerAccepted(t) ==
  LET u == user[t]
      v == peer[t] IN
  /\ AtCall(t, "add_follower")
  /\ follower' = [follower EXCEPT ![u][v] = "Accepted"]
  /\ followerId' = [followerId EXCEPT ![u][v] = ref[t]]
  /\ late' = late \ {t}
  /\ breached' = IF t \in late \/ \E x \in Tasks : Doing(x, "Block", u, v, 3)
                 THEN breached \cup {<<u, v>>} ELSE breached
  /\ Advance(t)
  /\ UNCHANGED <<following, followingId, blocked, net, saved, granted, untold, counters>>

\* The handler of Follow: the block was checked before the actor was fetched.
\* History: the follow slips past a block added after that check, and past one
\* whose Block handler has already removed the follower.
AddFollower(t) ==
  LET u == user[t]
      v == peer[t] IN
  /\ AtCall(t, "add_follower")
  /\ follower' = [follower EXCEPT ![u][v] = "Pending"]
  /\ followerId' = [followerId EXCEPT ![u][v] = ref[t]]
  /\ late' = late \ {t}
  /\ breached' = IF t \in late \/ \E x \in Tasks : Doing(x, "Block", u, v, 3)
                 THEN breached \cup {<<u, v>>} ELSE breached
  /\ Advance(t)
  /\ UNCHANGED <<following, followingId, blocked, net, saved, granted, untold, counters>>

RemoveFollower(t) ==
  LET u == user[t]
      v == peer[t] IN
  /\ AtCall(t, "remove_follower")
  /\ follower' = [follower EXCEPT ![u][v] = "none"]
  /\ followerId' = [followerId EXCEPT ![u][v] = 0]
  /\ breached' = breached \ {<<u, v>>}
  /\ untold' = untold \cup Untold(t)
  /\ Advance(t)
  /\ UNCHANGED <<following, followingId, blocked, net, saved, granted, late, counters>>

UpdateFollowerStatus(t) ==
  LET u == user[t]
      v == peer[t] IN
  /\ AtCall(t, "update_follower_status")
  /\ follower' = [follower EXCEPT ![u][v] = IF @ = "none" THEN @ ELSE "Accepted"]
  /\ granted' = granted \cup {<<u, v>>}
  /\ Advance(t)
  /\ UNCHANGED <<following, followingId, followerId, blocked, net, saved, late, breached,
                 untold, counters>>

\* The id of the Follow to accept; without a follower row the call ends in error.
ReadFollowId(t) ==
  LET u == user[t]
      v == peer[t] IN
  /\ AtCall(t, "get_follower_follow_activity_id")
  /\ IF follower[u][v] = "none"
     THEN End(t)
     ELSE /\ ref' = [ref EXCEPT ![t] = followerId[u][v]]
          /\ pc' = [pc EXCEPT ![t] = @ + 1]
          /\ UNCHANGED <<op, user, peer, id>>
  /\ UNCHANGED <<rows, net, history, counters>>

AddBlockedActor(t) ==
  LET u == user[t]
      v == peer[t] IN
  /\ AtCall(t, "add_blocked_actor")
  /\ blocked' = [blocked EXCEPT ![u] = @ \cup {v}]
  /\ late' = late \cup {x \in Tasks : \E n \in 2..4 : Doing(x, "Follow", u, v, n)}
  /\ Advance(t)
  /\ UNCHANGED <<following, followingId, follower, followerId, net, saved, granted, breached,
                 untold, counters>>

RemoveBlockedActor(t) ==
  /\ AtCall(t, "remove_blocked_actor")
  /\ blocked' = [blocked EXCEPT ![user[t]] = @ \ {peer[t]}]
  /\ Advance(t)
  /\ UNCHANGED <<following, followingId, follower, followerId, net, history, counters>>

\* Mutant: the answer of is_actor_blocked is ignored.
IsActorBlockedIgnored(t) ==
  /\ AtCall(t, "is_actor_blocked")
  /\ Advance(t)
  /\ UNCHANGED <<rows, net, history, counters>>

\* The handler of Follow drops the request of a blocked actor.
IsActorBlocked(t) ==
  /\ AtCall(t, "is_actor_blocked")
  /\ IF peer[t] \in blocked[user[t]] THEN End(t) ELSE Advance(t)
  /\ UNCHANGED <<rows, net, history, counters>>

\* send_activity hands the activity to the delivery and returns.
Send(t) ==
  LET u == user[t]
      v == peer[t] IN
  /\ AtCall(t, "send")
  /\ net' = net \cup {[kind |-> Sends[op[t]], from |-> u, to |-> v,
                       id |-> id[t], follow |-> ref[t]]}
  /\ untold' = untold \cup Untold(t)
  /\ Advance(t)
  /\ UNCHANGED <<rows, saved, granted, late, breached, counters>>

\* ApObjectHandler is told to remove all content of the actor.
OnActorRemoved(t) ==
  /\ AtCall(t, "on_actor_removed")
  /\ Advance(t)
  /\ UNCHANGED <<rows, net, history, counters>>

\* Fetching an actor and publishing an event change nothing kept here.
OtherCall(t) ==
  /\ AtCall(t, "dereference") \/ AtCall(t, "publish")
  /\ Advance(t)
  /\ UNCHANGED <<rows, net, history, counters>>

Mishap == mishaps < MaxMishaps /\ mishaps' = mishaps + 1

\* A call fails: a Logged one is skipped, any other ends the operation.
CallFails(t) ==
  /\ Running(t)
  /\ Mishap
  /\ breached' = IF op[t] \in {"block_actor", "Block"} /\ AtCall(t, "remove_follower")
                 THEN breached \cup {<<user[t], peer[t]>>} ELSE breached
  /\ late' = late \ {t}
  /\ IF Steps(op[t])[pc[t]].mode = "logged" THEN Advance(t) ELSE End(t)
  /\ UNCHANGED <<rows, net, saved, granted, untold, operations>>

-----------------------------------------------------------------------------
\* The sender gives up on an activity, or its handler failed after the dedup.
Lose(m) ==
  /\ Mishap
  /\ net' = net \ {m}
  /\ UNCHANGED <<rows, taskVars, history, operations>>

\* A server restarts: its tasks are gone, its repositories stay.
Crash(s) ==
  LET gone == {t \in Tasks : Running(t) /\ Home[user[t]] = s} IN
  /\ Mishap
  /\ gone # {}
  /\ op' = [t \in Tasks |-> IF t \in gone THEN "idle" ELSE op[t]]
  /\ user' = [t \in Tasks |-> IF t \in gone THEN NoUser ELSE user[t]]
  /\ peer' = [t \in Tasks |-> IF t \in gone THEN NoUser ELSE peer[t]]
  /\ id' = [t \in Tasks |-> IF t \in gone THEN 0 ELSE id[t]]
  /\ ref' = [t \in Tasks |-> IF t \in gone THEN 0 ELSE ref[t]]
  /\ pc' = [t \in Tasks |-> IF t \in gone THEN 1 ELSE pc[t]]
  /\ late' = late \ gone
  /\ breached' = breached \cup
       {<<user[t], peer[t]>> : t \in {x \in gone : op[x] = "block_actor" /\ pc[x] = 2}}
  /\ UNCHANGED <<rows, net, saved, granted, untold, operations>>

Step(t) ==
  \/ AddFollowing(t)
  \/ RemoveFollowing(t)
  \/ UpdateFollowingStatus(t)
  \/ AddFollower(t)
  \/ RemoveFollower(t)
  \/ UpdateFollowerStatus(t)
  \/ ReadFollowId(t)
  \/ AddBlockedActor(t)
  \/ RemoveBlockedActor(t)
  \/ IsActorBlocked(t)
  \/ Send(t)
  \/ OnActorRemoved(t)
  \/ OtherCall(t)
  \/ CallFails(t)

Next ==
  \/ \E t \in Tasks : Step(t)
  \/ \E t \in Tasks, s \in Scripts : Start(t, s[1], s[2], s[3])
  \/ \E t \in Tasks, m \in net : Receive(t, m)
  \/ \E m \in net : Lose(m)
  \/ \E s \in Servers : Crash(s)

Spec == Init /\ [][Next]_vars

\* Every task runs on, every activity is delivered, and a user who has a pending
\* follower accepts it.
Approve(v, u) ==
  follower[v][u] = "Pending" /\ \E t \in Tasks : Start(t, "accept_follower", v, u)

FairSpec ==
  /\ Spec
  /\ \A t \in Tasks : WF_vars(Step(t))
  /\ WF_vars(\E t \in Tasks, m \in net : Receive(t, m))
  /\ \A u, v \in Users : SF_vars(Approve(v, u))

-----------------------------------------------------------------------------
(* Properties.                                                             *)

Statuses == {"none", "Pending", "Accepted"}

Activities == [kind : Handled, from : Users, to : Users, id : Ids, follow : Ids]

RowTypes ==
  /\ following \in [Users -> [Users -> Statuses]]
  /\ followingId \in [Users -> [Users -> Ids]]
  /\ follower \in [Users -> [Users -> Statuses]]
  /\ followerId \in [Users -> [Users -> Ids]]
  /\ blocked \in [Users -> SUBSET Users]

TaskTypes ==
  /\ op \in [Tasks -> Operations \cup Handled \cup {"idle"}]
  /\ user \in [Tasks -> Users \cup {NoUser}]
  /\ peer \in [Tasks -> Users \cup {NoUser}]
  /\ id \in [Tasks -> Ids]
  /\ ref \in [Tasks -> Ids]
  /\ pc \in [Tasks -> 1..4]
  /\ \A t \in Tasks :
       IF Running(t)
       THEN user[t] \in Users /\ peer[t] \in Users /\ pc[t] \in DOMAIN Steps(op[t])
       ELSE pc[t] = 1

HistoryTypes ==
  /\ saved \in [Users -> [Users -> SUBSET Ids]]
  /\ granted \subseteq Users \X Users
  /\ late \subseteq Tasks
  /\ breached \subseteq Users \X Users
  /\ untold \subseteq Users \X Users

CounterTypes == operations \in Ids /\ mishaps \in 0..MaxMishaps

\* The type invariant; a running task is at a call of its operation.
TypeOK == RowTypes /\ net \subseteq Activities /\ TaskTypes /\ HistoryTypes /\ CounterTypes

\* follow() saves before it delivers, so whatever the other server does and
\* however activities are reordered, an Accept can only be about a follow that
\* its receiver recorded for that very actor: no Accept meets a server that has
\* yet to write, or lost with a restart, the follow it answers.
AcceptAnswersSavedFollow ==
  \A m \in net : m.kind = "Accept" => m.follow \in saved[m.to][m.from]

\* A follow is shown as accepted only if the followed user accepted the
\* follower, and an incoming follow only if the user accepted it.
AcceptedWasGranted ==
  \A u, v \in Users :
    /\ following[u][v] = "Accepted" => <<v, u>> \in granted
    /\ follower[u][v] = "Accepted" => <<u, v>> \in granted

\* A blocked actor is not a follower, pending or accepted: blocking removes it
\* and the Follow handler turns it away.  The exceptions are the two windows
\* between a check and its use (history variable breached), an error of
\* remove_follower, which is only logged, a restart in the middle of
\* block_actor, and the moment before block_actor removes the follower.
BlockedIsNoFollower ==
  \A u, v \in Users :
    v \in blocked[u] /\ follower[u][v] # "none" =>
      \/ <<u, v>> \in breached
      \/ \E t \in Tasks : Doing(t, "block_actor", u, v, 2)

Settled(u, v) ==
  /\ \A t \in Tasks : ~ {user[t], peer[t]} = {u, v}
  /\ \A m \in net : ~ {m.from, m.to} = {u, v}

\* When all is done between two users and no call failed and nothing was lost,
\* a single follow has the same outcome on both servers: the follower believes
\* it is accepted only if the followed user has it as an accepted follower.
\* Exempt are remove_follower and mark_follower_rejected, which tell the other
\* server nothing, and an end of the follow that came before it was recorded.
SettledAgreement ==
  \A u, v \in Users :
    /\ Settled(u, v)
    /\ mishaps = 0
    /\ Cardinality(saved[u][v]) = 1
    /\ <<u, v>> \notin untold
    /\ following[u][v] = "Accepted"
    => follower[v][u] = "Accepted"

\* A follow of a user who accepts its followers is eventually accepted: with
\* two servers, activities in any order and follows repeated before they are
\* answered.  (Or the bound on operations leaves no operation to accept with.)
FollowIsAccepted ==
  \A u, v \in Users :
    following[u][v] = "Pending" ~>
      following[u][v] = "Accepted" \/ operations = MaxOperations

\* content.rs says on_actor_removed means that the actor "was deleted or has
\* unfollowed all local users": when the handler of an Undo(Follow) has removed the
\* follower whose Follow the actor took back, and comes to on_actor_removed, no
\* user of this server has the actor as a follower.
RemovedActorFollowsNobody ==
  [][\A t \in Tasks :
       LET u == user[t]
           v == peer[t] IN
       /\ op[t] = "UndoFollow" /\ AtCall(t, "on_actor_removed")'
       /\ follower[u][v] # "none" /\ followerId[u][v] < id[t]
       => \A w \in Users : Home[w] = Home[u] => follower'[w][v] = "none"]_vars

\* The task has handed its activity to the delivery.
HandedOver(t) == \E n \in 1 .. pc[t] - 1 : Steps(op[t])[n].name = "send"

\* CHANGELOG: unblock_actor sends the Undo(Block) "before removing them from the
\* local blocklist": when it takes a blocked actor off the list, it has sent it.
UndoBlockSentBeforeUnblocking ==
  [][\A t \in Tasks :
       /\ op[t] = "unblock_actor"
       /\ peer[t] \in blocked[user[t]] \ blocked'[user[t]]
       => HandedOver(t)]_vars
=============================================================================
