---------------------------- MODULE FollowsProofs ----------------------------
(***************************************************************************)
(* Proofs about Follows, for all users, servers, scripts, tasks and        *)
(* bounds: the types, that an Accept is about a follow its receiver        *)
(* recorded, that only granted follows are accepted, that a blocked user   *)
(* is no follower, and that a single follow has one outcome on both sides. *)
(***************************************************************************)
EXTENDS Follows, FiniteSetTheorems, TLAPS

-----------------------------------------------------------------------------
(* What the call tables say.                                               *)

\* The calls of an operation are numbered from 1, and there are at most four.
LEMMA StepsNumbered ==
  \A o \in Operations \cup Handled :
    \E n \in 1..4 : DOMAIN Steps(o) = 1..n /\ Len(Steps(o)) = n
<1> USE DEF Steps, Operations, Handled, ServiceCalls, HandlerCalls
<1>1. \A o \in {"remove_follower", "mark_follower_accepted", "mark_follower_rejected",
                "Reject", "UndoBlock"} : DOMAIN Steps(o) = 1..1 /\ Len(Steps(o)) = 1
  BY DEF RemoveFollowerOp, MarkFollowerAcceptedOp, MarkFollowerRejectedOp, RejectCalls,
         UndoBlockCalls
<1>2. \A o \in {"follow", "reject_follower", "unblock_actor", "Accept", "UndoFollow"} :
        DOMAIN Steps(o) = 1..2 /\ Len(Steps(o)) = 2
  BY DEF FollowOp, RejectFollowerOp, UnblockActorOp, AcceptCalls, UndoFollowCalls
<1>3. \A o \in {"unfollow", "accept_follower", "Block"} :
        DOMAIN Steps(o) = 1..3 /\ Len(Steps(o)) = 3
  BY DEF UnfollowOp, AcceptFollowerOp, BlockCalls
<1>4. \A o \in {"block_actor", "Follow"} : DOMAIN Steps(o) = 1..4 /\ Len(Steps(o)) = 4
  BY DEF BlockActorOp, FollowCalls
<1>5. QED
  BY <1>1, <1>2, <1>3, <1>4

\* Which operation makes which call, and as its how manieth.
LEMMA StepsNamed ==
  ASSUME NEW o \in Operations \cup Handled, NEW n \in DOMAIN Steps(o)
  PROVE  /\ Steps(o)[n].name = "send" =>
              /\ o \in DOMAIN Sends
              /\ Sends[o] \in Handled
              /\ Sends[o] = "Follow" => o = "follow" /\ n = 2
              /\ Sends[o] = "Accept" => o = "accept_follower" /\ n = 3
         /\ Steps(o)[n].name = "add_following" => o = "follow" /\ n = 1
         /\ Steps(o)[n].name = "add_follower" => o = "Follow"
         /\ Steps(o)[n].name = "update_following_status" => o = "Accept"
         /\ Steps(o)[n].name = "update_follower_status" =>
              o \in {"accept_follower", "mark_follower_accepted"}
         /\ Steps(o)[n].name = "get_follower_follow_activity_id" =>
              o = "accept_follower" /\ n = 1
         /\ o = "accept_follower" =>
              /\ n = 1 => Steps(o)[n].name = "get_follower_follow_activity_id"
              /\ n = 2 => Steps(o)[n].name = "update_follower_status"
         /\ o = "follow" /\ n = 1 => Steps(o)[n].name = "add_following"
<1> USE DEF Steps, Operations, Handled, ServiceCalls, HandlerCalls, Fatal, Logged, Check,
            Call, Sends
<1>1. CASE o \in {"follow", "accept_follower", "Accept", "Follow"}
  BY <1>1 DEF FollowOp, AcceptFollowerOp, AcceptCalls, FollowCalls
<1>2. CASE o \in {"reject_follower", "unfollow", "block_actor", "unblock_actor"}
  BY <1>2 DEF RejectFollowerOp, UnfollowOp, BlockActorOp, UnblockActorOp
<1>3. CASE o \in {"remove_follower", "mark_follower_accepted", "mark_follower_rejected"}
  BY <1>3 DEF RemoveFollowerOp, MarkFollowerAcceptedOp, MarkFollowerRejectedOp
<1>4. CASE o \in {"Reject", "UndoFollow", "Block", "UndoBlock"}
  BY <1>4 DEF RejectCalls, UndoFollowCalls, BlockCalls, UndoBlockCalls
<1>5. QED
  BY <1>1, <1>2, <1>3, <1>4

\* The calls that matter to blocks.
LEMMA BlockSteps ==
  ASSUME NEW o \in Operations \cup Handled, NEW n \in DOMAIN Steps(o)
  PROVE  /\ Steps(o)[n].name = "add_follower" => o = "Follow" /\ n = 4
         /\ Steps(o)[n].name = "is_actor_blocked" => o = "Follow" /\ n = 1
         /\ o = "Follow" /\ n = 1 => Steps(o)[n].name = "is_actor_blocked"
         /\ o \in {"Block", "block_actor"} /\ n = 2 => Steps(o)[n].name = "remove_follower"
         /\ Steps(o)[n].name = "add_blocked_actor" =>
              (o = "block_actor" /\ n = 1) \/ (o = "Block" /\ n = 3)
         /\ o = "Follow" => Steps(o)[n].mode # "logged"
<1> USE DEF Steps, Operations, Handled, ServiceCalls, HandlerCalls, Fatal, Logged, Check, Call
<1>1. CASE o = "follow"
  BY <1>1 DEF FollowOp
<1>2. CASE o = "accept_follower"
  BY <1>2 DEF AcceptFollowerOp
<1>3. CASE o = "reject_follower"
  BY <1>3 DEF RejectFollowerOp
<1>4. CASE o = "unfollow"
  BY <1>4 DEF UnfollowOp
<1>5. CASE o = "block_actor"
  BY <1>5 DEF BlockActorOp
<1>6. CASE o = "unblock_actor"
  BY <1>6 DEF UnblockActorOp
<1>7. CASE o \in {"remove_follower", "mark_follower_accepted", "mark_follower_rejected"}
  BY <1>7 DEF RemoveFollowerOp, MarkFollowerAcceptedOp, MarkFollowerRejectedOp
<1>8. CASE o = "Accept"
  <2>1. Steps(o) = AcceptCalls /\ DOMAIN AcceptCalls = 1..2
    BY <1>8 DEF AcceptCalls
  <2>2. \A k \in 1..2 : AcceptCalls[k].name \in {"update_following_status", "publish"}
    BY DEF AcceptCalls
  <2>3. QED
    BY <1>8, <2>1, <2>2
<1>9. CASE o \in {"Reject", "UndoFollow", "UndoBlock"}
  BY <1>9 DEF RejectCalls, UndoFollowCalls, UndoBlockCalls
<1>10. CASE o = "Block"
  BY <1>10 DEF BlockCalls
<1>11. CASE o = "Follow"
  <2>1. Steps(o) = FollowCalls /\ DOMAIN FollowCalls = 1..4
    BY <1>11 DEF FollowCalls
  <2>2. \A k \in 1..4 : FollowCalls[k].mode # "logged"
    BY DEF FollowCalls
  <2>3. QED
    BY <1>11, <2>1, <2>2 DEF FollowCalls
<1>12. QED
  BY <1>1, <1>2, <1>3, <1>4, <1>5, <1>6, <1>7, <1>8, <1>9, <1>10, <1>11

\* An error of follow or accept_follower ends it.
LEMMA StepsFatal ==
  \A o \in {"follow", "accept_follower"} :
    \A n \in DOMAIN Steps(o) : Steps(o)[n].mode # "logged"
BY DEF Steps, Operations, ServiceCalls, FollowOp, AcceptFollowerOp, Fatal, Call

-----------------------------------------------------------------------------
(* Types.                                                                  *)

\* What the end of a call does to the tasks: t is idle, or at its next call.
Moved(t) ==
  /\ \A x \in Tasks \ {t} : UNCHANGED <<op[x], user[x], peer[x], id[x], ref[x], pc[x]>>
  /\ \/ op'[t] = "idle" /\ user'[t] = NoUser /\ peer'[t] = NoUser /\ pc'[t] = 1
     \/ UNCHANGED <<op[t], user[t], peer[t], id[t], ref[t]>> /\ pc'[t] = pc[t] + 1

LEMMA RunningTypes ==
  ASSUME TaskTypes, NEW t \in Tasks, Running(t)
  PROVE  /\ user[t] \in Users /\ peer[t] \in Users
         /\ op[t] \in Operations \cup Handled
         /\ pc[t] \in DOMAIN Steps(op[t])
         /\ id[t] \in Ids /\ ref[t] \in Ids
BY DEF TaskTypes, Running

LEMMA EndMoves ==
  ASSUME TaskTypes, NEW t \in Tasks, End(t)
  PROVE  TaskTypes' /\ Moved(t)
<1>1. 0 \in Ids
  BY FollowsAssumption DEF FollowsAssumption, Ids
<1>2. TaskTypes'
  BY <1>1 DEF TaskTypes, End, Running
<1>3. QED
  BY <1>2 DEF TaskTypes, End, Moved

LEMMA AdvanceMoves ==
  ASSUME TaskTypes, NEW t \in Tasks, Running(t), Advance(t)
  PROVE  TaskTypes' /\ Moved(t)
<1>1. CASE End(t)
  BY <1>1, EndMoves
<1>2. CASE pc[t] < Len(Steps(op[t])) /\ GoOn(t)
  <2>1. pc'[t] = pc[t] + 1 /\ pc'[t] \in DOMAIN Steps(op[t]) /\ pc'[t] \in 1..4
    BY <1>2, RunningTypes, StepsNumbered DEF GoOn, TaskTypes
  <2>2. TaskTypes'
    BY <1>2, <2>1 DEF TaskTypes, GoOn, Running
  <2>3. QED
    BY <1>2, <2>1, <2>2 DEF Moved, GoOn, TaskTypes
<1>3. QED
  BY <1>1, <1>2 DEF Advance

\* One step keeps the types.
LEMMA TypeStep == FollowsAssumption /\ TypeOK /\ [Next]_vars => TypeOK'
<1> SUFFICES ASSUME FollowsAssumption, TypeOK, [Next]_vars PROVE TypeOK'
  OBVIOUS
<1> USE DEF TypeOK
<1>1. ASSUME NEW t \in Tasks, NEW s \in Scripts, Start(t, s[1], s[2], s[3]) PROVE TypeOK'
  <2>1. s[1] \in Operations /\ s[2] \in Users /\ s[3] \in Users
    BY DEF FollowsAssumption, Operations
  <2>2. operations \in Nat /\ operations + 1 \in Ids /\ operations' = operations + 1
    BY <1>1 DEF Start, CounterTypes, Ids, FollowsAssumption
  <2>3. s[1] # "idle" /\ 1 \in DOMAIN Steps(s[1]) /\ pc[t] = 1
    BY <1>1, <2>1, StepsNumbered DEF Start, Operations, ServiceCalls, TaskTypes
  <2>4. TaskTypes'
    BY <1>1, <2>1, <2>2, <2>3 DEF Start, TaskTypes, Running
  <2>5. QED
    BY <1>1, <2>2, <2>4
       DEF Start, rows, history, RowTypes, HistoryTypes, CounterTypes
<1>2. ASSUME NEW t \in Tasks, NEW m \in net, Receive(t, m) PROVE TypeOK'
  <2>1. m.kind \in Handled /\ m.from \in Users /\ m.to \in Users /\ m.id \in Ids /\ m.follow \in Ids
    BY DEF Activities
  <2>2. m.kind # "idle" /\ 1 \in DOMAIN Steps(m.kind) /\ pc[t] = 1
    BY <1>2, <2>1, StepsNumbered DEF Receive, Handled, TaskTypes
  <2>3. TaskTypes'
    BY <1>2, <2>1, <2>2 DEF Receive, TaskTypes, Running
  <2>4. net' \subseteq Activities
    BY <1>2 DEF Receive
  <2>5. QED
    BY <1>2, <2>3, <2>4
       DEF Receive, rows, history, counters, RowTypes, HistoryTypes, CounterTypes
<1>3. ASSUME NEW t \in Tasks, Step(t) PROVE TypeOK'
  <2>1. Running(t)
    BY <1>3 DEF Step, AddFollowing, RemoveFollowing, UpdateFollowingStatus, AddFollower,
          RemoveFollower, UpdateFollowerStatus, ReadFollowId, AddBlockedActor,
          RemoveBlockedActor, IsActorBlocked, Send, OnActorRemoved, OtherCall, CallFails, AtCall
  <2>2. /\ user[t] \in Users /\ peer[t] \in Users /\ id[t] \in Ids /\ ref[t] \in Ids
        /\ op[t] \in Operations \cup Handled /\ pc[t] \in DOMAIN Steps(op[t])
    BY <2>1, RunningTypes
  <2>3. Untold(t) \subseteq Users \X Users
    BY <2>2 DEF Untold
  <2>4. Advance(t) \/ End(t) => TaskTypes'
    BY <2>1, AdvanceMoves, EndMoves
  <2> USE <2>2, <2>3, <2>4 DEF RowTypes, HistoryTypes, Statuses
  <2>5. CASE AddFollowing(t)
    BY <2>5 DEF AddFollowing, counters, CounterTypes
  <2>6. CASE RemoveFollowing(t)
    BY <2>6 DEF RemoveFollowing, counters, CounterTypes, Ids
  <2>7. CASE UpdateFollowingStatus(t)
    BY <2>7 DEF UpdateFollowingStatus, history, counters, CounterTypes
  <2>8. CASE AddFollower(t)
    BY <2>8 DEF AddFollower, counters, CounterTypes
  <2>9. CASE RemoveFollower(t)
    BY <2>9 DEF RemoveFollower, counters, CounterTypes, Ids
  <2>10. CASE UpdateFollowerStatus(t)
    BY <2>10 DEF UpdateFollowerStatus, counters, CounterTypes
  <2>11. CASE ReadFollowId(t)
    <3>1. CASE End(t)
      BY <2>11, <3>1 DEF ReadFollowId, rows, history, counters, CounterTypes
    <3>2. CASE /\ ref' = [ref EXCEPT ![t] = followerId[user[t]][peer[t]]]
               /\ pc' = [pc EXCEPT ![t] = @ + 1]
               /\ UNCHANGED <<op, user, peer, id>>
      <4>1. op[t] = "accept_follower" /\ pc[t] = 1
        BY <2>11, StepsNamed DEF ReadFollowId, AtCall
      <4>2. pc'[t] = 2 /\ 2 \in DOMAIN Steps(op[t])
        BY <3>2, <4>1 DEF TaskTypes, Steps, Operations, ServiceCalls, AcceptFollowerOp
      <4>3. followerId[user[t]][peer[t]] \in Ids
        OBVIOUS
      <4>4. ref' \in [Tasks -> Ids] /\ pc' \in [Tasks -> 1..4]
        BY <3>2, <4>1, <4>2, <4>3 DEF TaskTypes
      <4>5. \A x \in Tasks : x # t => pc'[x] = pc[x]
        BY <3>2 DEF TaskTypes
      <4>6. ASSUME NEW x \in Tasks
            PROVE  IF op[x] # "idle"
                   THEN user[x] \in Users /\ peer[x] \in Users /\ pc'[x] \in DOMAIN Steps(op[x])
                   ELSE pc'[x] = 1
        BY <2>1, <4>2, <4>5 DEF TaskTypes, Running
      <4>7. TaskTypes'
        BY <3>2, <4>4, <4>6 DEF TaskTypes, Running
      <4>8. QED
        BY <2>11, <4>7 DEF ReadFollowId, rows, history, counters, CounterTypes
    <3>3. QED
      BY <2>11, <3>1, <3>2 DEF ReadFollowId
  <2>12. CASE AddBlockedActor(t)
    BY <2>12 DEF AddBlockedActor, counters, CounterTypes
  <2>13. CASE RemoveBlockedActor(t)
    BY <2>13 DEF RemoveBlockedActor, history, counters, CounterTypes
  <2>14. CASE IsActorBlocked(t)
    BY <2>14 DEF IsActorBlocked, rows, history, counters, CounterTypes
  <2>15. CASE Send(t)
    <3>1. op[t] \in DOMAIN Sends /\ Sends[op[t]] \in Handled
      BY <2>15, StepsNamed DEF Send, AtCall
    <3>2. net' \subseteq Activities
      BY <2>15, <3>1 DEF Send, Activities
    <3>3. QED
      BY <2>15, <3>2 DEF Send, rows, counters, CounterTypes
  <2>16. CASE OnActorRemoved(t)
    BY <2>16 DEF OnActorRemoved, rows, history, counters, CounterTypes
  <2>17. CASE OtherCall(t)
    BY <2>17 DEF OtherCall, rows, history, counters, CounterTypes
  <2>18. CASE CallFails(t)
    <3>1. CounterTypes'
      BY <2>18 DEF CallFails, Mishap, CounterTypes, FollowsAssumption
    <3>2. QED
      BY <2>18, <3>1 DEF CallFails, rows
  <2>19. QED
    BY <1>3, <2>5, <2>6, <2>7, <2>8, <2>9, <2>10, <2>11, <2>12, <2>13, <2>14, <2>15,
       <2>16, <2>17, <2>18 DEF Step
<1>4. ASSUME NEW m \in net, Lose(m) PROVE TypeOK'
  <2>1. CounterTypes'
    BY <1>4 DEF Lose, Mishap, CounterTypes, FollowsAssumption
  <2>2. QED
    BY <1>4, <2>1
       DEF Lose, rows, taskVars, history, RowTypes, TaskTypes, Running, HistoryTypes
<1>5. ASSUME NEW s \in Servers, Crash(s) PROVE TypeOK'
  <2>1. TaskTypes'
    BY <1>5 DEF Crash, TaskTypes, Running, Ids, FollowsAssumption
  <2>2. HistoryTypes'
    BY <1>5 DEF Crash, TaskTypes, HistoryTypes, Running
  <2>3. CounterTypes'
    BY <1>5 DEF Crash, Mishap, CounterTypes, FollowsAssumption
  <2>4. QED
    BY <1>5, <2>1, <2>2, <2>3 DEF Crash, rows, RowTypes
<1>6. CASE UNCHANGED vars
  BY <1>6 DEF vars, rows, taskVars, history, counters, RowTypes, TaskTypes, Running,
              HistoryTypes, CounterTypes
<1>7. QED
  BY <1>1, <1>2, <1>3, <1>4, <1>5, <1>6 DEF Next

\* The variables of Follows keep their types, and a running task is always at
\* a call of its operation.
THEOREM TypeCorrect == Spec => []TypeOK
<1>1. Init => TypeOK
  BY FollowsAssumption
     DEF Init, TypeOK, RowTypes, TaskTypes, HistoryTypes, CounterTypes, Statuses, Ids, Running,
         FollowsAssumption
<1>2. TypeOK /\ [Next]_vars => TypeOK'
  BY TypeStep, FollowsAssumption
<1>3. QED
  BY <1>1, <1>2, PTL DEF Spec

-----------------------------------------------------------------------------
(* An Accept is about a follow its receiver recorded.                      *)

\* Follows and Accepts on their way are about a recorded follow, and so are
\* follower rows, and the tasks that will send an Accept or add a follower.
\* follow() is the source of all: from its second call on, its own is recorded.
NetSaved ==
  \A m \in net :
    /\ m.kind = "Follow" => m.follow \in saved[m.from][m.to]
    /\ m.kind = "Accept" => m.follow \in saved[m.to][m.from]

RowSaved ==
  \A u, v \in Users : follower[u][v] # "none" => followerId[u][v] \in saved[v][u]

TaskSaved(t) ==
  /\ op[t] = "follow" =>
       ref[t] = id[t] /\ (pc[t] # 1 => ref[t] \in saved[user[t]][peer[t]])
  /\ op[t] = "Follow" => ref[t] \in saved[peer[t]][user[t]]
  /\ op[t] = "accept_follower" /\ pc[t] # 1 => ref[t] \in saved[peer[t]][user[t]]

SavedInv == NetSaved /\ RowSaved /\ \A t \in Tasks : TaskSaved(t)

\* Recorded follows stay recorded.
SavedGrows == \A u, v \in Users : saved[u][v] \subseteq saved'[u][v]

\* A task that moves on keeps TaskSaved, unless it passes the call that
\* establishes it.
LEMMA TaskSavedMoves ==
  ASSUME TypeOK, SavedInv, SavedGrows, NEW t \in Tasks, Running(t), Moved(t),
         op[t] = "follow" /\ pc[t] = 1 =>
           op'[t] = "idle" \/ ref[t] \in saved'[user[t]][peer[t]],
         op[t] = "accept_follower" /\ pc[t] = 1 => op'[t] = "idle"
  PROVE  \A x \in Tasks : TaskSaved(x)'
<1>1. ASSUME NEW x \in Tasks, x # t PROVE TaskSaved(x)'
  <2>1. UNCHANGED <<op[x], user[x], peer[x], id[x], ref[x], pc[x]>>
    BY <1>1 DEF Moved
  <2>2. Running(x) => user[x] \in Users /\ peer[x] \in Users
    BY DEF TypeOK, TaskTypes
  <2>3. QED
    BY <2>1, <2>2 DEF SavedInv, TaskSaved, SavedGrows, Running
<1>2. TaskSaved(t)'
  <2>1. CASE op'[t] = "idle"
    BY <2>1 DEF TaskSaved
  <2>2. CASE UNCHANGED <<op[t], user[t], peer[t], id[t], ref[t]>>
    <3>1. user[t] \in Users /\ peer[t] \in Users
      BY RunningTypes DEF TypeOK
    <3>2. QED
      BY <2>2, <3>1 DEF SavedInv, TaskSaved, SavedGrows
  <2>3. QED
    BY <2>1, <2>2 DEF Moved
<1>3. QED
  BY <1>1, <1>2

\* Taking activities off the net and removing rows keeps the rest.
LEMMA RestSaved ==
  ASSUME TypeOK, SavedInv, SavedGrows, net' \subseteq net,
         \A u, v \in Users : follower'[u][v] # "none" =>
           follower[u][v] # "none" /\ followerId'[u][v] = followerId[u][v]
  PROVE  NetSaved' /\ RowSaved'
<1>1. NetSaved'
  BY DEF TypeOK, Activities, SavedInv, NetSaved, SavedGrows
<1>2. RowSaved'
  BY DEF SavedInv, RowSaved, SavedGrows
<1>3. QED
  BY <1>1, <1>2

\* A step of a task.
LEMMA TaskStepSaved ==
  ASSUME TypeOK, SavedInv, NEW t \in Tasks, Step(t)
  PROVE  SavedInv'
<1>1. Running(t)
  BY DEF Step, AddFollowing, RemoveFollowing, UpdateFollowingStatus, AddFollower,
         RemoveFollower, UpdateFollowerStatus, ReadFollowId, AddBlockedActor,
         RemoveBlockedActor, IsActorBlocked, Send, OnActorRemoved, OtherCall, CallFails, AtCall
<1>2. /\ user[t] \in Users /\ peer[t] \in Users
      /\ op[t] \in Operations \cup Handled /\ pc[t] \in DOMAIN Steps(op[t])
  BY <1>1, RunningTypes DEF TypeOK
<1>3. Advance(t) \/ End(t) => Moved(t)
  BY <1>1, AdvanceMoves, EndMoves DEF TypeOK
<1>4. UNCHANGED saved => SavedGrows
  BY DEF SavedGrows
\* The first call of follow and the first of accept_follower.
<1>5. AtCall(t, Steps(op[t])[pc[t]].name)
  BY <1>1 DEF AtCall
<1>6. /\ op[t] = "follow" /\ pc[t] = 1 => AtCall(t, "add_following")
      /\ op[t] = "accept_follower" /\ pc[t] = 1 => AtCall(t, "get_follower_follow_activity_id")
  BY <1>1, <1>2, StepsNamed DEF AtCall
<1>7. CASE AddFollowing(t)
  <2>1. op[t] = "follow" /\ pc[t] = 1
    BY <1>2, <1>7, StepsNamed DEF AddFollowing, AtCall
  <2>2. SavedGrows /\ id[t] \in saved'[user[t]][peer[t]]
    BY <1>2, <1>7 DEF AddFollowing, SavedGrows, TypeOK, HistoryTypes
  <2>3. ref[t] = id[t]
    BY <2>1 DEF SavedInv, TaskSaved
  <2>4. NetSaved' /\ RowSaved'
    BY <1>7, <2>2, RestSaved DEF AddFollowing
  <2>5. QED
    BY <1>1, <1>3, <1>7, <2>1, <2>2, <2>3, <2>4, TaskSavedMoves DEF AddFollowing, SavedInv
<1>8. CASE AddFollower(t)
  <2>1. op[t] = "Follow"
    BY <1>2, <1>8, StepsNamed DEF AddFollower, AtCall
  <2>2. ref[t] \in saved[peer[t]][user[t]]
    BY <2>1 DEF SavedInv, TaskSaved
  <2>3. RowSaved'
    BY <1>2, <1>8, <2>2 DEF AddFollower, SavedInv, RowSaved, TypeOK, RowTypes
  <2>4. NetSaved'
    BY <1>8 DEF AddFollower, SavedInv, NetSaved
  <2>5. QED
    BY <1>1, <1>3, <1>4, <1>8, <2>1, <2>3, <2>4, TaskSavedMoves DEF AddFollower, SavedInv
<1>9. CASE ReadFollowId(t)
  <2>1. op[t] = "accept_follower" /\ pc[t] = 1
    BY <1>2, <1>9, StepsNamed DEF ReadFollowId, AtCall
  <2>2. SavedGrows /\ NetSaved' /\ RowSaved'
    BY <1>4, <1>9, RestSaved DEF ReadFollowId, rows, history
  <2>3. CASE End(t)
    <3>1. op'[t] = "idle"
      BY <2>3 DEF End, TypeOK, TaskTypes
    <3>2. QED
      BY <1>1, <1>3, <2>1, <2>2, <2>3, <3>1, TaskSavedMoves DEF SavedInv
  <2>4. CASE /\ follower[user[t]][peer[t]] # "none"
             /\ ref' = [ref EXCEPT ![t] = followerId[user[t]][peer[t]]]
             /\ pc' = [pc EXCEPT ![t] = @ + 1]
             /\ UNCHANGED <<op, user, peer, id>>
    <3>1. followerId[user[t]][peer[t]] \in saved[peer[t]][user[t]]
      BY <1>2, <2>4 DEF SavedInv, RowSaved
    <3>2. UNCHANGED saved
      BY <1>9 DEF ReadFollowId, history
    <3>3. TaskSaved(t)'
      BY <2>1, <2>4, <3>1, <3>2 DEF TaskSaved, TypeOK, TaskTypes
    <3>4. ASSUME NEW x \in Tasks, x # t PROVE TaskSaved(x)'
      BY <2>4, <3>2, <3>4 DEF SavedInv, TaskSaved, TypeOK, TaskTypes
    <3>5. QED
      BY <2>2, <3>3, <3>4 DEF SavedInv
  <2>5. QED
    BY <1>9, <2>3, <2>4 DEF ReadFollowId
<1>10. CASE Send(t)
  <2>1. ~ (op[t] = "follow" /\ pc[t] = 1) /\ ~ (op[t] = "accept_follower" /\ pc[t] = 1)
    BY <1>6, <1>10 DEF Send, AtCall
  <2>2. RowSaved'
    BY <1>10 DEF Send, rows, SavedInv, RowSaved
  <2>3. DEFINE m == [kind |-> Sends[op[t]], from |-> user[t], to |-> peer[t],
                     id |-> id[t], follow |-> ref[t]]
  <2>4. m.kind = "Follow" => m.follow \in saved[m.from][m.to]
    BY <1>2, <1>10, <2>1, StepsNamed DEF Send, AtCall, SavedInv, TaskSaved
  <2>5. m.kind = "Accept" => m.follow \in saved[m.to][m.from]
    BY <1>2, <1>10, <2>1, StepsNamed DEF Send, AtCall, SavedInv, TaskSaved
  <2>6. NetSaved'
    BY <1>10, <2>4, <2>5 DEF Send, SavedInv, NetSaved
  <2>7. QED
    BY <1>1, <1>3, <1>4, <1>10, <2>1, <2>2, <2>6, TaskSavedMoves DEF Send, SavedInv
<1>11. CASE CallFails(t)
  <2>1. op[t] \in {"follow", "accept_follower"} => End(t)
    BY <1>2, <1>11, StepsFatal DEF CallFails
  <2>2. op[t] \in {"follow", "accept_follower"} => op'[t] = "idle"
    BY <2>1 DEF End, TypeOK, TaskTypes
  <2>3. SavedGrows /\ NetSaved' /\ RowSaved'
    BY <1>4, <1>11, RestSaved DEF CallFails, rows
  <2>4. QED
    BY <1>1, <1>3, <1>11, <2>2, <2>3, TaskSavedMoves DEF CallFails, SavedInv
<1>12. CASE \/ RemoveFollowing(t) \/ UpdateFollowingStatus(t) \/ RemoveFollower(t)
            \/ UpdateFollowerStatus(t) \/ AddBlockedActor(t) \/ RemoveBlockedActor(t)
            \/ IsActorBlocked(t) \/ OnActorRemoved(t) \/ OtherCall(t)
  <2>1. ~ (op[t] = "follow" /\ pc[t] = 1) /\ ~ (op[t] = "accept_follower" /\ pc[t] = 1)
    BY <1>6, <1>12
       DEF RemoveFollowing, UpdateFollowingStatus, RemoveFollower, UpdateFollowerStatus,
           AddBlockedActor, RemoveBlockedActor, IsActorBlocked, OnActorRemoved, OtherCall, AtCall
  <2>2. UNCHANGED <<saved, net>> /\ Moved(t)
    BY <1>3, <1>12
       DEF RemoveFollowing, UpdateFollowingStatus, RemoveFollower, UpdateFollowerStatus,
           AddBlockedActor, RemoveBlockedActor, IsActorBlocked, OnActorRemoved, OtherCall,
           rows, history
  <2>3. \A u, v \in Users : follower'[u][v] # "none" =>
          follower[u][v] # "none" /\ followerId'[u][v] = followerId[u][v]
    <3>1. CASE RemoveFollower(t)
      BY <1>2, <3>1 DEF RemoveFollower, TypeOK, RowTypes
    <3>2. CASE UpdateFollowerStatus(t)
      BY <1>2, <3>2 DEF UpdateFollowerStatus, TypeOK, RowTypes
    <3>3. CASE UNCHANGED <<follower, followerId>>
      BY <3>3
    <3>4. QED
      BY <1>12, <3>1, <3>2, <3>3
         DEF RemoveFollowing, UpdateFollowingStatus, AddBlockedActor, RemoveBlockedActor,
             IsActorBlocked, OnActorRemoved, OtherCall, rows
  <2>4. QED
    BY <1>1, <1>4, <2>1, <2>2, <2>3, TaskSavedMoves, RestSaved DEF SavedInv
<1>13. QED
  BY <1>7, <1>8, <1>9, <1>10, <1>11, <1>12 DEF Step

LEMMA SavedStep == TypeOK /\ SavedInv /\ [Next]_vars => SavedInv'
<1> SUFFICES ASSUME TypeOK, SavedInv, [Next]_vars PROVE SavedInv'
  OBVIOUS
<1>1. UNCHANGED saved => SavedGrows
  BY DEF SavedGrows
<1>2. ASSUME NEW t \in Tasks, Step(t) PROVE SavedInv'
  BY <1>2, TaskStepSaved
<1>3. ASSUME NEW t \in Tasks, NEW s \in Scripts, Start(t, s[1], s[2], s[3]) PROVE SavedInv'
  <2>1. NetSaved' /\ RowSaved'
    BY <1>1, <1>3, RestSaved DEF Start, rows, history
  <2>2. TaskSaved(t)'
    BY <1>3, FollowsAssumption
       DEF Start, TaskSaved, TypeOK, TaskTypes, FollowsAssumption, ServiceCalls
  <2>3. ASSUME NEW x \in Tasks, x # t PROVE TaskSaved(x)'
    BY <1>3, <2>3 DEF Start, history, SavedInv, TaskSaved, TypeOK, TaskTypes
  <2>4. QED
    BY <2>1, <2>2, <2>3 DEF SavedInv
<1>4. ASSUME NEW t \in Tasks, NEW m \in net, Receive(t, m) PROVE SavedInv'
  <2>1. NetSaved' /\ RowSaved'
    BY <1>1, <1>4, RestSaved DEF Receive, rows, history
  <2>2. m.kind = "Follow" => m.follow \in saved[m.from][m.to]
    BY DEF SavedInv, NetSaved
  <2>3. m.kind \in Handled
    BY DEF TypeOK, Activities
  <2>4. TaskSaved(t)'
    BY <1>4, <2>2, <2>3 DEF Receive, history, TaskSaved, TypeOK, TaskTypes, Handled
  <2>5. ASSUME NEW x \in Tasks, x # t PROVE TaskSaved(x)'
    BY <1>4, <2>5 DEF Receive, history, SavedInv, TaskSaved, TypeOK, TaskTypes
  <2>6. QED
    BY <2>1, <2>4, <2>5 DEF SavedInv
<1>5. ASSUME NEW m \in net, Lose(m) PROVE SavedInv'
  <2>1. NetSaved' /\ RowSaved'
    BY <1>1, <1>5, RestSaved DEF Lose, rows, history
  <2>2. QED
    BY <1>5, <2>1 DEF Lose, taskVars, history, SavedInv, TaskSaved
<1>6. ASSUME NEW s \in Servers, Crash(s) PROVE SavedInv'
  <2>1. NetSaved' /\ RowSaved'
    BY <1>1, <1>6, RestSaved DEF Crash, rows
  <2>2. ASSUME NEW x \in Tasks PROVE TaskSaved(x)'
    BY <1>6 DEF Crash, SavedInv, TaskSaved
  <2>3. QED
    BY <2>1, <2>2 DEF SavedInv
<1>7. CASE UNCHANGED vars
  BY <1>7 DEF vars, rows, taskVars, history, SavedInv, NetSaved, RowSaved, TaskSaved
<1>8. QED
  BY <1>2, <1>3, <1>4, <1>5, <1>6, <1>7 DEF Next

\* Whatever the other server does and in whatever order activities arrive, an
\* Accept is about a follow that its receiver recorded for its sender: follow()
\* writes before it sends.
THEOREM AcceptAnswersSavedFollowHolds == Spec => []AcceptAnswersSavedFollow
<1>1. Init => SavedInv
  BY DEF Init, SavedInv, NetSaved, RowSaved, TaskSaved
<1>2. SavedInv => AcceptAnswersSavedFollow
  BY DEF SavedInv, NetSaved, AcceptAnswersSavedFollow
<1>3. QED
  BY <1>1, <1>2, SavedStep, TypeCorrect, PTL DEF Spec

-----------------------------------------------------------------------------
(* Only granted follows are accepted.                                      *)

\* Accepts on their way, the tasks that handle one and those about to send one
\* are about an actor the user has accepted.
NetGranted == \A m \in net : m.kind = "Accept" => <<m.from, m.to>> \in granted

TaskGranted(t) ==
  /\ op[t] = "Accept" => <<peer[t], user[t]>> \in granted
  /\ op[t] = "accept_follower" /\ pc[t] = 3 => <<user[t], peer[t]>> \in granted

GrantedInv == NetGranted /\ AcceptedWasGranted /\ \A t \in Tasks : TaskGranted(t)

\* A task that moves on keeps TaskGranted, unless it is at the call that
\* establishes it.
LEMMA TaskGrantedMoves ==
  ASSUME TypeOK, GrantedInv, granted \subseteq granted', NEW t \in Tasks, Running(t), Moved(t),
         op[t] = "accept_follower" /\ pc[t] = 2 =>
           op'[t] = "idle" \/ <<user[t], peer[t]>> \in granted'
  PROVE  \A x \in Tasks : TaskGranted(x)'
<1>1. ASSUME NEW x \in Tasks, x # t PROVE TaskGranted(x)'
  BY <1>1 DEF Moved, GrantedInv, TaskGranted
<1>2. pc[t] \in 1..4
  BY DEF TypeOK, TaskTypes
<1>3. TaskGranted(t)'
  BY <1>2 DEF Moved, GrantedInv, TaskGranted
<1>4. QED
  BY <1>1, <1>3

\* Where no row turns accepted and no activity is added, the rest is kept.
LEMMA RestGranted ==
  ASSUME TypeOK, GrantedInv, granted \subseteq granted', net' \subseteq net,
         \A u, v \in Users :
           /\ following'[u][v] = "Accepted" => following[u][v] = "Accepted"
           /\ follower'[u][v] = "Accepted" => follower[u][v] = "Accepted"
  PROVE  NetGranted' /\ AcceptedWasGranted'
BY DEF GrantedInv, NetGranted, AcceptedWasGranted

\* A step of a task.
LEMMA TaskStepGranted ==
  ASSUME TypeOK, GrantedInv, NEW t \in Tasks, Step(t)
  PROVE  GrantedInv'
<1>1. Running(t)
  BY DEF Step, AddFollowing, RemoveFollowing, UpdateFollowingStatus, AddFollower,
         RemoveFollower, UpdateFollowerStatus, ReadFollowId, AddBlockedActor,
         RemoveBlockedActor, IsActorBlocked, Send, OnActorRemoved, OtherCall, CallFails, AtCall
<1>2. /\ user[t] \in Users /\ peer[t] \in Users
      /\ op[t] \in Operations \cup Handled /\ pc[t] \in DOMAIN Steps(op[t])
  BY <1>1, RunningTypes DEF TypeOK
<1>3. Advance(t) \/ End(t) => Moved(t)
  BY <1>1, AdvanceMoves, EndMoves DEF TypeOK
<1>4. op[t] = "accept_follower" /\ pc[t] = 2 => AtCall(t, "update_follower_status")
  BY <1>1, <1>2, StepsNamed DEF AtCall
<1>5. CASE UpdateFollowerStatus(t)
  <2>1. granted \subseteq granted' /\ <<user[t], peer[t]>> \in granted'
    BY <1>5 DEF UpdateFollowerStatus
  <2>2. NetGranted'
    BY <1>5, <2>1 DEF UpdateFollowerStatus, GrantedInv, NetGranted
  <2>3. AcceptedWasGranted'
    BY <1>2, <1>5, <2>1
       DEF UpdateFollowerStatus, GrantedInv, AcceptedWasGranted, TypeOK, RowTypes
  <2>4. QED
    BY <1>1, <1>3, <1>5, <2>1, <2>2, <2>3, TaskGrantedMoves
       DEF UpdateFollowerStatus, GrantedInv
<1>6. CASE UpdateFollowingStatus(t)
  <2>1. op[t] = "Accept"
    BY <1>2, <1>6, StepsNamed DEF UpdateFollowingStatus, AtCall
  <2>2. <<peer[t], user[t]>> \in granted
    BY <2>1 DEF GrantedInv, TaskGranted
  <2>3. AcceptedWasGranted'
    BY <1>2, <1>6, <2>2
       DEF UpdateFollowingStatus, history, GrantedInv, AcceptedWasGranted, TypeOK, RowTypes
  <2>4. NetGranted'
    BY <1>6 DEF UpdateFollowingStatus, history, GrantedInv, NetGranted
  <2>5. QED
    BY <1>1, <1>3, <1>6, <2>1, <2>3, <2>4, TaskGrantedMoves
       DEF UpdateFollowingStatus, history, GrantedInv
<1>7. CASE Send(t)
  <2>1. Sends[op[t]] = "Accept" => <<user[t], peer[t]>> \in granted
    BY <1>2, <1>7, StepsNamed DEF Send, AtCall, GrantedInv, TaskGranted
  <2>2. NetGranted'
    BY <1>7, <2>1 DEF Send, GrantedInv, NetGranted
  <2>3. AcceptedWasGranted'
    BY <1>7 DEF Send, rows, GrantedInv, AcceptedWasGranted
  <2>4. ~ (op[t] = "accept_follower" /\ pc[t] = 2)
    BY <1>4, <1>7 DEF Send, AtCall
  <2>5. QED
    BY <1>1, <1>3, <1>7, <2>2, <2>3, <2>4, TaskGrantedMoves DEF Send, GrantedInv
<1>8. CASE CallFails(t)
  <2>1. op[t] = "accept_follower" => End(t)
    BY <1>2, <1>8, StepsFatal DEF CallFails
  <2>2. op[t] = "accept_follower" => op'[t] = "idle"
    BY <2>1 DEF End, TypeOK, TaskTypes
  <2>3. QED
    BY <1>1, <1>3, <1>8, <2>2, TaskGrantedMoves, RestGranted DEF CallFails, rows, GrantedInv
<1>9. CASE ReadFollowId(t)
  <2>1. NetGranted' /\ AcceptedWasGranted'
    BY <1>9, RestGranted DEF ReadFollowId, rows, history
  <2>2. op[t] = "accept_follower" /\ pc[t] = 1 /\ UNCHANGED granted
    BY <1>2, <1>9, StepsNamed DEF ReadFollowId, AtCall, history
  <2>3. CASE End(t)
    <3>1. granted \subseteq granted' /\ pc[t] # 2
      BY <2>2
    <3>2. QED
      BY <1>1, <1>3, <2>1, <2>3, <3>1, TaskGrantedMoves DEF GrantedInv
  <2>4. CASE pc' = [pc EXCEPT ![t] = @ + 1] /\ UNCHANGED <<op, user, peer>>
    <3>1. \A x \in Tasks : TaskGranted(x)'
      BY <2>2, <2>4 DEF GrantedInv, TaskGranted, TypeOK, TaskTypes
    <3>2. QED
      BY <2>1, <3>1 DEF GrantedInv
  <2>5. QED
    BY <1>9, <2>3, <2>4 DEF ReadFollowId
<1>10. CASE AddFollowing(t) \/ RemoveFollowing(t) \/ AddFollower(t) \/ RemoveFollower(t)
  <2>1. ~ (op[t] = "accept_follower" /\ pc[t] = 2)
    BY <1>4, <1>10 DEF AddFollowing, RemoveFollowing, AddFollower, RemoveFollower, AtCall
  <2>2. \A u, v \in Users :
          /\ following'[u][v] = "Accepted" => following[u][v] = "Accepted"
          /\ follower'[u][v] = "Accepted" => follower[u][v] = "Accepted"
    <3>1. CASE AddFollowing(t)
      BY <1>2, <3>1 DEF AddFollowing, TypeOK, RowTypes
    <3>2. CASE RemoveFollowing(t)
      BY <1>2, <3>2 DEF RemoveFollowing, TypeOK, RowTypes
    <3>3. CASE AddFollower(t)
      BY <1>2, <3>3 DEF AddFollower, TypeOK, RowTypes
    <3>4. CASE RemoveFollower(t)
      BY <1>2, <3>4 DEF RemoveFollower, TypeOK, RowTypes
    <3>5. QED
      BY <1>10, <3>1, <3>2, <3>3, <3>4
  <2>3. Moved(t) /\ UNCHANGED <<granted, net>>
    BY <1>3, <1>10 DEF AddFollowing, RemoveFollowing, AddFollower, RemoveFollower
  <2>4. QED
    BY <1>1, <2>1, <2>2, <2>3, TaskGrantedMoves, RestGranted DEF GrantedInv
<1>11. CASE \/ AddBlockedActor(t) \/ RemoveBlockedActor(t) \/ IsActorBlocked(t)
            \/ OnActorRemoved(t) \/ OtherCall(t)
  <2>1. ~ (op[t] = "accept_follower" /\ pc[t] = 2)
    BY <1>4, <1>11
       DEF AddBlockedActor, RemoveBlockedActor, IsActorBlocked, OnActorRemoved, OtherCall, AtCall
  <2>2. Moved(t) /\ UNCHANGED <<granted, net, following, follower>>
    BY <1>3, <1>11
       DEF AddBlockedActor, RemoveBlockedActor, IsActorBlocked, OnActorRemoved, OtherCall,
           rows, history
  <2>3. QED
    BY <1>1, <2>1, <2>2, TaskGrantedMoves, RestGranted DEF GrantedInv
<1>12. QED
  BY <1>5, <1>6, <1>7, <1>8, <1>9, <1>10, <1>11 DEF Step

LEMMA GrantedStep == TypeOK /\ GrantedInv /\ [Next]_vars => GrantedInv'
<1> SUFFICES ASSUME TypeOK, GrantedInv, [Next]_vars PROVE GrantedInv'
  OBVIOUS
<1>1. ASSUME NEW t \in Tasks, Step(t) PROVE GrantedInv'
  BY <1>1, TaskStepGranted
<1>2. ASSUME NEW t \in Tasks, NEW s \in Scripts, Start(t, s[1], s[2], s[3]) PROVE GrantedInv'
  <2>1. NetGranted' /\ AcceptedWasGranted'
    BY <1>2, RestGranted DEF Start, rows, history
  <2>2. pc[t] = 1 /\ s[1] # "Accept"
    BY <1>2, FollowsAssumption
       DEF Start, TypeOK, TaskTypes, FollowsAssumption, ServiceCalls
  <2>3. \A x \in Tasks : TaskGranted(x)'
    BY <1>2, <2>2 DEF Start, history, GrantedInv, TaskGranted, TypeOK, TaskTypes
  <2>4. QED
    BY <2>1, <2>3 DEF GrantedInv
<1>3. ASSUME NEW t \in Tasks, NEW m \in net, Receive(t, m) PROVE GrantedInv'
  <2>1. NetGranted' /\ AcceptedWasGranted'
    BY <1>3, RestGranted DEF Receive, rows, history
  <2>2. m.kind = "Accept" => <<m.from, m.to>> \in granted
    BY DEF GrantedInv, NetGranted
  <2>3. m.kind # "accept_follower"
    BY DEF TypeOK, Activities, Handled
  <2>4. \A x \in Tasks : TaskGranted(x)'
    BY <1>3, <2>2, <2>3 DEF Receive, history, GrantedInv, TaskGranted, TypeOK, TaskTypes
  <2>5. QED
    BY <2>1, <2>4 DEF GrantedInv
<1>4. ASSUME NEW m \in net, Lose(m) PROVE GrantedInv'
  <2>1. NetGranted' /\ AcceptedWasGranted'
    BY <1>4, RestGranted DEF Lose, rows, history
  <2>2. QED
    BY <1>4, <2>1 DEF Lose, taskVars, history, GrantedInv, TaskGranted
<1>5. ASSUME NEW s \in Servers, Crash(s) PROVE GrantedInv'
  <2>1. NetGranted' /\ AcceptedWasGranted'
    BY <1>5, RestGranted DEF Crash, rows
  <2>2. \A x \in Tasks : TaskGranted(x)'
    BY <1>5 DEF Crash, GrantedInv, TaskGranted
  <2>3. QED
    BY <2>1, <2>2 DEF GrantedInv
<1>6. CASE UNCHANGED vars
  BY <1>6 DEF vars, rows, taskVars, history, GrantedInv, NetGranted, AcceptedWasGranted,
              TaskGranted
<1>7. QED
  BY <1>1, <1>2, <1>3, <1>4, <1>5, <1>6 DEF Next

\* With any number of users and servers, and activities lost and reordered, a
\* follow is shown as accepted, on either server, only after the followed user
\* accepted it.
THEOREM AcceptedWasGrantedHolds == Spec => []AcceptedWasGranted
<1>1. Init => GrantedInv
  BY DEF Init, GrantedInv, NetGranted, AcceptedWasGranted, TaskGranted
<1>2. GrantedInv => AcceptedWasGranted
  BY DEF GrantedInv
<1>3. QED
  BY <1>1, <1>2, GrantedStep, TypeCorrect, PTL DEF Spec

-----------------------------------------------------------------------------
(* A blocked actor is no follower.                                         *)

\* A Follow handler past its check knows (by late) of a block added since, and
\* a Block handler that has removed the follower leaves none behind, but for a
\* follow that slipped in.
LateNoted(t) ==
  op[t] = "Follow" /\ pc[t] # 1 /\ peer[t] \in blocked[user[t]] => t \in late

CutStays(t) ==
  op[t] = "Block" /\ pc[t] = 3 =>
    follower[user[t]][peer[t]] = "none" \/ <<user[t], peer[t]>> \in breached

BlockInv == BlockedIsNoFollower /\ \A t \in Tasks : LateNoted(t) /\ CutStays(t)

\* A task at neither of the calls that establish LateNoted and CutStays, and not
\* in the window of block_actor, moves on; nobody becomes blocked or a follower.
LEMMA RestBlocked ==
  ASSUME TypeOK, BlockInv, NEW t \in Tasks, Running(t), Moved(t),
         op[t] = "Follow" => pc[t] # 1 \/ op'[t] = "idle",
         op[t] \in {"Block", "block_actor"} => pc[t] # 2,
         UNCHANGED breached, late \ {t} \subseteq late',
         t \notin late' => op[t] # "Follow" \/ op'[t] = "idle" \/ t \notin late,
         \A u \in Users : blocked'[u] \subseteq blocked[u],
         \A u, v \in Users : follower[u][v] = "none" => follower'[u][v] = "none"
  PROVE  BlockInv'
<1>1. user[t] \in Users /\ peer[t] \in Users /\ pc[t] \in 1..4
  BY RunningTypes DEF TypeOK, TaskTypes
<1>2. BlockedIsNoFollower'
  <2>1. ASSUME NEW x \in Tasks, NEW u \in Users, NEW v \in Users,
               Doing(x, "block_actor", u, v, 2)
        PROVE  Doing(x, "block_actor", u, v, 2)'
    BY <2>1 DEF Doing, Moved
  <2>2. QED
    BY <2>1 DEF BlockInv, BlockedIsNoFollower
<1>3. ASSUME NEW x \in Tasks PROVE LateNoted(x)' /\ CutStays(x)'
  <2>1. Running(x) => user[x] \in Users /\ peer[x] \in Users
    BY DEF TypeOK, TaskTypes
  <2>2. CASE x # t
    BY <2>1, <2>2 DEF Moved, BlockInv, LateNoted, CutStays, Running
  <2>3. CASE x = t
    BY <1>1, <2>3 DEF Moved, BlockInv, LateNoted, CutStays
  <2>4. QED
    BY <2>2, <2>3
<1>4. QED
  BY <1>2, <1>3 DEF BlockInv

\* A step of a task.
LEMMA TaskStepBlocked ==
  ASSUME TypeOK, BlockInv, NEW t \in Tasks, Step(t)
  PROVE  BlockInv'
<1> DEFINE u == user[t]
           v == peer[t]
<1>1. Running(t)
  BY DEF Step, AddFollowing, RemoveFollowing, UpdateFollowingStatus, AddFollower,
         RemoveFollower, UpdateFollowerStatus, ReadFollowId, AddBlockedActor,
         RemoveBlockedActor, IsActorBlocked, Send, OnActorRemoved, OtherCall, CallFails, AtCall
<1>2. /\ u \in Users /\ v \in Users /\ pc[t] \in 1..4
      /\ op[t] \in Operations \cup Handled /\ pc[t] \in DOMAIN Steps(op[t])
  BY <1>1, RunningTypes DEF TypeOK, TaskTypes
<1>3. Advance(t) \/ End(t) => Moved(t)
  BY <1>1, AdvanceMoves, EndMoves DEF TypeOK
<1>4. /\ op[t] = "Follow" /\ pc[t] = 1 => AtCall(t, "is_actor_blocked")
      /\ op[t] \in {"Block", "block_actor"} /\ pc[t] = 2 => AtCall(t, "remove_follower")
  BY <1>1, <1>2, BlockSteps DEF AtCall
<1>5. End(t) => op'[t] = "idle"
  BY DEF End, TypeOK, TaskTypes
<1>6. \A x \in Tasks : Running(x) => user[x] \in Users /\ peer[x] \in Users
  BY DEF TypeOK, TaskTypes
<1>7. CASE RemoveFollower(t)
  <2>1. follower'[u][v] = "none" /\ breached' = breached \ {<<u, v>>} /\ UNCHANGED <<blocked, late>>
    BY <1>2, <1>7 DEF RemoveFollower, TypeOK, RowTypes
  <2>2. \A x, y \in Users : <<x, y>> # <<u, v>> => follower'[x][y] = follower[x][y]
    BY <1>2, <1>7 DEF RemoveFollower, TypeOK, RowTypes
  <2>3. Moved(t)
    BY <1>3, <1>7 DEF RemoveFollower
  <2>4. BlockedIsNoFollower'
    <3>1. ASSUME NEW x \in Users, NEW y \in Users, <<x, y>> # <<u, v>>, NEW z \in Tasks,
                 Doing(z, "block_actor", x, y, 2)
          PROVE  Doing(z, "block_actor", x, y, 2)'
      BY <2>3, <3>1 DEF Doing, Moved
    <3>2. QED
      BY <2>1, <2>2, <3>1 DEF BlockInv, BlockedIsNoFollower
  <2>5. ASSUME NEW x \in Tasks PROVE CutStays(x)'
    <3>1. CASE x = t
      BY <2>1, <2>3, <3>1 DEF Moved, CutStays
    <3>2. CASE x # t /\ <<user[x], peer[x]>> = <<u, v>>
      BY <2>1, <2>3, <3>2 DEF Moved, CutStays
    <3>3. CASE x # t /\ <<user[x], peer[x]>> # <<u, v>>
      BY <1>6, <2>1, <2>2, <2>3, <3>3 DEF Moved, BlockInv, CutStays, Running
    <3>4. QED
      BY <3>1, <3>2, <3>3
  <2>6. ~ AtCall(t, "is_actor_blocked")
    BY <1>7 DEF RemoveFollower, AtCall
  <2>7. ASSUME NEW x \in Tasks PROVE LateNoted(x)'
    BY <1>4, <2>1, <2>3, <2>6 DEF Moved, BlockInv, LateNoted
  <2>8. QED
    BY <2>4, <2>5, <2>7 DEF BlockInv
<1>8. CASE AddFollower(t)
  <2>1. op[t] = "Follow" /\ pc[t] = 4
    BY <1>2, <1>8, BlockSteps DEF AddFollower, AtCall
  <2>2. End(t)
    BY <1>8, <2>1 DEF AddFollower, Advance, Steps, Operations, ServiceCalls, HandlerCalls,
                      FollowCalls
  <2>3. Moved(t) /\ op'[t] = "idle"
    BY <1>3, <1>5, <2>2
  <2>4. /\ UNCHANGED blocked /\ late' = late \ {t} /\ breached \subseteq breached'
        /\ t \in late \/ (\E x \in Tasks : Doing(x, "Block", u, v, 3)) => <<u, v>> \in breached'
    BY <1>8 DEF AddFollower
  <2>5. \A x, y \in Users : <<x, y>> # <<u, v>> => follower'[x][y] = follower[x][y]
    BY <1>2, <1>8 DEF AddFollower, TypeOK, RowTypes
  <2>6. v \in blocked[u] => <<u, v>> \in breached'
    BY <2>1, <2>4 DEF BlockInv, LateNoted
  <2>7. BlockedIsNoFollower'
    <3>1. ASSUME NEW x \in Users, NEW y \in Users, NEW z \in Tasks,
                 Doing(z, "block_actor", x, y, 2)
          PROVE  Doing(z, "block_actor", x, y, 2)'
      BY <2>1, <2>3, <3>1 DEF Doing, Moved
    <3>2. QED
      BY <2>4, <2>5, <2>6, <3>1 DEF BlockInv, BlockedIsNoFollower
  <2>8. ASSUME NEW x \in Tasks PROVE LateNoted(x)'
    BY <2>3, <2>4 DEF Moved, BlockInv, LateNoted
  <2>9. ASSUME NEW x \in Tasks PROVE CutStays(x)'
    <3>1. CASE x = t
      BY <2>3, <3>1 DEF CutStays
    <3>2. CASE x # t /\ <<user[x], peer[x]>> = <<u, v>>
      BY <2>3, <2>4, <3>2 DEF Moved, CutStays, Doing
    <3>3. CASE x # t /\ <<user[x], peer[x]>> # <<u, v>>
      BY <1>6, <2>3, <2>4, <2>5, <3>3 DEF Moved, BlockInv, CutStays, Running
    <3>4. QED
      BY <3>1, <3>2, <3>3
  <2>10. QED
    BY <2>7, <2>8, <2>9 DEF BlockInv
<1>9. CASE AddBlockedActor(t)
  <2>1. (op[t] = "block_actor" /\ pc[t] = 1) \/ (op[t] = "Block" /\ pc[t] = 3)
    BY <1>2, <1>9, BlockSteps DEF AddBlockedActor, AtCall
  <2>2. /\ blocked' = [blocked EXCEPT ![u] = @ \cup {v}]
        /\ late' = late \cup {x \in Tasks : \E n \in 2..4 : Doing(x, "Follow", u, v, n)}
        /\ UNCHANGED <<follower, breached>>
        /\ Moved(t)
    BY <1>3, <1>9 DEF AddBlockedActor
  <2>3. op[t] = "block_actor" => Doing(t, "block_actor", u, v, 2)'
    <3>1. op[t] = "block_actor" => GoOn(t)
      BY <1>9, <2>1 DEF AddBlockedActor, Advance, Steps, Operations, ServiceCalls, BlockActorOp
    <3>2. QED
      BY <2>1, <3>1 DEF GoOn, Doing, TypeOK, TaskTypes
  <2>4. op[t] = "Block" => follower[u][v] = "none" \/ <<u, v>> \in breached
    BY <2>1 DEF BlockInv, CutStays
  <2>5. \A x, y \in Users : y \in blocked'[x] => y \in blocked[x] \/ <<x, y>> = <<u, v>>
    BY <1>2, <2>2 DEF TypeOK, RowTypes
  <2>6. BlockedIsNoFollower'
    <3>1. ASSUME NEW x \in Users, NEW y \in Users, NEW z \in Tasks,
                 Doing(z, "block_actor", x, y, 2)
          PROVE  Doing(z, "block_actor", x, y, 2)'
      BY <2>1, <2>2, <3>1 DEF Doing, Moved
    <3>2. ASSUME NEW x \in Users, NEW y \in Users, y \in blocked'[x], follower'[x][y] # "none",
                 <<x, y>> \notin breached'
          PROVE  \E z \in Tasks : Doing(z, "block_actor", x, y, 2)'
      <4>1. CASE y \in blocked[x]
        BY <2>2, <3>1, <3>2, <4>1 DEF BlockInv, BlockedIsNoFollower
      <4>2. CASE x = u /\ y = v
        <5>1. op[t] = "block_actor"
          BY <2>1, <2>2, <2>4, <3>2, <4>2
        <5>2. Doing(t, "block_actor", x, y, 2)'
          BY <2>2, <2>3, <4>2, <5>1 DEF Doing, Moved
        <5>3. QED
          BY <5>2
      <4>3. QED
        BY <2>5, <3>2, <4>1, <4>2
    <3>3. QED
      BY <3>2 DEF BlockedIsNoFollower
  <2>7. ASSUME NEW x \in Tasks PROVE LateNoted(x)'
    <3>1. CASE x = t
      BY <2>1, <2>2, <3>1 DEF Moved, LateNoted
    <3>2. CASE x # t /\ op[x] = "Follow" /\ pc[x] # 1 /\ peer[x] \in blocked'[user[x]]
      <4>1. user[x] \in Users /\ peer[x] \in Users /\ pc[x] \in 2..4
        BY <3>2 DEF TypeOK, TaskTypes, Running
      <4>2. CASE peer[x] \in blocked[user[x]]
        BY <2>2, <3>2, <4>2 DEF BlockInv, LateNoted
      <4>3. CASE <<user[x], peer[x]>> = <<u, v>>
        BY <2>2, <3>2, <4>1, <4>3 DEF Doing, LateNoted
      <4>4. QED
        BY <2>5, <3>2, <4>1, <4>2, <4>3 DEF LateNoted
    <3>3. QED
      BY <2>2, <3>1, <3>2 DEF Moved, LateNoted
  <2>8. ASSUME NEW x \in Tasks PROVE CutStays(x)'
    BY <2>1, <2>2 DEF Moved, BlockInv, CutStays
  <2>9. QED
    BY <2>6, <2>7, <2>8 DEF BlockInv
<1>10. CASE IsActorBlocked(t)
  <2>1. op[t] = "Follow" /\ pc[t] = 1
    BY <1>2, <1>10, BlockSteps DEF IsActorBlocked, AtCall
  <2>2. UNCHANGED <<blocked, late, follower, breached>> /\ Moved(t)
    BY <1>3, <1>10 DEF IsActorBlocked, rows, history
  <2>3. v \in blocked[u] => op'[t] = "idle"
    BY <1>5, <1>10 DEF IsActorBlocked
  <2>4. BlockedIsNoFollower'
    <3>1. ASSUME NEW x \in Users, NEW y \in Users, NEW z \in Tasks,
                 Doing(z, "block_actor", x, y, 2)
          PROVE  Doing(z, "block_actor", x, y, 2)'
      BY <2>1, <2>2, <3>1 DEF Doing, Moved
    <3>2. QED
      BY <2>2, <3>1 DEF BlockInv, BlockedIsNoFollower
  <2>5. ASSUME NEW x \in Tasks PROVE LateNoted(x)' /\ CutStays(x)'
    BY <2>1, <2>2, <2>3 DEF Moved, BlockInv, LateNoted, CutStays
  <2>6. QED
    BY <2>4, <2>5 DEF BlockInv
<1>11. CASE CallFails(t)
  <2>1. /\ UNCHANGED <<blocked, follower>> /\ late' = late \ {t} /\ Moved(t)
        /\ breached \subseteq breached'
        /\ op[t] \in {"Block", "block_actor"} /\ pc[t] = 2 => <<u, v>> \in breached'
    BY <1>3, <1>4, <1>11 DEF CallFails, rows
  <2>2. op[t] = "Follow" => op'[t] = "idle"
    BY <1>2, <1>5, <1>11, BlockSteps DEF CallFails
  <2>3. BlockedIsNoFollower'
    <3>1. ASSUME NEW x \in Users, NEW y \in Users, NEW z \in Tasks,
                 Doing(z, "block_actor", x, y, 2)
          PROVE  Doing(z, "block_actor", x, y, 2)' \/ <<x, y>> \in breached'
      BY <2>1, <3>1 DEF Doing, Moved
    <3>2. QED
      BY <2>1, <3>1 DEF BlockInv, BlockedIsNoFollower
  <2>4. ASSUME NEW x \in Tasks PROVE LateNoted(x)'
    BY <2>1, <2>2 DEF Moved, BlockInv, LateNoted
  <2>5. ASSUME NEW x \in Tasks PROVE CutStays(x)'
    BY <1>2, <2>1 DEF Moved, BlockInv, CutStays
  <2>6. QED
    BY <2>3, <2>4, <2>5 DEF BlockInv
<1>12. CASE ReadFollowId(t)
  <2>1. op[t] = "accept_follower" /\ UNCHANGED <<blocked, late, follower, breached>>
    BY <1>2, <1>12, StepsNamed DEF ReadFollowId, AtCall, rows, history
  <2>2. /\ \A x \in Tasks \ {t} : UNCHANGED <<op[x], user[x], peer[x], pc[x]>>
        /\ op'[t] \in {"accept_follower", "idle"}
    BY <1>12, <2>1 DEF ReadFollowId, End, TypeOK, TaskTypes
  <2>3. BlockedIsNoFollower'
    <3>1. ASSUME NEW x \in Users, NEW y \in Users, NEW z \in Tasks,
                 Doing(z, "block_actor", x, y, 2)
          PROVE  Doing(z, "block_actor", x, y, 2)'
      BY <2>1, <2>2, <3>1 DEF Doing
    <3>2. QED
      BY <2>1, <3>1 DEF BlockInv, BlockedIsNoFollower
  <2>4. ASSUME NEW x \in Tasks PROVE LateNoted(x)' /\ CutStays(x)'
    BY <2>1, <2>2 DEF BlockInv, LateNoted, CutStays
  <2>5. QED
    BY <2>3, <2>4 DEF BlockInv
<1>13. CASE \/ AddFollowing(t) \/ RemoveFollowing(t) \/ UpdateFollowingStatus(t)
            \/ UpdateFollowerStatus(t) \/ RemoveBlockedActor(t) \/ Send(t)
            \/ OnActorRemoved(t) \/ OtherCall(t)
  <2>1. ~ AtCall(t, "is_actor_blocked") /\ ~ AtCall(t, "remove_follower")
    BY <1>13
       DEF AddFollowing, RemoveFollowing, UpdateFollowingStatus, UpdateFollowerStatus,
           RemoveBlockedActor, Send, OnActorRemoved, OtherCall, AtCall
  <2>2. Moved(t) /\ UNCHANGED <<late, breached>>
    BY <1>3, <1>13
       DEF AddFollowing, RemoveFollowing, UpdateFollowingStatus, UpdateFollowerStatus,
           RemoveBlockedActor, Send, OnActorRemoved, OtherCall, history
  <2>3. \A x \in Users : blocked'[x] \subseteq blocked[x]
    <3>1. CASE RemoveBlockedActor(t)
      BY <1>2, <3>1 DEF RemoveBlockedActor, TypeOK, RowTypes
    <3>2. CASE UNCHANGED blocked
      BY <3>2
    <3>3. QED
      BY <1>13, <3>1, <3>2
         DEF AddFollowing, RemoveFollowing, UpdateFollowingStatus, UpdateFollowerStatus,
             Send, OnActorRemoved, OtherCall, rows
  <2>4. \A x, y \in Users : follower[x][y] = "none" => follower'[x][y] = "none"
    <3>1. CASE UpdateFollowerStatus(t)
      BY <1>2, <3>1 DEF UpdateFollowerStatus, TypeOK, RowTypes
    <3>2. CASE UNCHANGED follower
      BY <3>2
    <3>3. QED
      BY <1>13, <3>1, <3>2
         DEF AddFollowing, RemoveFollowing, UpdateFollowingStatus, RemoveBlockedActor,
             Send, OnActorRemoved, OtherCall, rows
  <2>5. QED
    BY <1>1, <1>4, <2>1, <2>2, <2>3, <2>4, RestBlocked
<1>14. QED
  BY <1>7, <1>8, <1>9, <1>10, <1>11, <1>12, <1>13 DEF Step

LEMMA BlockStep == TypeOK /\ BlockInv /\ [Next]_vars => BlockInv'
<1> SUFFICES ASSUME TypeOK, BlockInv, [Next]_vars PROVE BlockInv'
  OBVIOUS
<1> USE DEF LateNoted, CutStays, Doing
<1>1. ASSUME NEW t \in Tasks, Step(t) PROVE BlockInv'
  BY <1>1, TaskStepBlocked
<1>2. ASSUME NEW t \in Tasks, ~ Running(t), pc'[t] = 1, UNCHANGED <<rows, history>>,
             \A x \in Tasks \ {t} : UNCHANGED <<op[x], user[x], peer[x], pc[x]>>
      PROVE  BlockInv'
  <2>1. \A x \in Tasks : LateNoted(x)' /\ CutStays(x)'
    BY <1>2 DEF rows, history, BlockInv
  <2>2. \A x \in Tasks : Running(x) => x # t
    BY <1>2
  <2>3. BlockedIsNoFollower'
    BY <1>2, <2>2 DEF rows, history, BlockInv, BlockedIsNoFollower, Running
  <2>4. QED
    BY <2>1, <2>3 DEF BlockInv
<1>3. ASSUME NEW t \in Tasks, NEW s \in Scripts, Start(t, s[1], s[2], s[3]) PROVE BlockInv'
  BY <1>2, <1>3 DEF Start, TypeOK, TaskTypes
<1>4. ASSUME NEW t \in Tasks, NEW m \in net, Receive(t, m) PROVE BlockInv'
  BY <1>2, <1>4 DEF Receive, TypeOK, TaskTypes
<1>5. ASSUME NEW m \in net, Lose(m) PROVE BlockInv'
  BY <1>5 DEF Lose, rows, taskVars, history, BlockInv, BlockedIsNoFollower
<1>6. ASSUME NEW s \in Servers, Crash(s) PROVE BlockInv'
  <2>1. DEFINE gone == {t \in Tasks : Running(t) /\ Home[user[t]] = s}
  <2>2. /\ \A t \in Tasks : IF t \in gone THEN op'[t] = "idle"
                            ELSE UNCHANGED <<op[t], user[t], peer[t], pc[t]>>
        /\ late' = late \ gone /\ breached \subseteq breached' /\ UNCHANGED rows
        /\ \A t \in gone : op[t] = "block_actor" /\ pc[t] = 2 => <<user[t], peer[t]>> \in breached'
    BY <1>6 DEF Crash
  <2>3. \A t \in Tasks : LateNoted(t)' /\ CutStays(t)'
    BY <2>2 DEF rows, BlockInv
  <2>4. BlockedIsNoFollower'
    BY <2>2 DEF rows, BlockInv, BlockedIsNoFollower
  <2>5. QED
    BY <2>3, <2>4 DEF BlockInv
<1>7. CASE UNCHANGED vars
  BY <1>7 DEF vars, rows, taskVars, history, BlockInv, BlockedIsNoFollower
<1>8. QED
  BY <1>1, <1>3, <1>4, <1>5, <1>6, <1>7 DEF Next

\* However many tasks run and in whatever order their calls interleave, a blocked
\* actor is a follower only through the windows the history variable names.
THEOREM BlockedIsNoFollowerHolds == Spec => []BlockedIsNoFollower
<1>1. Init => BlockInv
  BY DEF Init, BlockInv, BlockedIsNoFollower, LateNoted, CutStays
<1>2. BlockInv => BlockedIsNoFollower
  BY DEF BlockInv
<1>3. QED
  BY <1>1, <1>2, BlockStep, TypeCorrect, PTL DEF Spec

-----------------------------------------------------------------------------
(* A single follow has one outcome.                                        *)

\* The place of every call that changes a follow.
LEMMA StepsPlaced ==
  ASSUME NEW o \in Operations \cup Handled, NEW n \in DOMAIN Steps(o)
  PROVE  /\ Steps(o)[n].name = "remove_following" =>
              \/ o = "unfollow" /\ n = 2
              \/ o \in {"Reject", "Block"} /\ n = 1
              \/ o = "block_actor" /\ n = 3
         /\ Steps(o)[n].name = "remove_follower" =>
              \/ o \in {"UndoFollow", "remove_follower", "mark_follower_rejected"} /\ n = 1
              \/ o \in {"Block", "reject_follower", "block_actor"} /\ n = 2
         /\ Steps(o)[n].name = "update_following_status" => o = "Accept" /\ n = 1
         /\ Steps(o)[n].name = "update_follower_status" =>
              \/ o = "accept_follower" /\ n = 2
              \/ o = "mark_follower_accepted" /\ n = 1
         /\ Steps(o)[n].name = "send" =>
              \/ o \in {"unfollow", "reject_follower"} /\ n = 1
              \/ o \in {"follow", "unblock_actor"} /\ n = 2
              \/ o = "accept_follower" /\ n = 3
              \/ o = "block_actor" /\ n = 4
         /\ Steps(o)[n].name = "remove_blocked_actor" => o \in {"unblock_actor", "UndoBlock"} /\ n = 1
         /\ Steps(o)[n].name = "on_actor_removed" =>
              \/ o = "unfollow" /\ n = 3
              \/ o = "UndoFollow" /\ n = 2
         /\ Steps(o)[n].name = "dereference" => o = "Follow"
         /\ Steps(o)[n].name = "publish" => o = "Accept" /\ n = 2
<1> USE DEF Steps, Operations, Handled, ServiceCalls, HandlerCalls, Fatal, Logged, Check, Call
<1>1. CASE o = "follow"
  BY <1>1 DEF FollowOp
<1>2. CASE o = "accept_follower"
  BY <1>2 DEF AcceptFollowerOp
<1>3. CASE o = "reject_follower"
  BY <1>3 DEF RejectFollowerOp
<1>4. CASE o = "unfollow"
  BY <1>4 DEF UnfollowOp
<1>5. CASE o = "block_actor"
  BY <1>5 DEF BlockActorOp
<1>6. CASE o = "unblock_actor"
  BY <1>6 DEF UnblockActorOp
<1>7. CASE o \in {"remove_follower", "mark_follower_accepted", "mark_follower_rejected"}
  BY <1>7 DEF RemoveFollowerOp, MarkFollowerAcceptedOp, MarkFollowerRejectedOp
<1>8. CASE o = "Accept"
  BY <1>8 DEF AcceptCalls
<1>9. CASE o \in {"Reject", "UndoFollow", "UndoBlock"}
  BY <1>9 DEF RejectCalls, UndoFollowCalls, UndoBlockCalls
<1>10. CASE o = "Block"
  BY <1>10 DEF BlockCalls
<1>11. CASE o = "Follow"
  BY <1>11 DEF FollowCalls
<1>12. QED
  BY <1>1, <1>2, <1>3, <1>4, <1>5, <1>6, <1>7, <1>8, <1>9, <1>10, <1>11

\* Which calls are the last of their operation, where it matters.
LEMMA AdvancePlaces ==
  ASSUME TaskTypes, NEW t \in Tasks, Running(t), Advance(t)
  PROVE  /\ Moved(t)
         /\ op[t] = "follow" /\ pc[t] = 2 => op'[t] = "idle"
         /\ op[t] = "Follow" /\ pc[t] = 4 => op'[t] = "idle"
         /\ \/ op[t] \in {"follow", "unfollow"} /\ pc[t] = 1
            \/ op[t] = "block_actor" /\ pc[t] \in 1..3
            => UNCHANGED <<op[t], user[t], peer[t], id[t]>> /\ pc'[t] = pc[t] + 1
<1>1. Moved(t)
  BY AdvanceMoves
<1>2. op[t] = "follow" /\ pc[t] = 2 => End(t)
  BY DEF Advance, Steps, Operations, ServiceCalls, FollowOp
<1>3. op[t] = "Follow" /\ pc[t] = 4 => End(t)
  BY DEF Advance, Steps, Operations, ServiceCalls, HandlerCalls, FollowCalls
<1>4. op[t] = "follow" /\ pc[t] = 1 => GoOn(t)
  BY DEF Advance, Steps, Operations, ServiceCalls, FollowOp
<1>5. op[t] = "unfollow" /\ pc[t] = 1 => GoOn(t)
  BY DEF Advance, Steps, Operations, ServiceCalls, UnfollowOp
<1>6. op[t] = "block_actor" /\ pc[t] \in 1..3 => GoOn(t)
  BY DEF Advance, Steps, Operations, ServiceCalls, BlockActorOp
<1>7. End(t) => op'[t] = "idle"
  BY DEF End, TaskTypes
<1>8. GoOn(t) => UNCHANGED <<op[t], user[t], peer[t], id[t]>> /\ pc'[t] = pc[t] + 1
  BY DEF GoOn, TaskTypes
<1>. QED
  BY <1>1, <1>2, <1>3, <1>4, <1>5, <1>6, <1>7, <1>8

-----------------------------------------------------------------------------
\* A follow not yet recorded has an id of its own, and an Accept is handled only
\* where a follow was recorded.
IdsFresh ==
  /\ \A t \in Tasks : op[t] = "follow" => id[t] <= operations
  /\ \A t, x \in Tasks : op[t] = "follow" /\ op[x] = "follow" /\ t # x => id[t] # id[x]
  /\ \A u, v \in Users : \A k \in saved[u][v] : k <= operations
  /\ \A t \in Tasks : op[t] = "follow" /\ pc[t] = 1 => id[t] \notin saved[user[t]][peer[t]]
  /\ \A t \in Tasks : op[t] = "Accept" => saved[user[t]][peer[t]] # {}

\* A task moves on, or ends.
LEMMA IdsMove ==
  ASSUME TypeOK, IdsFresh, NEW t \in Tasks, Running(t), Moved(t), UNCHANGED <<saved, operations>>
  PROVE  IdsFresh'
<1>1. pc[t] \in 1..4
  BY DEF TypeOK, TaskTypes
<1>2. \A x \in Tasks :
        \/ op'[x] = "idle"
        \/ /\ UNCHANGED <<op[x], user[x], peer[x], id[x]>>
           /\ pc'[x] = 1 => pc[x] = 1
  BY <1>1 DEF Moved
<1>. QED
  BY <1>2 DEF IdsFresh

LEMMA IdsStep == TypeOK /\ SavedInv /\ IdsFresh /\ [Next]_vars => IdsFresh'
<1>. SUFFICES ASSUME TypeOK, SavedInv, IdsFresh, [Next]_vars PROVE IdsFresh'
  OBVIOUS
<1>1. ASSUME NEW t \in Tasks, Step(t) PROVE IdsFresh'
  <2>1. Running(t)
    BY <1>1 DEF Step, AddFollowing, RemoveFollowing, UpdateFollowingStatus, AddFollower,
         RemoveFollower, UpdateFollowerStatus, ReadFollowId, AddBlockedActor,
         RemoveBlockedActor, IsActorBlocked, Send, OnActorRemoved, OtherCall, CallFails, AtCall
  <2>2. /\ user[t] \in Users /\ peer[t] \in Users /\ id[t] \in Ids
        /\ op[t] \in Operations \cup Handled /\ pc[t] \in DOMAIN Steps(op[t])
    BY <2>1, RunningTypes DEF TypeOK
  <2>3. Advance(t) \/ End(t) => Moved(t)
    BY <2>1, AdvanceMoves, EndMoves DEF TypeOK
  <2>4. CASE AddFollowing(t)
    <3>1. op[t] = "follow" /\ pc[t] = 1
      BY <2>2, <2>4, StepsNamed DEF AddFollowing, AtCall
    <3>2. Moved(t) /\ op'[t] = "follow" /\ pc'[t] = 2 /\ UNCHANGED id[t]
      BY <2>1, <2>4, <3>1, AdvancePlaces DEF AddFollowing, TypeOK
    <3>3. /\ UNCHANGED operations
          /\ \A u, v \in Users :
               saved'[u][v] = IF u = user[t] /\ v = peer[t] THEN saved[u][v] \cup {id[t]} ELSE saved[u][v]
      BY <2>2, <2>4 DEF AddFollowing, counters, TypeOK, HistoryTypes
    <3>9. \A u, v \in Users : \A k :
            /\ k \in saved'[u][v] => k \in saved[u][v] \/ (u = user[t] /\ v = peer[t] /\ k = id[t])
            /\ k \in saved[u][v] => k \in saved'[u][v]
      <4>1. SUFFICES ASSUME NEW u \in Users, NEW v \in Users, NEW k
                     PROVE  /\ k \in saved'[u][v] => k \in saved[u][v] \/ (u = user[t] /\ v = peer[t] /\ k = id[t])
                            /\ k \in saved[u][v] => k \in saved'[u][v]
        OBVIOUS
      <4>2. CASE u = user[t] /\ v = peer[t]
        <5>1. saved'[u][v] = saved[u][v] \cup {id[t]}
          BY <3>3, <4>2
        <5>. QED
          BY <4>2, <5>1
      <4>3. CASE ~ (u = user[t] /\ v = peer[t])
        BY <3>3, <4>3
      <4>. QED
        BY <4>2, <4>3
    <3>4. \A u, v \in Users : \A k \in saved'[u][v] : k <= operations'
      BY <3>1, <3>3, <3>9 DEF IdsFresh
    <3>5. UNCHANGED id /\ \A x \in Tasks : op'[x] = op[x] /\ (x # t => UNCHANGED <<user[x], peer[x], pc[x]>>)
      <4>1. \A x \in Tasks : id'[x] = id[x]
        BY <3>2 DEF Moved
      <4>2. id' \in [Tasks -> Ids] /\ id \in [Tasks -> Ids]
        BY TypeStep, FollowsAssumption DEF TypeOK, TaskTypes
      <4>. QED
        BY <3>1, <3>2, <4>1, <4>2 DEF Moved
    <3>6. ASSUME NEW x \in Tasks, op'[x] = "follow" /\ pc'[x] = 1
          PROVE  id'[x] \notin saved'[user'[x]][peer'[x]]
      <4>1. x # t /\ UNCHANGED <<op[x], user[x], peer[x], pc[x], id[x]>>
        BY <3>2, <3>5, <3>6
      <4>2. user[x] \in Users /\ peer[x] \in Users
        BY <3>6, <4>1 DEF TypeOK, TaskTypes, Running
      <4>3. id[x] # id[t] /\ id[x] \notin saved[user[x]][peer[x]]
        BY <3>1, <3>6, <4>1 DEF IdsFresh
      <4>. QED
        BY <3>9, <4>1, <4>2, <4>3
    <3>7. ASSUME NEW x \in Tasks, op'[x] = "Accept"
          PROVE  saved'[user'[x]][peer'[x]] # {}
      <4>1. x # t /\ UNCHANGED <<op[x], user[x], peer[x]>>
        BY <3>1, <3>5, <3>7
      <4>2. user[x] \in Users /\ peer[x] \in Users
        BY <3>7, <4>1 DEF TypeOK, TaskTypes, Running
      <4>3. \E k : k \in saved[user[x]][peer[x]]
        BY <3>7, <4>1 DEF IdsFresh
      <4>. QED
        BY <3>9, <4>1, <4>2, <4>3
    <3>8. /\ \A x \in Tasks : op'[x] = "follow" => id'[x] <= operations'
          /\ \A x, y \in Tasks : op'[x] = "follow" /\ op'[y] = "follow" /\ x # y => id'[x] # id'[y]
      BY <3>3, <3>5 DEF IdsFresh
    <3>. QED
      BY <3>4, <3>6, <3>7, <3>8 DEF IdsFresh
  <2>5. CASE ReadFollowId(t)
    <3>1. op[t] = "accept_follower"
      BY <2>2, <2>5, StepsNamed DEF ReadFollowId, AtCall
    <3>2. \A x \in Tasks :
            \/ op'[x] \in {"idle", "accept_follower"}
            \/ UNCHANGED <<op[x], user[x], peer[x], id[x], pc[x]>>
      BY <2>3, <2>5, <3>1 DEF ReadFollowId, End, Moved, TypeOK, TaskTypes
    <3>. QED
      BY <2>5, <3>2 DEF ReadFollowId, IdsFresh, history, counters
  <2>6. CASE ~ AddFollowing(t) /\ ~ ReadFollowId(t)
    <3>1. Moved(t) /\ UNCHANGED <<saved, operations>>
      BY <1>1, <2>3, <2>6
         DEF Step, RemoveFollowing, UpdateFollowingStatus, AddFollower, RemoveFollower,
             UpdateFollowerStatus, AddBlockedActor, RemoveBlockedActor, IsActorBlocked, Send,
             OnActorRemoved, OtherCall, CallFails, history, counters
    <3>. QED
      BY <2>1, <3>1, IdsMove
  <2>. QED
    BY <2>4, <2>5, <2>6
<1>2. ASSUME NEW t \in Tasks, NEW s \in Scripts, Start(t, s[1], s[2], s[3]) PROVE IdsFresh'
  <2>1. /\ operations \in Nat /\ operations' = operations + 1 /\ id'[t] = operations + 1
        /\ UNCHANGED saved
        /\ \A x \in Tasks \ {t} : UNCHANGED <<op[x], user[x], peer[x], id[x], pc[x]>>
    BY <1>2 DEF Start, history, TypeOK, TaskTypes, CounterTypes, Ids
  <2>2. op'[t] # "Accept" /\ user'[t] \in Users /\ peer'[t] \in Users
    BY <1>2, FollowsAssumption DEF Start, TypeOK, TaskTypes, FollowsAssumption, ServiceCalls
  <2>3. \A x \in Tasks : id[x] \in Nat
    BY FollowsAssumption DEF TypeOK, TaskTypes, Ids, FollowsAssumption
  <2>4. \A u, v \in Users : \A k \in saved[u][v] : k \in Nat
    BY FollowsAssumption DEF TypeOK, HistoryTypes, Ids, FollowsAssumption
  <2>. QED
    BY <2>1, <2>2, <2>3, <2>4 DEF IdsFresh
<1>3. ASSUME NEW t \in Tasks, NEW m \in net, Receive(t, m) PROVE IdsFresh'
  <2>1. /\ op'[t] = m.kind /\ user'[t] = m.to /\ peer'[t] = m.from
        /\ UNCHANGED <<saved, operations>>
        /\ \A x \in Tasks \ {t} : UNCHANGED <<op[x], user[x], peer[x], id[x], pc[x]>>
    BY <1>3 DEF Receive, history, counters, TypeOK, TaskTypes
  <2>2. m.kind # "follow" /\ (m.kind = "Accept" => saved[m.to][m.from] # {})
    BY DEF SavedInv, NetSaved, TypeOK, Activities, Handled
  <2>. QED
    BY <2>1, <2>2 DEF IdsFresh
<1>4. ASSUME NEW m \in net, Lose(m) PROVE IdsFresh'
  BY <1>4 DEF Lose, taskVars, history, IdsFresh
<1>5. ASSUME NEW s \in Servers, Crash(s) PROVE IdsFresh'
  BY <1>5 DEF Crash, IdsFresh
<1>6. CASE UNCHANGED vars
  BY <1>6 DEF vars, taskVars, history, counters, IdsFresh
<1>. QED
  BY <1>1, <1>2, <1>3, <1>4, <1>5, <1>6 DEF Next

-----------------------------------------------------------------------------
\* What a task or an activity can do to the follow of v by u.

Sent(m, kinds, u, v) == m.kind \in kinds /\ m.from = u /\ m.to = v

\* It is about to send the Follow, or handles it.
Carries(t, u, v) ==
  \/ Doing(t, "follow", u, v, 2)
  \/ op[t] = "Follow" /\ user[t] = v /\ peer[t] = u

\* It is about to remove the follower, or to tell v's server to.
Removes(t, u, v) ==
  \/ op[t] = "UndoFollow" /\ user[t] = v /\ peer[t] = u
  \/ op[t] = "Block" /\ user[t] = v /\ peer[t] = u /\ pc[t] <= 2
  \/ Doing(t, "reject_follower", v, u, 2)
  \/ Doing(t, "block_actor", u, v, 4)

\* It is about to end the follow on u's server, or to tell that server to.
Ends(t, u, v) ==
  \/ op[t] = "Reject" /\ user[t] = u /\ peer[t] = v
  \/ Doing(t, "Block", u, v, 1)
  \/ op[t] = "block_actor" /\ user[t] = v /\ peer[t] = u
  \/ Doing(t, "unfollow", u, v, 2)

\* It has read the id of the Follow to accept.
Reads(t, u, v) == Doing(t, "accept_follower", v, u, 2)

\* It is about to send the Accept, or to apply it.
Answers(t, u, v) ==
  \/ Doing(t, "accept_follower", v, u, 3)
  \/ Doing(t, "Accept", u, v, 1)

UnderWay(u, v) ==
  \/ \E t \in Tasks : Carries(t, u, v)
  \/ \E m \in net : Sent(m, {"Follow"}, u, v)

Removing(u, v) ==
  \/ \E t \in Tasks : Removes(t, u, v)
  \/ \E m \in net : Sent(m, {"UndoFollow", "Block"}, u, v)

Ending(u, v) ==
  \/ following[u][v] = "none"
  \/ \E t \in Tasks : Ends(t, u, v)
  \/ \E m \in net : Sent(m, {"Reject", "Block"}, v, u)

Unanswered(u, v) ==
  /\ following[u][v] # "Accepted"
  /\ \A t \in Tasks : ~ Answers(t, u, v)
  /\ \A m \in net : ~ Sent(m, {"Accept"}, v, u)

\* The server of v has not seen the Follow.
NotAdded(u, v) ==
  /\ follower[v][u] = "none"
  /\ Unanswered(u, v)
  /\ \A t \in Tasks : ~ Reads(t, u, v)

OneFollow(u, v) ==
  /\ \A t, x \in Tasks : Carries(t, u, v) /\ Carries(x, u, v) => t = x
  /\ \A m, n \in net : Sent(m, {"Follow"}, u, v) /\ Sent(n, {"Follow"}, u, v) => m = n
  /\ \A t \in Tasks, m \in net : ~ (Carries(t, u, v) /\ Sent(m, {"Follow"}, u, v))

\* What SettledAgreement presupposes, at any time.
Calm(u, v) ==
  /\ mishaps = 0 /\ <<u, v>> \notin untold
  /\ \A j, k \in saved[u][v] : j = k

\* The Follow is in one place until the follower is added; what removes the follower
\* came after the follow was recorded and ends it on u's server too; and until the
\* follower is accepted no answer is on its way.
OutcomeAt(u, v) ==
  Calm(u, v) =>
    /\ OneFollow(u, v)
    /\ UnderWay(u, v) => NotAdded(u, v)
    /\ Removing(u, v) => saved[u][v] # {} /\ Ending(u, v)
    /\ Ending(u, v) \/ Unanswered(u, v) \/ follower[v][u] = "Accepted"
    /\ (\E t \in Tasks : Reads(t, u, v)) => Ending(u, v) \/ follower[v][u] # "none"

\* The other tasks stand still.
OthersStay(t) == \A x \in Tasks \ {t} : UNCHANGED <<op[x], user[x], peer[x], pc[x]>>

LEMMA OthersDo ==
  ASSUME NEW t \in Tasks, OthersStay(t), NEW u, NEW v, NEW x \in Tasks, x # t
  PROVE  /\ Carries(x, u, v)' <=> Carries(x, u, v)
         /\ Removes(x, u, v)' <=> Removes(x, u, v)
         /\ Ends(x, u, v)' <=> Ends(x, u, v)
         /\ Answers(x, u, v)' <=> Answers(x, u, v)
         /\ Reads(x, u, v)' <=> Reads(x, u, v)
BY DEF OthersStay, Carries, Removes, Ends, Answers, Reads, Doing

\* No new Follow.
LEMMA FollowsKept ==
  ASSUME NEW t \in Tasks, OthersStay(t), NEW u, NEW v, OneFollow(u, v),
         Carries(t, u, v)' => Carries(t, u, v),
         \A m \in net' : Sent(m, {"Follow"}, u, v) => m \in net
  PROVE  OneFollow(u, v)' /\ (UnderWay(u, v)' => UnderWay(u, v))
<1>1. \A x \in Tasks : Carries(x, u, v)' => Carries(x, u, v)
  BY OthersDo
<1>. QED
  BY <1>1 DEF OneFollow, UnderWay, Sent

\* What is to end the follow still is, or has.
LEMMA EndingKept ==
  ASSUME NEW t \in Tasks, OthersStay(t), NEW u, NEW v,
         following[u][v] = "none" => following'[u][v] = "none",
         Ends(t, u, v) => Ending(u, v)',
         \A m \in net : Sent(m, {"Reject", "Block"}, v, u) => m \in net' \/ Ends(t, u, v)'
  PROVE  Ending(u, v) => Ending(u, v)'
<1>1. \A x \in Tasks : x # t /\ Ends(x, u, v) => Ends(x, u, v)'
  BY OthersDo
<1>. QED
  BY <1>1 DEF Ending, Sent

\* A step of one task that leaves the pair's invariant alone: each of its parts
\* changes as the others allow.
LEMMA OutcomeKept ==
  ASSUME NEW t \in Tasks, OthersStay(t), NEW u, NEW v, OutcomeAt(u, v), Calm(u, v),
         saved[u][v] \subseteq saved'[u][v],
         OneFollow(u, v)', UnderWay(u, v)' => UnderWay(u, v), Ending(u, v) => Ending(u, v)',
         Removes(t, u, v)' => Removing(u, v) \/ (saved[u][v] # {} /\ Ending(u, v)'),
         Answers(t, u, v)' => \/ ~ Unanswered(u, v)
                              \/ Reads(t, u, v) /\ (Ending(u, v)' \/ follower'[v][u] = "Accepted"),
         Reads(t, u, v)' => Reads(t, u, v) \/ follower[v][u] # "none",
         \A m \in net' : m \in net \/
           /\ Sent(m, {"Accept"}, v, u) => ~ Unanswered(u, v)
           /\ Sent(m, {"UndoFollow", "Block"}, u, v) =>
                Removing(u, v) \/ (saved[u][v] # {} /\ Ending(u, v)'),
         following'[u][v] = "Accepted" => ~ Unanswered(u, v),
         \/ follower'[v][u] = follower[v][u]
         \/ follower[v][u] # "none" /\ follower'[v][u] = "Accepted"
         \/ follower'[v][u] = "none" /\ Ending(u, v)'
  PROVE  OutcomeAt(u, v)'
<1>1. \A x \in Tasks : x # t =>
        /\ Removes(x, u, v)' <=> Removes(x, u, v)
        /\ Answers(x, u, v)' <=> Answers(x, u, v)
        /\ Reads(x, u, v)' <=> Reads(x, u, v)
  BY OthersDo
<1>2. /\ UnderWay(u, v) => NotAdded(u, v)
      /\ Removing(u, v) => saved[u][v] # {} /\ Ending(u, v)
      /\ Ending(u, v) \/ Unanswered(u, v) \/ follower[v][u] = "Accepted"
      /\ (\E x \in Tasks : Reads(x, u, v)) => Ending(u, v) \/ follower[v][u] # "none"
  BY DEF OutcomeAt
<1>3. Unanswered(u, v) =>
        \/ Unanswered(u, v)'
        \/ Reads(t, u, v) /\ (Ending(u, v)' \/ follower'[v][u] = "Accepted")
  BY <1>1 DEF Unanswered, Sent
<1>4. UnderWay(u, v)' => NotAdded(u, v)'
  <2>. SUFFICES ASSUME NotAdded(u, v) PROVE NotAdded(u, v)'
    BY <1>2
  <2>1. follower[v][u] = "none" /\ Unanswered(u, v) /\ \A x \in Tasks : ~ Reads(x, u, v)
    BY DEF NotAdded
  <2>2. Unanswered(u, v)'
    BY <1>3, <2>1
  <2>3. \A x \in Tasks : ~ Reads(x, u, v)'
    BY <1>1, <2>1
  <2>. QED
    BY <2>1, <2>2, <2>3 DEF NotAdded
<1>5. Removing(u, v)' => saved'[u][v] # {} /\ Ending(u, v)'
  <2>1. Removing(u, v)' => Removing(u, v) \/ (saved[u][v] # {} /\ Ending(u, v)')
    BY <1>1 DEF Removing, Sent
  <2>. QED
    BY <1>2, <2>1
<1>6. Ending(u, v)' \/ Unanswered(u, v)' \/ follower'[v][u] = "Accepted"
  BY <1>2, <1>3
<1>7. (\E x \in Tasks : Reads(x, u, v)') => Ending(u, v)' \/ follower'[v][u] # "none"
  BY <1>1, <1>2
<1>. QED
  BY <1>4, <1>5, <1>6, <1>7 DEF OutcomeAt

\* What was counted on stays true of the past.
LEMMA CalmBefore ==
  ASSUME TypeOK, [Next]_vars, NEW u \in Users, NEW v \in Users, Calm(u, v)'
  PROVE  /\ Calm(u, v) /\ mishaps' = mishaps /\ saved[u][v] \subseteq saved'[u][v]
<1>1. mishaps \in Nat
  BY FollowsAssumption DEF TypeOK, CounterTypes, FollowsAssumption
<1>2. mishaps' = 0 /\ <<u, v>> \notin untold' /\ \A j, k \in saved'[u][v] : j = k
  BY DEF Calm
<1>3. saved[u][v] \subseteq saved'[u][v]
  <2>1. CASE \E t \in Tasks : AddFollowing(t)
    BY <2>1, FollowsAssumption DEF AddFollowing, TypeOK, HistoryTypes
  <2>2. CASE UNCHANGED saved
    BY <2>2
  <2>. QED
    BY <2>1, <2>2
       DEF Next, Step, Start, Receive, Lose, Crash, RemoveFollowing, UpdateFollowingStatus,
           AddFollower, RemoveFollower, UpdateFollowerStatus, ReadFollowId, AddBlockedActor,
           RemoveBlockedActor, IsActorBlocked, Send, OnActorRemoved, OtherCall, CallFails,
           history, vars
<1>4. untold \subseteq untold'
  BY DEF Next, Step, Start, Receive, Lose, Crash, AddFollowing, RemoveFollowing,
         UpdateFollowingStatus, AddFollower, RemoveFollower, UpdateFollowerStatus, ReadFollowId,
         AddBlockedActor, RemoveBlockedActor, IsActorBlocked, Send, OnActorRemoved, OtherCall,
         CallFails, history, vars
<1>5. mishaps' = mishaps \/ mishaps' = mishaps + 1
  BY DEF Next, Step, Start, Receive, Lose, Crash, AddFollowing, RemoveFollowing,
         UpdateFollowingStatus, AddFollower, RemoveFollower, UpdateFollowerStatus, ReadFollowId,
         AddBlockedActor, RemoveBlockedActor, IsActorBlocked, Send, OnActorRemoved, OtherCall,
         CallFails, Mishap, counters, vars
<1>. QED
  BY <1>1, <1>2, <1>3, <1>4, <1>5 DEF Calm

\* A call that changes neither a follow nor the network.
LEMMA OtherCallOutcome ==
  ASSUME TypeOK, NEW t \in Tasks, Running(t), NEW u \in Users, NEW v \in Users,
         OutcomeAt(u, v), Calm(u, v),
         \/ AddBlockedActor(t) \/ RemoveBlockedActor(t) \/ IsActorBlocked(t)
         \/ OnActorRemoved(t) \/ OtherCall(t)
  PROVE  OutcomeAt(u, v)'
<1>1. /\ op[t] \in Operations \cup Handled /\ pc[t] \in DOMAIN Steps(op[t]) /\ pc[t] \in 1..4
  BY RunningTypes DEF TypeOK, TaskTypes
<1>2. UNCHANGED <<following, follower, saved, net>>
  BY DEF AddBlockedActor, RemoveBlockedActor, IsActorBlocked, OnActorRemoved, OtherCall, rows, history
<1>3. Moved(t)
  BY AdvanceMoves, EndMoves
     DEF AddBlockedActor, RemoveBlockedActor, IsActorBlocked, OnActorRemoved, OtherCall, TypeOK
<1>4. OthersStay(t)
  BY <1>3 DEF Moved, OthersStay
<1>5. \/ op[t] = "block_actor" /\ pc[t] = 1
      \/ op[t] = "Block" /\ pc[t] = 3
      \/ op[t] \in {"unblock_actor", "UndoBlock", "Follow"}
      \/ op[t] = "unfollow" /\ pc[t] = 3
      \/ op[t] = "UndoFollow"
      \/ op[t] = "Accept" /\ pc[t] = 2
  BY <1>1, BlockSteps, StepsPlaced
     DEF AddBlockedActor, RemoveBlockedActor, IsActorBlocked, OnActorRemoved, OtherCall, AtCall
<1>6. op[t] = "block_actor" => op'[t] = op[t] /\ UNCHANGED <<user[t], peer[t]>>
  <2>1. op[t] = "block_actor" => Advance(t) /\ pc[t] \in 1..3
    BY <1>1, <1>5, BlockSteps
       DEF AddBlockedActor, RemoveBlockedActor, IsActorBlocked, OnActorRemoved, OtherCall, AtCall
  <2>. QED
    BY <2>1, AdvancePlaces DEF TypeOK
<1>7. \/ op'[t] = "idle"
      \/ UNCHANGED <<op[t], user[t], peer[t]>> /\ pc'[t] = pc[t] + 1
  BY <1>3 DEF Moved
<1>8. /\ Carries(t, u, v)' => Carries(t, u, v)
      /\ Removes(t, u, v)' => Removes(t, u, v)
      /\ ~ Answers(t, u, v)'
      /\ ~ Reads(t, u, v)'
      /\ Ends(t, u, v) => Ends(t, u, v)'
  BY <1>1, <1>5, <1>6, <1>7 DEF Carries, Removes, Answers, Reads, Ends, Doing
<1>9. Ends(t, u, v) => Ending(u, v)'
  BY <1>8 DEF Ending
<1>10. Ending(u, v) => Ending(u, v)'
  BY <1>2, <1>4, <1>9, EndingKept
<1>11. OneFollow(u, v)' /\ (UnderWay(u, v)' => UnderWay(u, v))
  BY <1>2, <1>4, <1>8, FollowsKept DEF OutcomeAt
<1>12. Removes(t, u, v) => Removing(u, v)
  BY DEF Removing
<1>. QED
  BY <1>2, <1>4, <1>8, <1>10, <1>11, <1>12, OutcomeKept DEF Unanswered

\* A row of u's follows is removed.
LEMMA RemoveFollowingOutcome ==
  ASSUME TypeOK, NEW t \in Tasks, Running(t), NEW u \in Users, NEW v \in Users,
         OutcomeAt(u, v), Calm(u, v), Calm(u, v)', RemoveFollowing(t)
  PROVE  OutcomeAt(u, v)'
<1>1. /\ user[t] \in Users /\ peer[t] \in Users
      /\ op[t] \in Operations \cup Handled /\ pc[t] \in DOMAIN Steps(op[t]) /\ pc[t] \in 1..4
  BY RunningTypes DEF TypeOK, TaskTypes
<1>2. UNCHANGED <<follower, saved, net>> /\ untold' = untold \cup Untold(t)
  BY DEF RemoveFollowing
<1>3. following'[u][v] = IF u = user[t] /\ v = peer[t] THEN "none" ELSE following[u][v]
  BY <1>1 DEF RemoveFollowing, TypeOK, RowTypes
<1>4. OthersStay(t) /\ Moved(t)
  BY AdvanceMoves DEF RemoveFollowing, TypeOK, Moved, OthersStay
<1>5. \/ op[t] = "unfollow" /\ pc[t] = 2
      \/ op[t] \in {"Reject", "Block"} /\ pc[t] = 1
      \/ op[t] = "block_actor" /\ pc[t] = 3
  BY <1>1, StepsPlaced DEF RemoveFollowing, AtCall
<1>6. op[t] = "block_actor" => UNCHANGED <<op[t], user[t], peer[t]>> /\ pc'[t] = 4
  BY <1>5, AdvancePlaces DEF RemoveFollowing, TypeOK
<1>7. \/ op'[t] = "idle"
      \/ UNCHANGED <<op[t], user[t], peer[t]>> /\ pc'[t] = pc[t] + 1
  BY <1>4 DEF Moved
<1>8. Doing(t, "block_actor", u, v, 3) => saved[u][v] # {}
  <2>1. Doing(t, "block_actor", u, v, 3) /\ saved[u][v] = {} => <<u, v>> \in Untold(t)
    BY DEF Doing, Untold
  <2>. QED
    BY <1>2, <2>1 DEF Calm
<1>9. following'[u][v] = "none" => Ending(u, v)'
  BY DEF Ending
<1>10. /\ ~ Carries(t, u, v)'
       /\ Removes(t, u, v)' => Removes(t, u, v) \/ Doing(t, "block_actor", u, v, 3)
       /\ ~ Answers(t, u, v)'
       /\ ~ Reads(t, u, v)'
       /\ Ends(t, u, v) => Ends(t, u, v)' \/ (user[t] = u /\ peer[t] = v)
  BY <1>1, <1>5, <1>6, <1>7 DEF Carries, Removes, Answers, Reads, Ends, Doing
<1>11. Ends(t, u, v) => Ending(u, v)'
  BY <1>3, <1>9, <1>10 DEF Ending
<1>12. Removes(t, u, v)' => Removing(u, v) \/ (saved[u][v] # {} /\ Ending(u, v)')
  <2>1. Doing(t, "block_actor", u, v, 3) => Ending(u, v)'
    BY <1>3, <1>9 DEF Doing
  <2>. QED
    BY <1>8, <1>10, <2>1 DEF Removing
<1>13. Ending(u, v) => Ending(u, v)'
  BY <1>2, <1>3, <1>4, <1>11, EndingKept
<1>14. OneFollow(u, v)' /\ (UnderWay(u, v)' => UnderWay(u, v))
  BY <1>2, <1>4, <1>10, FollowsKept DEF OutcomeAt
<1>15. following'[u][v] = "Accepted" => ~ Unanswered(u, v)
  BY <1>3 DEF Unanswered
<1>. QED
  BY <1>2, <1>4, <1>10, <1>12, <1>13, <1>14, <1>15, OutcomeKept

\* A row of v's followers is removed.
LEMMA RemoveFollowerOutcome ==
  ASSUME TypeOK, NEW t \in Tasks, Running(t), NEW u \in Users, NEW v \in Users,
         OutcomeAt(u, v), Calm(u, v), Calm(u, v)', RemoveFollower(t)
  PROVE  OutcomeAt(u, v)'
<1>1. /\ user[t] \in Users /\ peer[t] \in Users
      /\ op[t] \in Operations \cup Handled /\ pc[t] \in DOMAIN Steps(op[t]) /\ pc[t] \in 1..4
  BY RunningTypes DEF TypeOK, TaskTypes
<1>2. UNCHANGED <<following, saved, net>> /\ untold' = untold \cup Untold(t)
  BY DEF RemoveFollower
<1>3. follower'[v][u] = IF v = user[t] /\ u = peer[t] THEN "none" ELSE follower[v][u]
  BY <1>1 DEF RemoveFollower, TypeOK, RowTypes
<1>4. OthersStay(t) /\ Moved(t)
  BY AdvanceMoves DEF RemoveFollower, TypeOK, Moved, OthersStay
<1>5. \/ op[t] \in {"UndoFollow", "remove_follower", "mark_follower_rejected"} /\ pc[t] = 1
      \/ op[t] \in {"Block", "reject_follower", "block_actor"} /\ pc[t] = 2
  BY <1>1, StepsPlaced DEF RemoveFollower, AtCall
<1>6. op[t] = "block_actor" => UNCHANGED <<op[t], user[t], peer[t]>> /\ pc'[t] = 3
  BY <1>5, AdvancePlaces DEF RemoveFollower, TypeOK
<1>7. \/ op'[t] = "idle"
      \/ UNCHANGED <<op[t], user[t], peer[t]>> /\ pc'[t] = pc[t] + 1
  BY <1>4 DEF Moved
<1>8. /\ ~ Carries(t, u, v)'
      /\ Removes(t, u, v)' => Removes(t, u, v)
      /\ ~ Answers(t, u, v)'
      /\ ~ Reads(t, u, v)'
      /\ Ends(t, u, v) => Ends(t, u, v)'
  BY <1>1, <1>5, <1>6, <1>7 DEF Carries, Removes, Answers, Reads, Ends, Doing
<1>9. Ends(t, u, v) => Ending(u, v)'
  BY <1>8 DEF Ending
<1>10. Ending(u, v) => Ending(u, v)'
  BY <1>2, <1>4, <1>9, EndingKept
<1>11. v = user[t] /\ u = peer[t] => Ending(u, v)'
  <2>. SUFFICES ASSUME v = user[t], u = peer[t] PROVE Ending(u, v)'
    OBVIOUS
  <2>1. CASE op[t] \in {"UndoFollow", "Block", "reject_follower"}
    <3>1. Removes(t, u, v)
      BY <1>5, <2>1 DEF Removes, Doing
    <3>2. Removing(u, v)
      BY <3>1 DEF Removing
    <3>. QED
      BY <1>10, <3>2 DEF OutcomeAt
  <2>2. CASE op[t] = "block_actor"
    BY <1>9, <2>2 DEF Ends
  <2>3. CASE op[t] \in {"remove_follower", "mark_follower_rejected"}
    <3>1. <<u, v>> \in Untold(t)
      BY <2>3 DEF Untold
    <3>. QED
      BY <1>2, <3>1 DEF Calm
  <2>. QED
    BY <1>5, <2>1, <2>2, <2>3
<1>12. OneFollow(u, v)' /\ (UnderWay(u, v)' => UnderWay(u, v))
  BY <1>2, <1>4, <1>8, FollowsKept DEF OutcomeAt
<1>13. Removes(t, u, v) => Removing(u, v)
  BY DEF Removing
<1>14. \/ follower'[v][u] = follower[v][u]
       \/ follower'[v][u] = "none" /\ Ending(u, v)'
  BY <1>3, <1>11
<1>15. following'[u][v] = "Accepted" => ~ Unanswered(u, v)
  BY <1>2 DEF Unanswered
<1>. QED
  BY <1>2, <1>4, <1>8, <1>10, <1>12, <1>13, <1>14, <1>15, OutcomeKept

\* An Accept is applied, a follower accepted, or its Follow read.
LEMMA AnswerOutcome ==
  ASSUME TypeOK, NEW t \in Tasks, Running(t), NEW u \in Users, NEW v \in Users,
         OutcomeAt(u, v), Calm(u, v),
         UpdateFollowingStatus(t) \/ UpdateFollowerStatus(t) \/ ReadFollowId(t)
  PROVE  OutcomeAt(u, v)'
<1>1. /\ user[t] \in Users /\ peer[t] \in Users
      /\ op[t] \in Operations \cup Handled /\ pc[t] \in DOMAIN Steps(op[t]) /\ pc[t] \in 1..4
  BY RunningTypes DEF TypeOK, TaskTypes
<1>2. UNCHANGED <<saved, net>>
  BY DEF UpdateFollowingStatus, UpdateFollowerStatus, ReadFollowId, rows, history
<1>3. /\ \/ op[t] = "Accept" /\ pc[t] = 1
         \/ op[t] = "accept_follower" /\ pc[t] \in 1..2
         \/ op[t] = "mark_follower_accepted"
      /\ UpdateFollowingStatus(t) => op[t] = "Accept" /\ pc[t] = 1
      /\ UpdateFollowerStatus(t) => op[t] # "Accept" /\ (op[t] = "accept_follower" => pc[t] = 2)
      /\ ReadFollowId(t) => op[t] = "accept_follower" /\ pc[t] = 1
  BY <1>1, StepsPlaced, StepsNamed
     DEF UpdateFollowingStatus, UpdateFollowerStatus, ReadFollowId, AtCall
<1>4. /\ OthersStay(t)
      /\ \/ op'[t] = "idle"
         \/ UNCHANGED <<op[t], user[t], peer[t]>> /\ pc'[t] = pc[t] + 1
  <2>1. CASE UpdateFollowingStatus(t) \/ UpdateFollowerStatus(t)
    BY <2>1, AdvanceMoves DEF UpdateFollowingStatus, UpdateFollowerStatus, TypeOK, Moved, OthersStay
  <2>2. CASE ReadFollowId(t)
    BY <2>2, EndMoves DEF ReadFollowId, TypeOK, TaskTypes, Moved, OthersStay
  <2>. QED
    BY <2>1, <2>2
<1>5. following'[u][v] = following[u][v] \/ (following[u][v] # "none" /\ Answers(t, u, v))
  <2>1. CASE UpdateFollowingStatus(t)
    <3>1. following'[u][v] = IF u = user[t] /\ v = peer[t] /\ following[u][v] # "none"
                             THEN "Accepted" ELSE following[u][v]
      BY <1>1, <2>1 DEF UpdateFollowingStatus, TypeOK, RowTypes
    <3>. QED
      BY <1>3, <2>1, <3>1 DEF Answers, Doing
  <2>2. CASE UpdateFollowerStatus(t) \/ ReadFollowId(t)
    BY <2>2 DEF UpdateFollowerStatus, ReadFollowId, rows
  <2>. QED
    BY <2>1, <2>2
<1>6. /\ follower'[v][u] = follower[v][u] \/ (follower[v][u] # "none" /\ follower'[v][u] = "Accepted")
      /\ UpdateFollowerStatus(t) /\ user[t] = v /\ peer[t] = u /\ follower[v][u] # "none" =>
           follower'[v][u] = "Accepted"
  <2>1. CASE UpdateFollowerStatus(t)
    <3>1. follower'[v][u] = IF v = user[t] /\ u = peer[t] /\ follower[v][u] # "none"
                            THEN "Accepted" ELSE follower[v][u]
      BY <1>1, <2>1 DEF UpdateFollowerStatus, TypeOK, RowTypes
    <3>. QED
      BY <3>1
  <2>2. CASE UpdateFollowingStatus(t) \/ ReadFollowId(t)
    <3>1. UNCHANGED follower
      BY <2>2 DEF UpdateFollowingStatus, ReadFollowId, rows
    <3>2. ~ UpdateFollowerStatus(t)
      BY <1>3, <2>2
    <3>. QED
      BY <3>1, <3>2
  <2>. QED
    BY <2>1, <2>2
<1>7. /\ ~ Carries(t, u, v)' /\ ~ Removes(t, u, v)' /\ ~ Ends(t, u, v)
      /\ Answers(t, u, v)' => Reads(t, u, v) /\ UpdateFollowerStatus(t)
      /\ Reads(t, u, v)' => ReadFollowId(t) /\ op'[t] # "idle" /\ user[t] = v /\ peer[t] = u
  BY <1>1, <1>3, <1>4 DEF Carries, Removes, Answers, Reads, Ends, Doing
<1>8. Ending(u, v) => Ending(u, v)'
  BY <1>2, <1>4, <1>5, <1>7, EndingKept
<1>9. OneFollow(u, v)' /\ (UnderWay(u, v)' => UnderWay(u, v))
  BY <1>2, <1>4, <1>7, FollowsKept DEF OutcomeAt
<1>10. Answers(t, u, v)' => Reads(t, u, v) /\ (Ending(u, v)' \/ follower'[v][u] = "Accepted")
  BY <1>6, <1>7, <1>8 DEF OutcomeAt, Reads, Doing
<1>11. Reads(t, u, v)' => follower[v][u] # "none"
  BY <1>7 DEF ReadFollowId, End, TypeOK, TaskTypes
<1>12. following'[u][v] = "Accepted" => ~ Unanswered(u, v)
  BY <1>5 DEF Unanswered
<1>. QED
  BY <1>2, <1>4, <1>6, <1>7, <1>8, <1>9, <1>10, <1>11, <1>12, OutcomeKept

\* An activity is handed to the network.
LEMMA SendOutcome ==
  ASSUME TypeOK, NEW t \in Tasks, Running(t), NEW u \in Users, NEW v \in Users,
         OutcomeAt(u, v), Calm(u, v), Calm(u, v)', Send(t)
  PROVE  OutcomeAt(u, v)'
<1>. DEFINE m == [kind |-> Sends[op[t]], from |-> user[t], to |-> peer[t],
                  id |-> id[t], follow |-> ref[t]]
<1>1. /\ user[t] \in Users /\ peer[t] \in Users
      /\ op[t] \in Operations \cup Handled /\ pc[t] \in DOMAIN Steps(op[t]) /\ pc[t] \in 1..4
  BY RunningTypes DEF TypeOK, TaskTypes
<1>2. /\ UNCHANGED <<following, follower, saved>> /\ untold' = untold \cup Untold(t)
      /\ net' = net \cup {m}
  BY DEF Send, rows
<1>3. OthersStay(t) /\ Moved(t)
  BY AdvanceMoves DEF Send, TypeOK, Moved, OthersStay
<1>4. \/ op[t] \in {"unfollow", "reject_follower"} /\ pc[t] = 1
      \/ op[t] \in {"follow", "unblock_actor"} /\ pc[t] = 2
      \/ op[t] = "accept_follower" /\ pc[t] = 3
      \/ op[t] = "block_actor" /\ pc[t] = 4
  BY <1>1, StepsPlaced DEF Send, AtCall
<1>5. /\ m.from = user[t] /\ m.to = peer[t]
      /\ op[t] = "follow" <=> m.kind = "Follow"
      /\ op[t] = "unfollow" <=> m.kind = "UndoFollow"
      /\ op[t] = "accept_follower" <=> m.kind = "Accept"
      /\ op[t] = "reject_follower" <=> m.kind = "Reject"
      /\ op[t] = "block_actor" <=> m.kind = "Block"
  BY <1>4 DEF Sends
<1>. HIDE DEF m
<1>6. /\ op[t] = "unfollow" => UNCHANGED <<op[t], user[t], peer[t]>> /\ pc'[t] = 2
      /\ op[t] = "follow" => op'[t] = "idle"
  BY <1>4, AdvancePlaces DEF Send, TypeOK
<1>7. \/ op'[t] = "idle"
      \/ UNCHANGED <<op[t], user[t], peer[t]>> /\ pc'[t] = pc[t] + 1
  BY <1>3 DEF Moved
<1>8. /\ ~ Carries(t, u, v)'
      /\ Removes(t, u, v)' => op[t] = "reject_follower" /\ user[t] = v /\ peer[t] = u
      /\ ~ Answers(t, u, v)'
      /\ ~ Reads(t, u, v)'
      /\ Ends(t, u, v) => op[t] = "block_actor" /\ user[t] = v /\ peer[t] = u
  BY <1>1, <1>4, <1>6, <1>7 DEF Carries, Removes, Answers, Reads, Ends, Doing
<1>9. op[t] \in {"block_actor", "reject_follower"} /\ user[t] = v /\ peer[t] = u => Ending(u, v)'
  BY <1>2, <1>5 DEF Ending, Sent
<1>10. Ending(u, v) => Ending(u, v)'
  BY <1>2, <1>3, <1>8, <1>9, EndingKept
<1>11. /\ OneFollow(u, v)'
       /\ UnderWay(u, v)' => UnderWay(u, v)
  <2>1. CASE Sent(m, {"Follow"}, u, v)
    <3>1. Carries(t, u, v)
      BY <1>4, <1>5, <2>1 DEF Sent, Carries, Doing
    <3>2. \A x \in Tasks : ~ Carries(x, u, v)'
      BY <1>3, <1>8, <3>1, OthersDo DEF OutcomeAt, OneFollow
    <3>3. \A n \in net : ~ Sent(n, {"Follow"}, u, v)
      BY <3>1 DEF OutcomeAt, OneFollow
    <3>4. \A n \in net' : Sent(n, {"Follow"}, u, v) => n = m
      BY <1>2, <3>3
    <3>5. OneFollow(u, v)'
      BY <3>2, <3>4 DEF OneFollow, Sent
    <3>. QED
      BY <3>1, <3>5 DEF UnderWay
  <2>2. CASE ~ Sent(m, {"Follow"}, u, v)
    BY <1>2, <1>3, <1>8, <2>2, FollowsKept DEF OutcomeAt
  <2>. QED
    BY <2>1, <2>2
<1>12. op[t] = "reject_follower" /\ user[t] = v /\ peer[t] = u => saved[u][v] # {}
  <2>1. op[t] = "reject_follower" /\ user[t] = v /\ peer[t] = u /\ saved[u][v] = {} =>
          <<u, v>> \in Untold(t)
    BY DEF Untold
  <2>. QED
    BY <1>2, <2>1 DEF Calm
<1>13. Sent(m, {"Accept"}, v, u) => ~ Unanswered(u, v)
  BY <1>4, <1>5 DEF Sent, Unanswered, Answers, Doing
<1>14. Sent(m, {"UndoFollow", "Block"}, u, v) =>
         Removing(u, v) \/ (saved[u][v] # {} /\ Ending(u, v)')
  <2>. SUFFICES ASSUME Sent(m, {"UndoFollow", "Block"}, u, v)
                PROVE  Removing(u, v) \/ (saved[u][v] # {} /\ Ending(u, v)')
    OBVIOUS
  <2>1. user[t] = u /\ peer[t] = v /\ op[t] \in {"unfollow", "block_actor"}
    BY <1>5 DEF Sent
  <2>2. CASE op[t] = "unfollow"
    <3>1. Ends(t, u, v)'
      BY <1>6, <2>1, <2>2 DEF Ends, Doing
    <3>2. saved[u][v] = {} => <<u, v>> \in Untold(t)
      BY <2>1, <2>2 DEF Untold
    <3>. QED
      BY <1>2, <3>1, <3>2 DEF Ending, Calm
  <2>3. CASE op[t] = "block_actor"
    BY <1>4, <2>1, <2>3 DEF Removing, Removes, Doing
  <2>. QED
    BY <2>1, <2>2, <2>3
<1>15. following'[u][v] = "Accepted" => ~ Unanswered(u, v)
  BY <1>2 DEF Unanswered
<1>. QED
  BY <1>2, <1>3, <1>8, <1>9, <1>10, <1>11, <1>12, <1>13, <1>14, <1>15, OutcomeKept

\* The Follow arrives in the table of followers.
LEMMA AddFollowerOutcome ==
  ASSUME TypeOK, NEW t \in Tasks, Running(t), NEW u \in Users, NEW v \in Users,
         OutcomeAt(u, v), Calm(u, v), AddFollower(t)
  PROVE  OutcomeAt(u, v)'
<1>1. /\ user[t] \in Users /\ peer[t] \in Users
      /\ op[t] \in Operations \cup Handled /\ pc[t] \in DOMAIN Steps(op[t])
  BY RunningTypes DEF TypeOK, TaskTypes
<1>2. UNCHANGED <<following, saved, net>>
  BY DEF AddFollower
<1>3. follower'[v][u] = IF v = user[t] /\ u = peer[t] THEN "Pending" ELSE follower[v][u]
  BY <1>1 DEF AddFollower, TypeOK, RowTypes
<1>4. op[t] = "Follow" /\ op'[t] = "idle" /\ OthersStay(t)
  <2>1. op[t] = "Follow" /\ pc[t] = 4
    BY <1>1, BlockSteps DEF AddFollower, AtCall
  <2>. QED
    BY <2>1, AdvancePlaces DEF AddFollower, TypeOK, Moved, OthersStay
<1>5. /\ ~ Carries(t, u, v)' /\ ~ Removes(t, u, v)' /\ ~ Answers(t, u, v)' /\ ~ Reads(t, u, v)'
      /\ ~ Ends(t, u, v)
  BY <1>4 DEF Carries, Removes, Answers, Reads, Ends, Doing
<1>6. Ending(u, v) => Ending(u, v)'
  BY <1>2, <1>4, <1>5, EndingKept
<1>7. OneFollow(u, v)' /\ (UnderWay(u, v)' => UnderWay(u, v))
  BY <1>2, <1>4, <1>5, FollowsKept DEF OutcomeAt
<1>8. CASE v = user[t] /\ u = peer[t]
  <2>1. Carries(t, u, v)
    BY <1>4, <1>8 DEF Carries
  <2>2. NotAdded(u, v)
    BY <2>1 DEF OutcomeAt, UnderWay
  <2>3. ~ UnderWay(u, v)'
    <3>1. \A x \in Tasks : ~ Carries(x, u, v)'
      BY <1>4, <1>5, <2>1, OthersDo DEF OutcomeAt, OneFollow
    <3>2. \A n \in net' : ~ Sent(n, {"Follow"}, u, v)
      BY <1>2, <2>1 DEF OutcomeAt, OneFollow
    <3>. QED
      BY <3>1, <3>2 DEF UnderWay, Sent
  <2>4. Unanswered(u, v)'
    BY <1>2, <1>4, <1>5, <2>2, OthersDo DEF NotAdded, Unanswered, Sent
  <2>5. Removing(u, v)' => Removing(u, v)
    BY <1>2, <1>4, <1>5, OthersDo DEF Removing, Sent
  <2>6. follower'[v][u] # "none"
    BY <1>3, <1>8
  <2>. QED
    BY <1>2, <1>6, <1>7, <2>3, <2>4, <2>5, <2>6 DEF OutcomeAt
<1>9. CASE ~ (v = user[t] /\ u = peer[t])
  BY <1>2, <1>3, <1>4, <1>5, <1>6, <1>7, <1>9, OutcomeKept DEF Unanswered
<1>. QED
  BY <1>8, <1>9

\* The follow is recorded, for the first time.
LEMMA AddFollowingOutcome ==
  ASSUME TypeOK, SavedInv, IdsFresh, NEW t \in Tasks, Running(t), NEW u \in Users, NEW v \in Users,
         OutcomeAt(u, v), Calm(u, v), Calm(u, v)', AddFollowing(t)
  PROVE  OutcomeAt(u, v)'
<1>1. /\ user[t] \in Users /\ peer[t] \in Users
      /\ op[t] \in Operations \cup Handled /\ pc[t] \in DOMAIN Steps(op[t])
  BY RunningTypes DEF TypeOK, TaskTypes
<1>2. UNCHANGED <<follower, net>>
  BY DEF AddFollowing
<1>3. /\ following'[u][v] = IF u = user[t] /\ v = peer[t] THEN "Pending" ELSE following[u][v]
      /\ saved'[u][v] = IF u = user[t] /\ v = peer[t] THEN saved[u][v] \cup {id[t]} ELSE saved[u][v]
  BY <1>1 DEF AddFollowing, TypeOK, RowTypes, HistoryTypes
<1>4. op[t] = "follow" /\ pc[t] = 1
  BY <1>1, StepsNamed DEF AddFollowing, AtCall
<1>5. /\ OthersStay(t)
      /\ op'[t] = "follow" /\ user'[t] = user[t] /\ peer'[t] = peer[t] /\ pc'[t] = 2
  BY <1>4, AdvancePlaces DEF AddFollowing, TypeOK, Moved, OthersStay
<1>6. /\ Carries(t, u, v)' <=> user[t] = u /\ peer[t] = v
      /\ ~ Removes(t, u, v)' /\ ~ Answers(t, u, v)' /\ ~ Reads(t, u, v)'
      /\ ~ Ends(t, u, v)
  BY <1>4, <1>5 DEF Carries, Removes, Answers, Reads, Ends, Doing
<1>7. CASE u = user[t] /\ v = peer[t]
  <2>1. saved[u][v] = {}
    <3>1. id[t] \notin saved[u][v]
      BY <1>4, <1>7 DEF IdsFresh
    <3>2. saved'[u][v] = saved[u][v] \cup {id[t]}
      BY <1>3, <1>7
    <3>. QED
      BY <3>1, <3>2 DEF Calm
  <2>2. ~ UnderWay(u, v)
    BY <2>1 DEF UnderWay, Carries, Doing, Sent, SavedInv, NetSaved, TaskSaved
  <2>3. follower[v][u] = "none"
    BY <2>1 DEF SavedInv, RowSaved
  <2>4. /\ \A m \in net : ~ Sent(m, {"Accept"}, v, u)
        /\ \A x \in Tasks : ~ Answers(x, u, v) /\ ~ Reads(x, u, v)
    BY <2>1 DEF Sent, Answers, Reads, Doing, SavedInv, NetSaved, TaskSaved, IdsFresh
  <2>5. ~ Removing(u, v)
    BY <2>1 DEF OutcomeAt
  <2>6. NotAdded(u, v)'
    BY <1>2, <1>3, <1>5, <1>6, <1>7, <2>3, <2>4, OthersDo DEF NotAdded, Unanswered, Sent
  <2>7. ~ Removing(u, v)'
    BY <1>2, <1>5, <1>6, <2>5, OthersDo DEF Removing, Sent
  <2>8. OneFollow(u, v)'
    <3>1. \A x \in Tasks : Carries(x, u, v)' => x = t
      BY <1>5, <2>2, OthersDo DEF UnderWay
    <3>2. \A m \in net' : ~ Sent(m, {"Follow"}, u, v)
      BY <1>2, <2>2 DEF UnderWay
    <3>. QED
      BY <3>1, <3>2 DEF OneFollow, Sent
  <2>. QED
    BY <2>6, <2>7, <2>8 DEF OutcomeAt, NotAdded
<1>8. CASE ~ (u = user[t] /\ v = peer[t])
  <2>1. Ending(u, v) => Ending(u, v)'
    BY <1>2, <1>3, <1>5, <1>6, <1>8, EndingKept
  <2>2. OneFollow(u, v)' /\ (UnderWay(u, v)' => UnderWay(u, v))
    BY <1>2, <1>5, <1>6, <1>8, FollowsKept DEF OutcomeAt
  <2>. QED
    BY <1>2, <1>3, <1>5, <1>6, <1>8, <2>1, <2>2, OutcomeKept DEF Unanswered
<1>. QED
  BY <1>7, <1>8

\* An activity is received: its handler is about to do what it asks.
LEMMA ReceiveOutcome ==
  ASSUME TypeOK, NEW u \in Users, NEW v \in Users, OutcomeAt(u, v), Calm(u, v),
         NEW t \in Tasks, NEW m \in net, Receive(t, m)
  PROVE  OutcomeAt(u, v)'
<1>1. UNCHANGED <<following, follower, saved>> /\ net' = net \ {m}
  BY DEF Receive, rows, history
<1>2. /\ OthersStay(t) /\ op[t] = "idle"
      /\ op'[t] = m.kind /\ user'[t] = m.to /\ peer'[t] = m.from /\ pc'[t] = 1
  BY DEF Receive, Running, TypeOK, TaskTypes, OthersStay
<1>3. m.kind \in Handled
  BY DEF TypeOK, Activities
<1>4. /\ ~ Carries(t, u, v) /\ ~ Removes(t, u, v) /\ ~ Ends(t, u, v)
      /\ ~ Answers(t, u, v) /\ ~ Reads(t, u, v)
  BY <1>2 DEF Carries, Removes, Ends, Answers, Reads, Doing
<1>5. /\ Carries(t, u, v)' <=> Sent(m, {"Follow"}, u, v)
      /\ Removes(t, u, v)' <=> Sent(m, {"UndoFollow", "Block"}, u, v)
      /\ Ends(t, u, v)' <=> Sent(m, {"Reject", "Block"}, v, u)
      /\ Answers(t, u, v)' <=> Sent(m, {"Accept"}, v, u)
      /\ ~ Reads(t, u, v)'
  BY <1>2, <1>3 DEF Carries, Removes, Ends, Answers, Reads, Doing, Sent, Handled
<1>6. Ending(u, v) => Ending(u, v)'
  BY <1>1, <1>2, <1>4, <1>5, EndingKept
<1>7. /\ OneFollow(u, v)'
      /\ UnderWay(u, v)' => UnderWay(u, v)
  <2>1. CASE Sent(m, {"Follow"}, u, v)
    <3>1. \A x \in Tasks : Carries(x, u, v)' => x = t
      BY <1>2, <2>1, OthersDo DEF OutcomeAt, OneFollow
    <3>2. \A n \in net' : ~ Sent(n, {"Follow"}, u, v)
      BY <1>1, <2>1 DEF OutcomeAt, OneFollow
    <3>. QED
      BY <2>1, <3>1, <3>2 DEF OneFollow, UnderWay, Sent
  <2>2. CASE ~ Sent(m, {"Follow"}, u, v)
    BY <1>1, <1>2, <1>5, <2>2, FollowsKept DEF OutcomeAt
  <2>. QED
    BY <2>1, <2>2
<1>8. Removes(t, u, v)' => Removing(u, v)
  BY <1>5 DEF Removing
<1>9. Answers(t, u, v)' => ~ Unanswered(u, v)
  BY <1>5 DEF Unanswered
<1>10. following'[u][v] = "Accepted" => ~ Unanswered(u, v)
  BY <1>1 DEF Unanswered
<1>. QED
  BY <1>1, <1>2, <1>5, <1>6, <1>7, <1>8, <1>9, <1>10, OutcomeKept

\* An operation begins.
LEMMA StartOutcome ==
  ASSUME TypeOK, NEW u \in Users, NEW v \in Users, OutcomeAt(u, v), Calm(u, v),
         NEW t \in Tasks, NEW s \in Scripts, Start(t, s[1], s[2], s[3])
  PROVE  OutcomeAt(u, v)'
<1>1. UNCHANGED <<following, follower, saved, net>>
  BY DEF Start, rows, history
<1>2. OthersStay(t) /\ op[t] = "idle" /\ op'[t] \in Operations /\ pc'[t] = 1
  BY FollowsAssumption
     DEF Start, Running, TypeOK, TaskTypes, OthersStay, FollowsAssumption, Operations
<1>3. /\ ~ Ends(t, u, v) /\ ~ Carries(t, u, v)' /\ ~ Removes(t, u, v)'
      /\ ~ Answers(t, u, v)' /\ ~ Reads(t, u, v)'
  BY <1>2 DEF Carries, Removes, Ends, Answers, Reads, Doing, Operations, ServiceCalls
<1>4. Ending(u, v) => Ending(u, v)'
  BY <1>1, <1>2, <1>3, EndingKept
<1>5. OneFollow(u, v)' /\ (UnderWay(u, v)' => UnderWay(u, v))
  BY <1>1, <1>2, <1>3, FollowsKept DEF OutcomeAt
<1>. QED
  BY <1>1, <1>2, <1>3, <1>4, <1>5, OutcomeKept DEF Unanswered

OutcomeInv == \A u, v \in Users : OutcomeAt(u, v)

LEMMA OutcomeStep ==
  TypeOK /\ SavedInv /\ IdsFresh /\ OutcomeInv /\ [Next]_vars => OutcomeInv'
<1>. SUFFICES ASSUME TypeOK, SavedInv, IdsFresh, OutcomeInv, [Next]_vars,
                     NEW u \in Users, NEW v \in Users, Calm(u, v)'
              PROVE  OutcomeAt(u, v)'
  BY DEF OutcomeInv, OutcomeAt
<1>1. /\ OutcomeAt(u, v) /\ Calm(u, v) /\ mishaps' = 0 /\ mishaps = 0
  BY CalmBefore DEF OutcomeInv, Calm
<1>2. ASSUME NEW t \in Tasks, Step(t) PROVE OutcomeAt(u, v)'
  <2>1. Running(t)
    BY <1>2 DEF Step, AddFollowing, RemoveFollowing, UpdateFollowingStatus, AddFollower,
         RemoveFollower, UpdateFollowerStatus, ReadFollowId, AddBlockedActor,
         RemoveBlockedActor, IsActorBlocked, Send, OnActorRemoved, OtherCall, CallFails, AtCall
  <2>2. ~ CallFails(t)
    BY <1>1 DEF CallFails, Mishap
  <2>. QED
    BY <1>1, <1>2, <2>1, <2>2, OtherCallOutcome, RemoveFollowingOutcome, RemoveFollowerOutcome,
       AnswerOutcome, SendOutcome, AddFollowerOutcome, AddFollowingOutcome
    DEF Step
<1>3. ASSUME NEW t \in Tasks, NEW s \in Scripts, Start(t, s[1], s[2], s[3])
      PROVE  OutcomeAt(u, v)'
  BY <1>1, <1>3, StartOutcome
<1>4. ASSUME NEW t \in Tasks, NEW m \in net, Receive(t, m) PROVE OutcomeAt(u, v)'
  BY <1>1, <1>4, ReceiveOutcome
<1>5. ~ (\E m \in net : Lose(m)) /\ ~ (\E s \in Servers : Crash(s))
  BY <1>1 DEF Lose, Crash, Mishap
<1>6. CASE UNCHANGED vars
  BY <1>1, <1>6 DEF vars, rows, taskVars, history, counters, OutcomeAt, Calm, OneFollow, UnderWay,
     NotAdded, Removing, Ending, Unanswered, Carries, Removes, Ends, Answers, Reads, Doing, Sent
<1>. QED
  BY <1>2, <1>3, <1>4, <1>5, <1>6 DEF Next

\* When all is done between two users, no call failed and nothing was lost, the follower
\* believes that a single follow was accepted only if the followed user has it as an
\* accepted follower: in whatever order activities arrive and operations of both cross.
THEOREM SettledAgreementHolds == Spec => []SettledAgreement
<1>1. Init => IdsFresh /\ OutcomeInv
  <2>1. Init => IdsFresh
    BY DEF Init, IdsFresh
  <2>2. Init => OutcomeInv
    BY DEF Init, OutcomeInv, OutcomeAt, OneFollow, UnderWay, Removing, Ending, Unanswered, Carries,
           Removes, Answers, Reads, Doing
  <2>. QED
    BY <2>1, <2>2
<1>2. TypeOK /\ OutcomeInv => SettledAgreement
  <2>. SUFFICES ASSUME TypeOK, OutcomeInv, NEW u \in Users, NEW v \in Users,
                       Settled(u, v), mishaps = 0, Cardinality(saved[u][v]) = 1,
                       <<u, v>> \notin untold, following[u][v] = "Accepted"
                PROVE  follower[v][u] = "Accepted"
    BY DEF SettledAgreement
  <2>1. Calm(u, v)
    <3>1. IsFiniteSet(saved[u][v])
      <4>1. saved[u][v] \subseteq Ids /\ IsFiniteSet(Ids)
        BY FollowsAssumption, FS_Interval DEF TypeOK, HistoryTypes, Ids, FollowsAssumption
      <4>. QED
        BY <4>1, FS_Subset
    <3>2. \E k : saved[u][v] = {k}
      BY <3>1, FS_Singleton
    <3>. QED
      BY <3>2 DEF Calm
  <2>2. ~ Ending(u, v)
    BY DEF Settled, Ending, Ends, Doing, Sent
  <2>3. ~ Unanswered(u, v)
    BY DEF Unanswered
  <2>. QED
    BY <2>1, <2>2, <2>3 DEF OutcomeInv, OutcomeAt
<1>3. Init => SavedInv
  BY DEF Init, SavedInv, NetSaved, RowSaved, TaskSaved
<1>. QED
  BY <1>1, <1>2, <1>3, SavedStep, IdsStep, OutcomeStep, TypeCorrect, PTL DEF Spec

=============================================================================
