------------------------------ MODULE Handlers ------------------------------
(***************************************************************************)
(* What the operations of k-ap call: an operation is the sequence of the   *)
(* awaited calls it makes on the repositories, on ApObjectHandler and on   *)
(* the network.  A call whose error is returned with `?' is Fatal, one     *)
(* whose error is only logged is Logged, and a Check may end the operation *)
(* early with Ok.  A Guard is a condition on what has been read, which ends *)
(* the operation with a bad_request when it does not hold; a Refusal is one *)
(* that never holds.  Everything between two awaits is one step.           *)
(***************************************************************************)
EXTENDS Naturals, Sequences

Call(name, mode) == [name |-> name, mode |-> mode]
Fatal(name)  == Call(name, "fatal")
Logged(name) == Call(name, "logged")
Check(name)  == Call(name, "check")
Guard(name)   == Call(name, "guard")
Refusal(name) == Call(name, "refusal")

(* The receive() of the inbound activities, after check_guards.            *)

FollowCalls == <<Check("is_actor_blocked"), Fatal("dereference"),
                 Fatal("dereference"), Fatal("add_follower")>>
AcceptCalls == <<Fatal("update_following_status"), Logged("publish")>>
\* The Follow it accepts is of no user of this server.
AcceptOtherCalls == <<Refusal("extract_user_id")>>
RejectCalls == <<Fatal("remove_following")>>
\* One call stands for those of all tagged local users: each is only logged.
DispatchMentions == Logged("on_mention")

CreateCalls == <<DispatchMentions, Fatal("on_create")>>
UpdateCalls == <<DispatchMentions, Fatal("on_update")>>
AddCalls    == <<Fatal("on_create")>>
LikeCalls   == <<Fatal("on_like")>>
DeleteNoteCalls  == <<Fatal("on_delete")>>
DeleteActorCalls == <<Fatal("on_actor_removed")>>
AnnounceCalls == <<Fatal("add_announce"), Logged("on_announce_received")>>
AnnounceOfRemoteCalls == <<Logged("on_announce_of_remote")>>
\* Mutant: a Block leaves the follow of the blocked actor.
BlockKeepsFollowing == <<Logged("remove_follower"), Logged("add_blocked_actor")>>

BlockCalls == <<Logged("remove_following"), Logged("remove_follower"),
                Logged("add_blocked_actor")>>
MoveCalls  == <<Fatal("dereference"), Guard("also_known_as"),
                Fatal("migrate_follower_actor")>>
UndoFollowCalls   == <<Fatal("remove_follower"), Fatal("on_actor_removed")>>
\* The object of the Follow is missing, or no user of this server.
UndoFollowOtherCalls == <<Fatal("on_actor_removed")>>
UndoAddCalls      == <<Fatal("on_delete")>>
UndoLikeCalls     == <<Logged("on_unlike")>>
UndoAnnounceCalls == <<Logged("remove_announce"), Logged("on_announce_removed")>>
UndoAnnounceOfRemoteCalls == <<Logged("remove_announce")>>
UndoBlockCalls    == <<Logged("remove_blocked_actor")>>

\* A Reject, Block, Like, Delete or Undo without a user or an object of this
\* server in it does nothing: UndoOther stands for them all.

HandlerCalls ==
  [Follow |-> FollowCalls, Accept |-> AcceptCalls, AcceptOther |-> AcceptOtherCalls,
   Reject |-> RejectCalls,
   Create |-> CreateCalls, Update |-> UpdateCalls, Add |-> AddCalls,
   Like |-> LikeCalls,
   DeleteNote |-> DeleteNoteCalls, DeleteActor |-> DeleteActorCalls,
   Announce |-> AnnounceCalls, AnnounceOfRemote |-> AnnounceOfRemoteCalls,
   Block |-> BlockCalls, Move |-> MoveCalls,
   UndoFollow |-> UndoFollowCalls, UndoFollowOther |-> UndoFollowOtherCalls,
   UndoAdd |-> UndoAddCalls, UndoLike |-> UndoLikeCalls,
   UndoAnnounce |-> UndoAnnounceCalls, UndoAnnounceOfRemote |-> UndoAnnounceOfRemoteCalls,
   UndoBlock |-> UndoBlockCalls, UndoOther |-> <<>>]

Kinds == DOMAIN HandlerCalls
CallIndex == 1..4

-----------------------------------------------------------------------------
(* The operations of ActivityPubService on a remote actor.  Reads that come *)
(* first, and whose error ends the operation before it did anything, are   *)
(* left out.  The reads between two writes or sends belong to the call that *)
(* follows them: when they fail it does not happen, as when it fails.      *)

\* Mutant: follow() delivers the Follow before it records it.
FollowSentFirst == <<Fatal("send"), Fatal("add_following")>>

FollowOp   == <<Fatal("add_following"), Fatal("send")>>
UnfollowOp == <<Fatal("send"), Fatal("remove_following"), Fatal("on_actor_removed")>>
\* Mutant: accept_follower() tells nobody.
AcceptFollowerSilent == <<Fatal("get_follower_follow_activity_id"),
                          Fatal("update_follower_status")>>

AcceptFollowerOp == <<Fatal("get_follower_follow_activity_id"),
                      Fatal("update_follower_status"), Fatal("send")>>
\* Mutant: reject_follower() tells nobody.
RejectFollowerSilent == <<Fatal("remove_follower")>>

RejectFollowerOp == <<Fatal("send"), Fatal("remove_follower")>>
RemoveFollowerOp == <<Fatal("remove_follower")>>
\* get_local_actor and get_remote_actor come last: an error of the first is
\* returned, and of an actor the second does not find nothing is sent and Ok
\* returned.  Both end the operation as a send that fails does.
BlockActorOp     == <<Fatal("add_blocked_actor"), Logged("remove_follower"),
                      Logged("remove_following"), Fatal("send")>>
UnblockActorOp   == <<Fatal("remove_blocked_actor"), Fatal("send")>>
MarkFollowerAcceptedOp == <<Fatal("update_follower_status")>>
MarkFollowerRejectedOp == <<Fatal("remove_follower")>>

ServiceCalls ==
  [follow |-> FollowOp, unfollow |-> UnfollowOp,
   accept_follower |-> AcceptFollowerOp, reject_follower |-> RejectFollowerOp,
   remove_follower |-> RemoveFollowerOp,
   block_actor |-> BlockActorOp, unblock_actor |-> UnblockActorOp,
   mark_follower_accepted |-> MarkFollowerAcceptedOp,
   mark_follower_rejected |-> MarkFollowerRejectedOp]
=============================================================================
