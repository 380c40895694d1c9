---------------------------- MODULE LocalFollows ----------------------------
(***************************************************************************)
(* Users of one server who follow a user of the same server: follow_local  *)
(* and unfollow_local write the two sides of the relation, the followers   *)
(* of the target and the follows of the user, one repository call after    *)
(* the other and without a transaction, and remove_follower writes one     *)
(* side only.  Requests of one user may overlap; a call that fails ends    *)
(* its request.  The repository keeps the rows of the followers in the     *)
(* order in which they were added.                                         *)
(***************************************************************************)
EXTENDS Naturals, FiniteSets, SequencesExt

CONSTANTS
  Users,        \* local users who follow the target
  Initial,      \* the target's followers at first
  Requests,     \* requests for follow and unfollow, each with a user
  MaxMishaps,   \* repository calls that fail
  MaxRemovals   \* followers the target removes

ASSUME LocalFollowsAssumption ==
  /\ IsFiniteSet(Users)
  /\ Initial \in Seq(Users) /\ IsInjective(Initial)
  /\ \A r \in Requests : r[2] \in Users /\ r[3] \in {"follow", "unfollow"}

VARIABLES
  followers,    \* the target's followers, in the order of their rows
  following,    \* status of each user's follow of the target
  todo,         \* the repository calls each request has yet to make
  asked,        \* requests made so far
  alone,        \* users whose last request ran alone and to its end (history)
  mishaps,
  removals

tables == <<followers, following>>
varsLocal == <<tables, todo, asked, alone, mishaps, removals>>

Busy(u) == \E r \in asked : r[2] = u /\ todo[r] # <<>>

InitLocal ==
  /\ followers = Initial
  /\ following = [u \in Users |-> IF Contains(Initial, u) THEN "Accepted" ELSE "none"]
  /\ todo = [r \in Requests |-> <<>>]
  /\ asked = {} /\ alone = Users
  /\ mishaps = 0 /\ removals = 0

-----------------------------------------------------------------------------
(* The two operations, as the repository calls they make.                  *)

\* Mutant: the status of the follow is not updated.
FollowLocalPending == <<"add_follower", "add_following">>

FollowLocal == <<"add_follower", "add_following", "update_following_status">>
UnfollowLocal == <<"remove_follower", "remove_following">>

\* A request <<n, user, operation>>; it does not overlap with another of its user
\* if it makes all its calls while that one makes none.
Ask(r) ==
  /\ r \notin asked
  /\ asked' = asked \cup {r}
  /\ todo' = [todo EXCEPT ![r] = IF r[3] = "follow" THEN FollowLocal ELSE UnfollowLocal]
  /\ alone' = IF Busy(r[2]) THEN alone \ {r[2]} ELSE alone \cup {r[2]}
  /\ UNCHANGED <<tables, mishaps, removals>>

\* Mutant: every follow adds a row.
AddFollowerAgain(u) == followers' = Append(followers, u)

\* add_follower replaces the row of a follower who is there.
AddFollower(u) == followers' = IF Contains(followers, u) THEN followers ELSE Append(followers, u)
RemoveFollower(u) ==
  followers' = IF Contains(followers, u)
               THEN RemoveAt(followers, CHOOSE i \in DOMAIN followers : followers[i] = u)
               ELSE followers
SetFollowing(u, status) == following' = [following EXCEPT ![u] = status]

Call(u, name) ==
  CASE name = "add_follower" -> AddFollower(u) /\ UNCHANGED following
    [] name = "remove_follower" -> RemoveFollower(u) /\ UNCHANGED following
    [] name = "add_following" -> SetFollowing(u, "Pending") /\ UNCHANGED followers
    [] name = "remove_following" -> SetFollowing(u, "none") /\ UNCHANGED followers
    [] name = "update_following_status" ->
         /\ SetFollowing(u, IF following[u] = "none" THEN "none" ELSE "Accepted")
         /\ UNCHANGED followers

Advance(r) ==
  /\ todo[r] # <<>>
  /\ Call(r[2], Head(todo[r]))
  /\ todo' = [todo EXCEPT ![r] = Tail(@)]
  /\ UNCHANGED <<asked, alone, mishaps, removals>>

\* A repository call fails, and the request with it.
Fail(r) ==
  /\ todo[r] # <<>>
  /\ mishaps < MaxMishaps /\ mishaps' = mishaps + 1
  /\ todo' = [todo EXCEPT ![r] = <<>>]
  /\ alone' = alone \ {r[2]}
  /\ UNCHANGED <<tables, asked, removals>>

\* remove_follower, of the target: the user is not told.
TargetRemoves(u) ==
  /\ removals < MaxRemovals /\ removals' = removals + 1
  /\ Contains(followers, u)
  /\ RemoveFollower(u)
  /\ alone' = alone \ {u}
  /\ UNCHANGED <<following, todo, asked, mishaps>>

NextLocal ==
  \/ \E r \in Requests : Ask(r) \/ Advance(r) \/ Fail(r)
  \/ \E u \in Users : TargetRemoves(u)

-----------------------------------------------------------------------------
(* Properties.                                                             *)

\* Type correctness of the tables: no user has two rows.
TypeOKLocal ==
  /\ IsInjective(followers) /\ ToSet(followers) \subseteq Users
  /\ following \in [Users -> {"none", "Pending", "Accepted"}]
  /\ \A r \in Requests : r \notin asked => todo[r] = <<>>
  /\ alone \subseteq Users

\* A request that runs alone and to its end leaves the two sides of the relation
\* agreeing, whatever earlier requests that failed half-way, overlapped or were
\* one-sided have left behind.
SidesAgree ==
  \A u \in alone : ~Busy(u) =>
    IF Contains(followers, u) THEN following[u] = "Accepted" ELSE following[u] = "none"
=============================================================================
