------------------------------ MODULE MCFollows ------------------------------
(* Instances of Follows for TLC: alice on one server, bob and carol on another. *)
EXTENDS Follows, TLC
CONSTANTS alice, bob, carol, east, west, t1, t2, t3

TwoHomes == (alice :> east) @@ (bob :> west)
ThreeHomes == (alice :> east) @@ (bob :> west) @@ (carol :> west)

\* alice follows bob, who decides, with or without telling her server.
Decisions ==
  {<<"follow", alice, bob>>, <<"unfollow", alice, bob>>,
   <<"accept_follower", bob, alice>>, <<"reject_follower", bob, alice>>,
   <<"remove_follower", bob, alice>>, <<"mark_follower_accepted", bob, alice>>,
   <<"mark_follower_rejected", bob, alice>>}
\* bob blocks a follower and unblocks it, or is blocked by it.
Blocks ==
  {<<"follow", alice, bob>>, <<"accept_follower", bob, alice>>,
   <<"block_actor", bob, alice>>, <<"unblock_actor", bob, alice>>,
   <<"block_actor", alice, bob>>}
Willing == {<<"follow", alice, bob>>, <<"accept_follower", bob, alice>>}
TwoFollows ==
  {<<"follow", alice, bob>>, <<"follow", alice, carol>>, <<"unfollow", alice, bob>>}
Unblocking == {<<"block_actor", bob, alice>>, <<"unblock_actor", bob, alice>>}

TaskSymmetry == Permutations(Tasks)
=============================================================================
