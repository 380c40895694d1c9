---------------------------- MODULE MCRelations ----------------------------
(* Collections and Migration, which share no state: a behaviour is of one or  *)
(* the other.  Where users leave and are rejected, one Move comes twice or two *)
(* Moves come, from a domain nobody blocks; where they stay, all deliveries    *)
(* come and the domain is blocked and unblocked.                              *)
EXTENDS Collections, Migration, TLC

CONSTANTS u1, u2, u3, u4, v1, v2

VARIABLE scene

MCRequests == {<<1, u1, "follow">>, <<2, u1, "unfollow">>, <<3, u2, "unfollow">>, <<4, u4, "follow">>}
MCInitial == <<u1, u2, u3>>
MCDeliveries == {<<"m1", 1>>, <<"m1", 2>>, <<"m2", 1>>}

MCSymmetry == Permutations({v1, v2})

InitRelations ==
  /\ scene \in {"collection", "leave", "stay"}
  /\ Init
  /\ InitMove
  /\ scene = "collection" =>
       migrates /\ ~barred /\ aliased /\ follows = [u \in Locals |-> {}]
  /\ scene = "leave" => migrates /\ ~barred

NextRelations ==
  /\ \/ scene = "collection" /\ Next /\ UNCHANGED varsMove
     \/ /\ scene = "leave" /\ NextMove /\ UNCHANGED vars /\ barred' = barred
        /\ "none" \in {stage'[<<"m1", 2>>], stage'[<<"m2", 1>>]}
     \/ /\ scene = "stay" /\ NextMove /\ UNCHANGED vars
        /\ leaving' = leaving /\ followed \subseteq followed'
  /\ UNCHANGED scene

SpecRelations == InitRelations /\ [][NextRelations]_<<scene, vars, varsMove>>
=============================================================================
