--------------------------- MODULE MigrationProofs ---------------------------
(***************************************************************************)
(* Proofs about Migration, for any users, Moves, deliveries and failures:  *)
(* the types, that a user is sent one re-follow, that an answered Move has *)
(* moved every follow, and that both servers agree in the end.             *)
(***************************************************************************)
EXTENDS Migration, TLAPS

Stages == {"none", "mark", "domain", "target", "migrate", "ok", "error"}

Kinds == {"Follow", "Undo", "Reject"}

\* The types of TypeOKMove, with the functions' domains and the counter, which
\* the proofs need.
Types ==
  /\ TypeOKMove
  /\ stage \in [Deliveries -> Stages]
  /\ refollow \in [Deliveries -> SUBSET Locals]
  /\ attempts \in [Locals -> Nat]

-----------------------------------------------------------------------------
(* Types.                                                                  *)

LEMMA TypesInitially == InitMove => Types
BY DEF InitMove, Types, TypeOKMove, Stages

LEMMA TypesKept == Types /\ [NextMove]_varsMove => Types'
<1>. SUFFICES ASSUME Types, [NextMove]_varsMove PROVE Types'
  OBVIOUS
<1>. USE DEF Types, TypeOKMove, Stages, Begun, Guarded
<1>0. ASSUME NEW d \in Deliveries, CheckProcessed(d) PROVE Types'
  BY <1>0 DEF CheckProcessed, To, server
<1>1. ASSUME NEW d \in Deliveries, MarkProcessed(d) \/ CheckDomain(d) PROVE Types'
  BY <1>1, MigrationAssumption DEF MarkProcessed, CheckDomain, To
<1>2. ASSUME NEW d \in Deliveries, Dereference(d) PROVE Types'
  BY <1>2, MigrationAssumption DEF Dereference, To
<1>3. ASSUME NEW d \in Deliveries, Migrate(d) PROVE Types'
  <2>1. follows' \in [Locals -> SUBSET {"old", "new"}]
    BY <1>3 DEF Migrate, MoveRows
  <2>2. crossed' \subseteq Locals
    BY <1>3 DEF Migrate, MoveRows
  <2>3. stage' \in [Deliveries -> Stages] /\ refollow' \in [Deliveries -> SUBSET Locals]
    BY <1>3 DEF Migrate, To, Migrated
  <2>4. \A e \in Deliveries : refollow'[e] # {} => refollow'[e] \subseteq Locals /\ stage'[e] = "ok"
    BY <1>3, <2>3 DEF Migrate, To
  <2>. QED
    BY <1>3, <2>1, <2>2, <2>3, <2>4 DEF Migrate, server
<1>4. ASSUME NEW d \in Deliveries, ReceiveFails(d) PROVE Types'
  BY <1>4, MigrationAssumption DEF ReceiveFails, To
<1>5. ASSUME NEW d \in Deliveries, NEW u \in Locals, SendRefollow(d, u) PROVE Types'
  <2>1. net' \subseteq Kinds \X Locals /\ missed' \subseteq Locals
    BY <1>5 DEF SendRefollow, Kinds
  <2>2. attempts' \in [Locals -> Nat]
    BY <1>5 DEF SendRefollow
  <2>3. /\ refollow' \in [Deliveries -> SUBSET Locals]
        /\ \A e \in Deliveries : refollow'[e] # {} => refollow'[e] \subseteq Locals /\ stage'[e] = "ok"
    BY <1>5 DEF SendRefollow
  <2>. QED
    BY <1>5, <2>1, <2>2, <2>3 DEF SendRefollow, Kinds, server
<1>6. CASE Restart
  <2>1. failed' \subseteq Moves
    BY <1>6, MigrationAssumption DEF Restart
  <2>2. stage' \in [Deliveries -> Stages] /\ refollow' \in [Deliveries -> SUBSET Locals]
    BY <1>6 DEF Restart
  <2>3. \A e \in Deliveries : refollow'[e] = {}
    BY <1>6 DEF Restart
  <2>4. missed' \subseteq Locals /\ leaving' = {}
    BY <1>6 DEF Restart
  <2>. QED
    BY <1>6, <2>1, <2>2, <2>3, <2>4 DEF Restart
<1>7. CASE SetAlias \/ SetBarred
  BY <1>7 DEF SetAlias, SetBarred, server
<1>8. ASSUME NEW u \in Locals, SendUndo(u) PROVE Types'
  BY <1>8 DEF SendUndo, server
<1>9. ASSUME NEW u \in Locals, RemoveFollowing(u) PROVE Types'
  BY <1>9 DEF RemoveFollowing, server
<1>10. ASSUME NEW u \in Locals, Reject(u) PROVE Types'
  BY <1>10 DEF Reject, server
<1>11. ASSUME NEW l \in net, Receive(l) PROVE Types'
  <2>1. l[1] \in Kinds /\ l[2] \in Locals
    BY DEF Kinds
  <2>2. follows' \in [Locals -> SUBSET {"old", "new"}]
    BY <1>11, <2>1 DEF Receive, Kinds
  <2>3. followed' \subseteq Locals
    BY <1>11, <2>1 DEF Receive, Kinds
  <2>. QED
    BY <1>11, <2>2, <2>3 DEF Receive, server
<1>12. ASSUME NEW l \in net, Lose(l) PROVE Types'
  BY <1>12 DEF Lose, server
<1>13. CASE UNCHANGED varsMove
  BY <1>13 DEF varsMove, server
<1>. QED
  BY <1>0, <1>1, <1>2, <1>3, <1>4, <1>5, <1>6, <1>7, <1>8, <1>9, <1>10, <1>11, <1>12, <1>13 DEF NextMove

\* Type correctness of the Move's handler, its task and the rows it moves.
THEOREM TypeCorrect == SpecMove => []TypeOKMove
<1>1. Types => TypeOKMove
  BY DEF Types
<1>. QED
  BY <1>1, TypesInitially, TypesKept, PTL DEF SpecMove

-----------------------------------------------------------------------------
(* RefollowedOnce.                                                         *)

\* A user who still follows the old account was sent no re-follow and awaits none;
\* one who awaits one, from a single task, was sent none.
OnceInv ==
  /\ \A u \in Locals, d \in Deliveries :
       "old" \in follows[u] \/ u \in refollow[d] => attempts[u] = 0
  /\ \A u \in Locals, d \in Deliveries : "old" \in follows[u] => u \notin refollow[d]
  /\ \A d, e \in Deliveries : refollow[d] \cap refollow[e] # {} => d = e
  /\ RefollowedOnce

\* A step that adds no follow of the old account, sends no re-follow and gives no
\* task one keeps OnceInv.
LEMMA OnceFewer ==
  ASSUME Types, OnceInv, UNCHANGED attempts,
         \A u \in Locals : "old" \in follows'[u] => "old" \in follows[u],
         \A d \in Deliveries : refollow'[d] \subseteq refollow[d]
  PROVE  OnceInv'
BY DEF OnceInv, RefollowedOnce

LEMMA OnceKept == Types /\ OnceInv /\ [NextMove]_varsMove => OnceInv'
<1>. SUFFICES ASSUME Types, OnceInv, [NextMove]_varsMove PROVE OnceInv'
  OBVIOUS
<1>0. ASSUME NEW d \in Deliveries, CheckProcessed(d) \/ MarkProcessed(d) \/ CheckDomain(d)
      PROVE  OnceInv'
  BY <1>0, OnceFewer DEF CheckProcessed, MarkProcessed, CheckDomain
<1>1. ASSUME NEW d \in Deliveries, Dereference(d) \/ ReceiveFails(d) PROVE OnceInv'
  BY <1>1, OnceFewer DEF Dereference, ReceiveFails
<1>2. ASSUME NEW d \in Deliveries, Migrate(d) PROVE OnceInv'
  <2>1. \A u \in Locals : ("old" \in follows'[u]) = ("old" \in follows[u] /\ ~migrates)
    BY <1>2 DEF Migrate, MoveRows, Types, TypeOKMove
  <2>2. /\ refollow'[d] = {u \in Locals : migrates /\ "old" \in follows[u]}
        /\ \A e \in Deliveries \ {d} : refollow'[e] = refollow[e]
    BY <1>2 DEF Migrate, Migrated, Types
  <2>3. attempts' = attempts
    BY <1>2 DEF Migrate
  <2>4. \A u \in Locals, e \in Deliveries : u \in refollow'[e] => attempts'[u] = 0
    BY <2>2, <2>3 DEF OnceInv
  <2>5. \A e, f \in Deliveries : refollow'[e] \cap refollow'[f] # {} => e = f
    <3>. SUFFICES ASSUME NEW e \in Deliveries, NEW f \in Deliveries,
                         NEW u \in refollow'[e], u \in refollow'[f]
                  PROVE  e = f
      OBVIOUS
    <3>. QED
      BY <2>2 DEF OnceInv
  <2>6. \A u \in Locals, e \in Deliveries : "old" \in follows'[u] => u \notin refollow'[e]
    BY <2>1, <2>2 DEF OnceInv
  <2>. QED
    BY <2>1, <2>3, <2>4, <2>5, <2>6 DEF OnceInv, RefollowedOnce
<1>3. ASSUME NEW d \in Deliveries, NEW u \in Locals, SendRefollow(d, u) PROVE OnceInv'
  <2>1. /\ refollow'[d] = refollow[d] \ {u}
        /\ \A e \in Deliveries \ {d} : refollow'[e] = refollow[e]
        /\ follows' = follows
    BY <1>3 DEF SendRefollow, Types
  <2>2. CASE UNCHANGED attempts
    BY <2>1, <2>2, OnceFewer
  <2>3. CASE attempts' = [attempts EXCEPT ![u] = @ + 1]
    <3>1. u \in refollow[d] /\ attempts[u] = 0 /\ "old" \notin follows[u]
      BY <1>3 DEF SendRefollow, OnceInv
    <3>2. attempts'[u] = 1 /\ \A v \in Locals \ {u} : attempts'[v] = attempts[v]
      BY <2>3, <3>1 DEF Types
    <3>3. \A e \in Deliveries : u \notin refollow'[e]
      BY <2>1, <3>1 DEF OnceInv
    <3>4. \A e \in Deliveries : refollow'[e] \subseteq refollow[e]
      BY <2>1
    <3>. QED
      BY <2>1, <3>1, <3>2, <3>3, <3>4 DEF OnceInv, RefollowedOnce
  <2>. QED
    BY <1>3, <2>2, <2>3 DEF SendRefollow
<1>4. CASE Restart
  <2>1. \A d \in Deliveries : refollow'[d] = {}
    BY <1>4 DEF Restart
  <2>. QED
    BY <1>4, <2>1, OnceFewer DEF Restart
<1>5. CASE SetAlias \/ SetBarred
  BY <1>5, OnceFewer DEF SetAlias, SetBarred
<1>6. ASSUME NEW u \in Locals, SendUndo(u) \/ Reject(u) PROVE OnceInv'
  BY <1>6, OnceFewer DEF SendUndo, Reject
<1>7. ASSUME NEW u \in Locals, RemoveFollowing(u) PROVE OnceInv'
  BY <1>7, OnceFewer DEF RemoveFollowing, Types, TypeOKMove
<1>8. ASSUME NEW l \in net, Receive(l) PROVE OnceInv'
  <2>1. \A u \in Locals : "old" \in follows'[u] => "old" \in follows[u]
    BY <1>8 DEF Receive, Types, TypeOKMove
  <2>. QED
    BY <1>8, <2>1, OnceFewer DEF Receive
<1>9. ASSUME NEW l \in net, Lose(l) PROVE OnceInv'
  BY <1>9, OnceFewer DEF Lose
<1>10. CASE UNCHANGED varsMove
  BY <1>10, OnceFewer DEF varsMove
<1>. QED
  BY <1>0, <1>1, <1>2, <1>3, <1>4, <1>5, <1>6, <1>7, <1>8, <1>9, <1>10 DEF NextMove

\* However many Moves arrive and overlap, no user is sent two re-follows.
THEOREM RefollowedOnceHolds == SpecMove => []RefollowedOnce
<1>1. InitMove => OnceInv
  BY DEF InitMove, OnceInv, RefollowedOnce
<1>2. OnceInv => RefollowedOnce
  BY DEF OnceInv
<1>. QED
  BY <1>1, <1>2, TypesInitially, TypesKept, OnceKept, PTL DEF SpecMove

-----------------------------------------------------------------------------
(* MoveTakesEffect.                                                        *)

AllMoved == \A u \in Locals : "old" \notin follows[u]

\* Where the application moves follows: an answered delivery was a duplicate, found
\* the domain blocked or has moved every follow; a marked Move that neither failed
\* nor was dropped is past its guards until it has moved every follow.
EffectInv ==
  migrates =>
    /\ \A d \in Deliveries : stage[d] = "ok" => d[1] \in processed \cup dropped \/ AllMoved
    /\ \A m \in processed \ (failed \cup dropped) :
         AllMoved \/ \E d \in Deliveries : d[1] = m /\ Guarded(d)

\* A step that leaves marks, stages and failures alone keeps EffectInv when it adds
\* no follow of the old account.
LEMMA EffectAlone ==
  ASSUME EffectInv, UNCHANGED <<stage, processed, failed, dropped, migrates>>,
         \A u \in Locals : "old" \in follows'[u] => "old" \in follows[u]
  PROVE  EffectInv'
BY DEF EffectInv, AllMoved, Guarded

LEMMA EffectKept == Types /\ EffectInv /\ [NextMove]_varsMove => EffectInv'
<1>. SUFFICES ASSUME Types, EffectInv, [NextMove]_varsMove PROVE EffectInv'
  OBVIOUS
<1>1. ASSUME NEW d \in Deliveries, CheckProcessed(d) PROVE EffectInv'
  <2>1. /\ stage[d] = "none" /\ UNCHANGED <<follows, failed, dropped, processed, migrates>>
        /\ \A e \in Deliveries \ {d} : stage'[e] = stage[e]
    BY <1>1 DEF CheckProcessed, To, Types, server
  <2>2. stage'[d] = "ok" => d[1] \in processed
    BY <1>1 DEF CheckProcessed, To, Types
  <2>. QED
    BY <2>1, <2>2 DEF EffectInv, AllMoved, Guarded
<1>2. ASSUME NEW d \in Deliveries, MarkProcessed(d) PROVE EffectInv'
  <2>1. /\ stage'[d] = "domain" /\ UNCHANGED <<follows, failed, dropped, migrates>>
        /\ \A e \in Deliveries \ {d} : stage'[e] = stage[e]
        /\ processed' \in {processed, processed \cup {d[1]}}
        /\ stage[d] = "mark"
    BY <1>2 DEF MarkProcessed, To, Types
  <2>. QED
    BY <2>1 DEF EffectInv, AllMoved, Guarded
<1>3. ASSUME NEW d \in Deliveries, CheckDomain(d) \/ Dereference(d) \/ ReceiveFails(d)
      PROVE  EffectInv'
  <2>1. /\ Guarded(d) /\ UNCHANGED <<follows, processed, migrates>>
        /\ \A e \in Deliveries \ {d} : stage'[e] = stage[e]
        /\ failed \subseteq failed' /\ dropped \subseteq dropped'
    BY <1>3 DEF CheckDomain, Dereference, ReceiveFails, To, Types, Guarded
  <2>2. \/ Guarded(d)' /\ failed' = failed /\ dropped' = dropped
        \/ stage'[d] = "ok" /\ d[1] \in dropped'
        \/ stage'[d] = "error" /\ d[1] \in failed'
    BY <1>3 DEF CheckDomain, Dereference, ReceiveFails, To, Types, Guarded
  <2>. QED
    BY <2>1, <2>2 DEF EffectInv, AllMoved, Guarded
<1>4. ASSUME NEW d \in Deliveries, Migrate(d) PROVE EffectInv'
  <2>1. migrates' = migrates /\ (migrates => AllMoved')
    BY <1>4 DEF Migrate, MoveRows, AllMoved, Types, TypeOKMove, server
  <2>. QED
    BY <2>1 DEF EffectInv
<1>5. ASSUME NEW d \in Deliveries, NEW u \in Locals, SendRefollow(d, u) PROVE EffectInv'
  BY <1>5, EffectAlone DEF SendRefollow, server
<1>6. CASE Restart
  <2>1. /\ UNCHANGED <<follows, processed, dropped, migrates>>
        /\ \A e \in Deliveries : stage'[e] = "ok" => stage[e] = "ok"
    BY <1>6 DEF Restart
  <2>2. \A m \in processed' \ (failed' \cup dropped') :
          m \notin failed \cup dropped /\ ~ \E e \in Deliveries : e[1] = m /\ Guarded(e)
    BY <1>6 DEF Restart
  <2>. QED
    BY <2>1, <2>2 DEF EffectInv, AllMoved
<1>7. CASE SetAlias \/ SetBarred
  BY <1>7, EffectAlone DEF SetAlias, SetBarred, server
<1>8. ASSUME NEW u \in Locals, SendUndo(u) \/ Reject(u) PROVE EffectInv'
  BY <1>8, EffectAlone DEF SendUndo, Reject, server
<1>9. ASSUME NEW u \in Locals, RemoveFollowing(u) PROVE EffectInv'
  BY <1>9, EffectAlone DEF RemoveFollowing, Types, TypeOKMove, server
<1>10. ASSUME NEW l \in net, Receive(l) PROVE EffectInv'
  <2>1. \A u \in Locals : "old" \in follows'[u] => "old" \in follows[u]
    BY <1>10 DEF Receive, Types, TypeOKMove
  <2>. QED
    BY <1>10, <2>1, EffectAlone DEF Receive, server
<1>11. ASSUME NEW l \in net, Lose(l) PROVE EffectInv'
  BY <1>11, EffectAlone DEF Lose, server
<1>12. CASE UNCHANGED varsMove
  BY <1>12, EffectAlone DEF varsMove, server
<1>. QED
  BY <1>1, <1>2, <1>3, <1>4, <1>5, <1>6, <1>7, <1>8, <1>9, <1>10, <1>11, <1>12 DEF NextMove

\* Where the application moves follows at all, a Move answered Ok has moved every
\* follow, unless a delivery of it failed or found the domain blocked.
THEOREM MoveTakesEffectHolds == SpecMove => []MoveTakesEffect
<1>1. InitMove => EffectInv
  BY DEF InitMove, EffectInv
<1>2. Types /\ EffectInv => MoveTakesEffect
  BY DEF EffectInv, MoveTakesEffect, AtRest, AllMoved, Begun, Guarded
<1>. QED
  BY <1>1, <1>2, TypesInitially, TypesKept, EffectKept, PTL DEF SpecMove

-----------------------------------------------------------------------------
(* FollowersAgree.                                                         *)

Row(u) == "new" \in follows[u]

\* Where the two sides stand while activities are under way: what is missing on one
\* side is on its way, and nothing that undoes a follow meets a Follow.
AgreeInv(u) ==
  /\ FollowUnderWay(u) => Row(u) /\ ~Undoing(u)
  /\ Row(u) /\ u \notin followed => FollowUnderWay(u) \/ u \in leaving \/ <<"Reject", u>> \in net
  /\ ~Row(u) /\ u \in followed => <<"Undo", u>> \in net
  /\ <<"Undo", u>> \in net /\ u \notin leaving => ~Row(u)
  /\ u \in leaving /\ u \in followed => <<"Undo", u>> \in net
  /\ <<"Reject", u>> \in net => u \notin followed

AgreeInvs == \A u \in Locals \ (missed \cup crossed) : AgreeInv(u)

\* A step that changes none of what AgreeInv(u) speaks of keeps it.
LEMMA AgreeAlone ==
  ASSUME NEW u \in Locals, AgreeInv(u),
         Row(u)' = Row(u), (u \in followed)' = (u \in followed), (u \in leaving)' = (u \in leaving),
         FollowUnderWay(u)' = FollowUnderWay(u),
         (<<"Undo", u>> \in net)' = (<<"Undo", u>> \in net),
         (<<"Reject", u>> \in net)' = (<<"Reject", u>> \in net)
  PROVE  AgreeInv(u)'
BY DEF AgreeInv, Undoing

LEMMA AgreeKept == Types /\ AgreeInvs /\ [NextMove]_varsMove => AgreeInvs'
<1>. SUFFICES ASSUME Types, AgreeInvs, [NextMove]_varsMove,
                     NEW v \in Locals, v \notin missed', v \notin crossed'
              PROVE  AgreeInv(v)'
  BY DEF AgreeInvs
<1>0. v \notin missed /\ v \notin crossed => AgreeInv(v)
  BY DEF AgreeInvs
<1>1. ASSUME NEW d \in Deliveries,
             CheckProcessed(d) \/ MarkProcessed(d) \/ CheckDomain(d) \/ Dereference(d) \/ ReceiveFails(d)
      PROVE  AgreeInv(v)'
  BY <1>0, <1>1, AgreeAlone
     DEF CheckProcessed, MarkProcessed, CheckDomain, Dereference, ReceiveFails, Row, FollowUnderWay
<1>2. ASSUME NEW d \in Deliveries, Migrate(d) PROVE AgreeInv(v)'
  <2>1. /\ net' = net /\ followed' = followed /\ leaving' = leaving /\ missed' = missed
        /\ v \notin crossed
    BY <1>2 DEF Migrate, MoveRows
  <2>2. AgreeInv(v)
    BY <1>0, <2>1
  <2>3. /\ \A e \in Deliveries \ {d} : refollow'[e] = refollow[e]
        /\ refollow'[d] = Migrated
    BY <1>2 DEF Migrate, Types
  <2>4. refollow[d] = {}
    BY <1>2 DEF Migrate, Types, TypeOKMove
  <2>5. CASE migrates /\ "old" \in follows[v]
    <3>1. Row(v)' /\ ~Undoing(v)
      BY <1>2, <2>5 DEF Migrate, MoveRows, Row, Types, TypeOKMove
    <3>2. FollowUnderWay(v)'
      BY <2>3, <2>5 DEF FollowUnderWay, Migrated
    <3>3. v \notin leaving' /\ <<"Undo", v>> \notin net' /\ <<"Reject", v>> \notin net'
      BY <2>1, <3>1 DEF Undoing
    <3>4. ~Undoing(v)'
      BY <3>3 DEF Undoing
    <3>. QED
      BY <3>1, <3>2, <3>3, <3>4 DEF AgreeInv
  <2>6. CASE ~(migrates /\ "old" \in follows[v])
    <3>1. Row(v)' = Row(v)
      BY <1>2, <2>6 DEF Migrate, MoveRows, Row, Types, TypeOKMove
    <3>2. FollowUnderWay(v)' = FollowUnderWay(v)
      BY <2>1, <2>3, <2>4, <2>6 DEF FollowUnderWay, Migrated
    <3>. QED
      BY <2>1, <2>2, <3>1, <3>2, AgreeAlone
  <2>. QED
    BY <2>5, <2>6
<1>3. ASSUME NEW d \in Deliveries, NEW u \in Locals, SendRefollow(d, u) PROVE AgreeInv(v)'
  <2>1. /\ follows' = follows /\ followed' = followed /\ leaving' = leaving /\ crossed' = crossed
        /\ refollow'[d] = refollow[d] \ {u}
        /\ \A e \in Deliveries \ {d} : refollow'[e] = refollow[e]
        /\ u \in refollow[d]
    BY <1>3 DEF SendRefollow, Types
  <2>2. v \notin missed
    BY <1>3 DEF SendRefollow
  <2>3. AgreeInv(v)
    BY <1>0, <2>1, <2>2
  <2>4. /\ (<<"Undo", v>> \in net)' = (<<"Undo", v>> \in net)
        /\ (<<"Reject", v>> \in net)' = (<<"Reject", v>> \in net)
    BY <1>3 DEF SendRefollow
  <2>5. CASE u = v
    <3>1. <<"Follow", v>> \in net'
      BY <1>3, <2>5 DEF SendRefollow
    <3>2. FollowUnderWay(v)' /\ FollowUnderWay(v)
      BY <2>1, <2>5, <3>1 DEF FollowUnderWay
    <3>. QED
      BY <2>1, <2>3, <2>4, <3>2, AgreeAlone DEF Row
  <2>6. CASE u # v
    <3>1. (<<"Follow", v>> \in net)' = (<<"Follow", v>> \in net)
      BY <1>3, <2>6 DEF SendRefollow
    <3>2. FollowUnderWay(v)' = FollowUnderWay(v)
      BY <2>1, <2>6, <3>1 DEF FollowUnderWay
    <3>. QED
      BY <2>1, <2>3, <2>4, <3>2, AgreeAlone DEF Row
  <2>. QED
    BY <2>5, <2>6
<1>4. CASE Restart
  <2>1. /\ follows' = follows /\ net' = net /\ followed' = followed
        /\ v \notin missed /\ v \notin crossed /\ v \notin leaving /\ leaving' = {}
        /\ \A d \in Deliveries : v \notin refollow[d] /\ v \notin refollow'[d]
    BY <1>4 DEF Restart
  <2>2. FollowUnderWay(v)' = FollowUnderWay(v) /\ Row(v)' = Row(v)
    BY <2>1 DEF FollowUnderWay, Row
  <2>3. AgreeInv(v)
    BY <1>0, <2>1
  <2>. QED
    BY <2>1, <2>2, <2>3, AgreeAlone
<1>5. CASE SetAlias \/ SetBarred
  BY <1>0, <1>5, AgreeAlone DEF SetAlias, SetBarred, Row, FollowUnderWay
<1>6. ASSUME NEW u \in Locals, SendUndo(u) PROVE AgreeInv(v)'
  <2>1. /\ follows' = follows /\ refollow' = refollow /\ followed' = followed /\ missed' = missed
        /\ v \notin crossed /\ (u = v => ~FollowUnderWay(v))
        /\ net' = net \cup {<<"Undo", u>>} /\ leaving' = leaving \cup {u}
        /\ Row(u)
    BY <1>6 DEF SendUndo, Row
  <2>2. AgreeInv(v)
    BY <1>0, <2>1
  <2>3. FollowUnderWay(v)' = FollowUnderWay(v) /\ Row(v)' = Row(v)
    BY <2>1 DEF FollowUnderWay, Row
  <2>. QED
    BY <2>1, <2>2, <2>3 DEF AgreeInv, Undoing
<1>7. ASSUME NEW u \in Locals, RemoveFollowing(u) PROVE AgreeInv(v)'
  <2>1. /\ net' = net /\ refollow' = refollow /\ followed' = followed /\ missed' = missed
        /\ v \notin crossed /\ (u = v => ~FollowUnderWay(v))
        /\ u \in leaving /\ leaving' = leaving \ {u}
    BY <1>7 DEF RemoveFollowing
  <2>2. AgreeInv(v)
    BY <1>0, <2>1
  <2>3. FollowUnderWay(v)' = FollowUnderWay(v)
    BY <2>1 DEF FollowUnderWay
  <2>4. Row(v)' = (Row(v) /\ u # v)
    BY <1>7 DEF RemoveFollowing, Row, Types, TypeOKMove
  <2>. QED
    BY <2>1, <2>2, <2>3, <2>4 DEF AgreeInv, Undoing
<1>8. ASSUME NEW u \in Locals, Reject(u) PROVE AgreeInv(v)'
  <2>1. /\ follows' = follows /\ refollow' = refollow /\ leaving' = leaving /\ missed' = missed
        /\ v \notin crossed /\ (u = v => ~FollowUnderWay(v))
        /\ followed' = followed \ {u} /\ net' = net \cup {<<"Reject", u>>}
    BY <1>8 DEF Reject
  <2>2. AgreeInv(v)
    BY <1>0, <2>1
  <2>3. FollowUnderWay(v)' = FollowUnderWay(v) /\ Row(v)' = Row(v)
    BY <2>1 DEF FollowUnderWay, Row
  <2>. QED
    BY <2>1, <2>2, <2>3 DEF AgreeInv, Undoing
<1>9. ASSUME NEW l \in net, Receive(l) PROVE AgreeInv(v)'
  <2>1. /\ net' = net \ {l} /\ refollow' = refollow /\ leaving' = leaving
        /\ missed' = missed /\ crossed' = crossed
    BY <1>9 DEF Receive
  <2>2. AgreeInv(v)
    BY <1>0, <2>1
  <2>3. l = <<l[1], l[2]>> /\ l[2] \in Locals
    BY DEF Types, TypeOKMove
  <2>4. CASE l[1] = "Follow"
    <3>1. followed' = followed \cup {l[2]} /\ follows' = follows
      BY <1>9, <2>4 DEF Receive
    <3>2. Row(v)' = Row(v) /\ FollowUnderWay(v)' => FollowUnderWay(v)
      BY <2>1, <3>1 DEF Row, FollowUnderWay
    <3>3. /\ (<<"Undo", v>> \in net)' = (<<"Undo", v>> \in net)
          /\ (<<"Reject", v>> \in net)' = (<<"Reject", v>> \in net)
      BY <2>1, <2>4
    <3>4. CASE l[2] = v
      <4>1. FollowUnderWay(v)
        BY <2>3, <2>4, <3>4 DEF FollowUnderWay
      <4>2. Row(v) /\ v \notin leaving /\ <<"Undo", v>> \notin net /\ <<"Reject", v>> \notin net
        BY <2>2, <4>1 DEF AgreeInv, Undoing
      <4>3. Row(v)' /\ v \in followed'
        BY <3>1, <3>4, <4>2 DEF Row
      <4>4. v \notin leaving' /\ <<"Undo", v>> \notin net' /\ <<"Reject", v>> \notin net'
        BY <2>1, <3>3, <4>2
      <4>5. ~Undoing(v)'
        BY <4>4 DEF Undoing
      <4>. QED
        BY <4>3, <4>4, <4>5 DEF AgreeInv
    <3>5. CASE l[2] # v
      <4>1. FollowUnderWay(v)' = FollowUnderWay(v)
        BY <2>1, <3>5 DEF FollowUnderWay
      <4>2. (v \in followed)' = (v \in followed) /\ Row(v)' = Row(v)
        BY <3>1, <3>5 DEF Row
      <4>. QED
        BY <2>1, <2>2, <3>3, <4>1, <4>2, AgreeAlone
    <3>. QED
      BY <3>4, <3>5
  <2>5. CASE l[1] = "Undo"
    <3>1. followed' = followed \ {l[2]} /\ follows' = follows
      BY <1>9, <2>5 DEF Receive
    <3>2. Row(v)' = Row(v) /\ FollowUnderWay(v)' = FollowUnderWay(v)
      BY <2>1, <2>5, <3>1 DEF Row, FollowUnderWay
    <3>3. /\ (<<"Reject", v>> \in net)' = (<<"Reject", v>> \in net)
          /\ (<<"Undo", v>> \in net)' = (<<"Undo", v>> \in net /\ l[2] # v)
      BY <2>1, <2>3, <2>5
    <3>4. l[2] = v => <<"Undo", v>> \in net
      BY <2>3, <2>5
    <3>. QED
      BY <2>1, <2>2, <3>1, <3>2, <3>3, <3>4 DEF AgreeInv, Undoing
  <2>6. CASE l[1] = "Reject"
    <3>1. followed' = followed /\ follows' = [follows EXCEPT ![l[2]] = @ \ {"new"}]
      BY <1>9, <2>6 DEF Receive
    <3>2. Row(v)' = (Row(v) /\ l[2] # v)
      BY <2>3, <3>1 DEF Row, Types, TypeOKMove
    <3>3. FollowUnderWay(v)' = FollowUnderWay(v)
      BY <2>1, <2>6 DEF FollowUnderWay
    <3>4. /\ (<<"Undo", v>> \in net)' = (<<"Undo", v>> \in net)
          /\ (<<"Reject", v>> \in net)' = (<<"Reject", v>> \in net /\ l[2] # v)
      BY <2>1, <2>3, <2>6
    <3>5. l[2] = v => <<"Reject", v>> \in net
      BY <2>3, <2>6
    <3>. QED
      BY <2>1, <2>2, <3>1, <3>2, <3>3, <3>4, <3>5 DEF AgreeInv, Undoing
  <2>. QED
    BY <1>9, <2>4, <2>5, <2>6 DEF Receive
<1>10. ASSUME NEW l \in net, Lose(l) PROVE AgreeInv(v)'
  <2>1. /\ net' = net \ {l} /\ refollow' = refollow /\ leaving' = leaving /\ followed' = followed
        /\ follows' = follows /\ v \notin missed /\ v \notin crossed /\ l[2] # v
    BY <1>10 DEF Lose
  <2>2. /\ FollowUnderWay(v)' = FollowUnderWay(v)
        /\ (<<"Undo", v>> \in net)' = (<<"Undo", v>> \in net)
        /\ (<<"Reject", v>> \in net)' = (<<"Reject", v>> \in net)
    BY <2>1 DEF FollowUnderWay
  <2>. QED
    BY <1>0, <2>1, <2>2, AgreeAlone DEF Row
<1>11. CASE UNCHANGED varsMove
  BY <1>0, <1>11, AgreeAlone DEF varsMove, Row, FollowUnderWay
<1>. QED
  BY <1>1, <1>2, <1>3, <1>4, <1>5, <1>6, <1>7, <1>8, <1>9, <1>10, <1>11 DEF NextMove

\* After a Move both servers agree who follows the new account, except for users
\* whose letter was lost or whose re-follow crossed an unfollow or a rejection.
THEOREM FollowersAgreeHolds == SpecMove => []FollowersAgree
<1>1. InitMove => AgreeInvs
  BY DEF InitMove, AgreeInvs, AgreeInv, Row, FollowUnderWay, Undoing
<1>2. Types /\ AgreeInvs => FollowersAgree
  BY DEF AgreeInvs, AgreeInv, FollowersAgree, AtRest, Row, FollowUnderWay
<1>. QED
  BY <1>1, <1>2, TypesInitially, TypesKept, AgreeKept, PTL DEF SpecMove
=============================================================================
