------------------------- MODULE CollectionsProofs -------------------------
(***************************************************************************)
(* Proofs about LocalFollows and Collections, for any users, requests,     *)
(* sizes of a page and numbers of mishaps: a request that runs alone       *)
(* repairs the relation, and a walk through the pages misses no row that   *)
(* stays where it is and repeats none.                                     *)
(***************************************************************************)
EXTENDS Collections, SequenceTheorems, FiniteSetTheorems, TLAPS

-----------------------------------------------------------------------------
(* Rows.                                                                   *)

\* The rows of a table: no user has two.
Rows == {s \in Seq(Users) : \A i, j \in 1..Len(s) : s[i] = s[j] => i = j}

LEMMA RowsAre ==
  ASSUME NEW s \in Rows
  PROVE  /\ s \in Seq(Users) /\ Len(s) \in Nat /\ DOMAIN s = 1..Len(s)
         /\ \A i \in 1..Len(s) : s[i] \in Users
         /\ \A i, j \in 1..Len(s) : s[i] = s[j] => i = j
         /\ \A u : Contains(s, u) <=> \E i \in 1..Len(s) : s[i] = u
         /\ \A u : u \in ToSet(s) <=> Contains(s, u)
<1>1. s \in Seq(Users) /\ \A i, j \in 1..Len(s) : s[i] = s[j] => i = j
  BY DEF Rows
<1>2. Len(s) \in Nat /\ DOMAIN s = 1..Len(s) /\ s \in [1..Len(s) -> Users]
  BY <1>1, LenProperties
<1>. QED
  BY <1>1, <1>2 DEF Contains, ToSet

\* There are no more rows than users.
LEMMA RowsBounded ==
  ASSUME NEW s \in Rows
  PROVE  Len(s) \in 0..Cardinality(Users) /\ Cardinality(Users) \in Nat
<1>1. /\ Len(s) \in Nat /\ s \in [1..Len(s) -> Users]
      /\ \A i, j \in 1..Len(s) : s[i] = s[j] => i = j
  BY LenProperties DEF Rows
<1>2. s \in Injection(1..Len(s), Users)
  BY <1>1 DEF Injection, IsInjective
<1>3. Cardinality(1..Len(s)) <= Cardinality(Users) /\ Cardinality(Users) \in Nat
  BY <1>2, LocalFollowsAssumption, FS_Injection, FS_CardinalityType
<1>4. Cardinality(1..Len(s)) = Len(s)
  BY <1>1, FS_Interval
<1>. QED
  BY <1>1, <1>3, <1>4

\* A row is added at the end.
Added(s, u) == Append(s, u)

LEMMA RowAdded ==
  ASSUME NEW s \in Rows, NEW u \in Users, ~ Contains(s, u), NEW t, t = Added(s, u)
  PROVE  /\ t \in Rows /\ Len(t) = Len(s) + 1
         /\ \A i \in 1..Len(s) : t[i] = s[i]
         /\ t[Len(s) + 1] = u
<1>1. /\ s \in Seq(Users) /\ Len(s) \in Nat /\ \A i \in 1..Len(s) : s[i] # u
      /\ \A i, j \in 1..Len(s) : s[i] = s[j] => i = j
  BY RowsAre
<1>2. /\ t \in Seq(Users) /\ Len(t) = Len(s) + 1
      /\ \A i \in 1..Len(s) : t[i] = s[i]
      /\ t[Len(s) + 1] = u
  BY <1>1, AppendProperties DEF Added
<1>3. ASSUME NEW i \in 1..Len(t), NEW j \in 1..Len(t), t[i] = t[j] PROVE i = j
  BY <1>1, <1>2, <1>3
<1>. QED
  BY <1>2, <1>3 DEF Rows

\* A row is removed, and the ones behind it move up.
LEMMA RowRemoved ==
  ASSUME NEW s \in Rows, NEW k \in 1..Len(s), NEW t, t = RemoveAt(s, k)
  PROVE  /\ t \in Rows /\ Len(t) = Len(s) - 1
         /\ \A i \in 1..Len(t) : t[i] = IF i < k THEN s[i] ELSE s[i + 1]
<1>1. /\ s \in Seq(Users) /\ Len(s) \in Nat /\ \A i \in 1..Len(s) : s[i] \in Users
      /\ \A i, j \in 1..Len(s) : s[i] = s[j] => i = j
  BY RowsAre
<1>. DEFINE a == SubSeq(s, 1, k - 1)
            b == SubSeq(s, k + 1, Len(s))
<1>2. /\ a \in Seq(Users) /\ Len(a) = k - 1
      /\ \A i \in 1..(k - 1) : a[i] = s[i]
  <2>1. \A i \in 1..(k - 1) : s[i] \in Users
    BY <1>1
  <2>2. 1 \in Int /\ k - 1 \in Int /\ (k - 1) - 1 + 1 = k - 1
    BY <1>1
  <2>3. /\ a \in Seq(Users) /\ Len(a) = (IF 1 <= k - 1 THEN (k - 1) - 1 + 1 ELSE 0)
        /\ \A i \in 1..((k - 1) - 1 + 1) : a[i] = s[1 + i - 1]
    BY <2>1, <2>2, SubSeqProperties
  <2>. HIDE DEF a
  <2>. QED
    BY <1>1, <2>2, <2>3
<1>3. /\ b \in Seq(Users) /\ Len(b) = Len(s) - k
      /\ \A i \in 1..(Len(s) - k) : b[i] = s[k + i]
  <2>1. \A i \in (k + 1)..Len(s) : s[i] \in Users
    BY <1>1
  <2>2. k + 1 \in Int /\ Len(s) \in Int
    BY <1>1
  <2>3. /\ b \in Seq(Users) /\ Len(b) = (IF k + 1 <= Len(s) THEN Len(s) - (k + 1) + 1 ELSE 0)
        /\ \A i \in 1..(Len(s) - (k + 1) + 1) : b[i] = s[(k + 1) + i - 1]
    BY <2>1, <2>2, SubSeqProperties
  <2>. HIDE DEF b
  <2>4. Len(b) = Len(s) - k
    BY <1>1, <2>3
  <2>5. ASSUME NEW i \in 1..(Len(s) - k) PROVE b[i] = s[k + i]
    <3>1. i \in 1..(Len(s) - (k + 1) + 1) /\ (k + 1) + i - 1 = k + i
      BY <1>1
    <3>. QED
      BY <2>3, <3>1
  <2>. QED
    BY <2>3, <2>4, <2>5
<1>4. t = a \o b
  BY DEF RemoveAt
<1>. HIDE DEF a, b
<1>5. /\ t \in Seq(Users) /\ Len(t) = Len(a) + Len(b)
      /\ \A i \in 1..(Len(a) + Len(b)) : t[i] = IF i <= Len(a) THEN a[i] ELSE b[i - Len(a)]
  <2>1. /\ a \o b \in Seq(Users) /\ Len(a \o b) = Len(a) + Len(b)
        /\ \A i \in 1..(Len(a) + Len(b)) : (a \o b)[i] = IF i <= Len(a) THEN a[i] ELSE b[i - Len(a)]
    BY <1>2, <1>3, ConcatProperties
  <2>. QED
    BY <1>4, <2>1
<1>6. Len(t) = Len(s) - 1
  BY <1>1, <1>2, <1>3, <1>5
<1>7. ASSUME NEW i \in 1..Len(t) PROVE t[i] = IF i < k THEN s[i] ELSE s[i + 1]
  <2>1. CASE i < k
    <3>1. i \in 1..(Len(a) + Len(b)) /\ i <= Len(a) /\ i \in 1..(k - 1)
      BY <1>1, <1>2, <1>5, <2>1
    <3>2. t[i] = a[i] /\ a[i] = s[i]
      BY <1>2, <1>5, <3>1
    <3>. QED
      BY <2>1, <3>2
  <2>2. CASE i >= k
    <3>1. t[i] = b[i - Len(a)]
      BY <1>1, <1>2, <1>3, <1>5, <2>2
    <3>2. i - Len(a) = i - k + 1 /\ i - k + 1 \in 1..(Len(s) - k)
      BY <1>1, <1>2, <1>6, <2>2
    <3>3. b[i - k + 1] = s[k + (i - k + 1)]
      BY <1>3, <3>2
    <3>4. k + (i - k + 1) = i + 1
      BY <1>1, <1>6
    <3>. QED
      BY <1>1, <1>6, <2>2, <3>1, <3>2, <3>3, <3>4
  <2>. QED
    BY <1>1, <1>6, <2>1, <2>2
<1>8. ASSUME NEW i \in 1..Len(t), NEW j \in 1..Len(t), t[i] = t[j] PROVE i = j
  BY <1>1, <1>6, <1>7, <1>8
<1>. QED
  BY <1>5, <1>6, <1>7, <1>8 DEF Rows

-----------------------------------------------------------------------------
(* Types.  First the calls a request has yet to make.                      *)

Follow2 == <<"add_following", "update_following_status">>
Follow1 == <<"update_following_status">>
Unfollow1 == <<"remove_following">>

Todo(r) ==
  IF r[3] = "follow" THEN {FollowLocal, Follow2, Follow1, <<>>} ELSE {UnfollowLocal, Unfollow1, <<>>}

Statuses == {"none", "Pending", "Accepted"}

\* The tables and the requests.
Types ==
  /\ followers \in Rows
  /\ following \in [Users -> Statuses]
  /\ DOMAIN todo = Requests /\ \A r \in Requests : todo[r] \in Todo(r)
  /\ asked \subseteq Requests /\ \A r \in Requests : r \notin asked => todo[r] = <<>>
  /\ alone \subseteq Users

LEMMA TodoHeads ==
  /\ FollowLocal # <<>> /\ Head(FollowLocal) = "add_follower" /\ Tail(FollowLocal) = Follow2
  /\ Follow2 # <<>> /\ Head(Follow2) = "add_following" /\ Tail(Follow2) = Follow1
  /\ Follow1 # <<>> /\ Head(Follow1) = "update_following_status" /\ Tail(Follow1) = <<>>
  /\ UnfollowLocal # <<>> /\ Head(UnfollowLocal) = "remove_follower" /\ Tail(UnfollowLocal) = Unfollow1
  /\ Unfollow1 # <<>> /\ Head(Unfollow1) = "remove_following" /\ Tail(Unfollow1) = <<>>
<1>1. FollowLocal # <<>> /\ Head(FollowLocal) = "add_follower" /\ Tail(FollowLocal) = Follow2
  BY DEF FollowLocal, Follow2
<1>2. Follow2 # <<>> /\ Head(Follow2) = "add_following" /\ Tail(Follow2) = Follow1
  BY DEF Follow2, Follow1
<1>3. Follow1 # <<>> /\ Head(Follow1) = "update_following_status" /\ Tail(Follow1) = <<>>
  BY DEF Follow1
<1>4. UnfollowLocal # <<>> /\ Head(UnfollowLocal) = "remove_follower" /\ Tail(UnfollowLocal) = Unfollow1
  BY DEF UnfollowLocal, Unfollow1
<1>5. Unfollow1 # <<>> /\ Head(Unfollow1) = "remove_following" /\ Tail(Unfollow1) = <<>>
  BY DEF Unfollow1
<1>. QED
  BY <1>1, <1>2, <1>3, <1>4, <1>5

\* What a request does next.
Then(r, rest) == todo' = [todo EXCEPT ![r] = rest]

LEMMA AdvanceCases ==
  ASSUME Types, NEW r \in Requests, Advance(r)
  PROVE  /\ UNCHANGED <<asked, alone>>
         /\ \/ /\ todo[r] = FollowLocal /\ Then(r, Follow2)
               /\ AddFollower(r[2]) /\ UNCHANGED following
            \/ /\ todo[r] = Follow2 /\ Then(r, Follow1)
               /\ SetFollowing(r[2], "Pending") /\ UNCHANGED followers
            \/ /\ todo[r] = Follow1 /\ Then(r, <<>>)
               /\ SetFollowing(r[2], IF following[r[2]] = "none" THEN "none" ELSE "Accepted")
               /\ UNCHANGED followers
            \/ /\ todo[r] = UnfollowLocal /\ Then(r, Unfollow1)
               /\ RemoveFollower(r[2]) /\ UNCHANGED following
            \/ /\ todo[r] = Unfollow1 /\ Then(r, <<>>)
               /\ SetFollowing(r[2], "none") /\ UNCHANGED followers
<1>1. /\ todo[r] # <<>> /\ Call(r[2], Head(todo[r]))
      /\ Then(r, Tail(todo[r]))
      /\ UNCHANGED <<asked, alone>>
  BY DEF Advance, Then, Types
<1>2. todo[r] \in {FollowLocal, Follow2, Follow1, UnfollowLocal, Unfollow1}
  BY <1>1 DEF Types, Todo
<1>. HIDE DEF Then
<1>3. CASE todo[r] = FollowLocal
  BY <1>1, <1>3, TodoHeads DEF Call
<1>4. CASE todo[r] = Follow2
  BY <1>1, <1>4, TodoHeads DEF Call
<1>5. CASE todo[r] = Follow1
  BY <1>1, <1>5, TodoHeads DEF Call
<1>6. CASE todo[r] = UnfollowLocal
  BY <1>1, <1>6, TodoHeads DEF Call
<1>7. CASE todo[r] = Unfollow1
  BY <1>1, <1>7, TodoHeads DEF Call
<1>. QED
  BY <1>1, <1>2, <1>3, <1>4, <1>5, <1>6, <1>7

\* A row is added, for a user who has none, or one is removed.
RowChange ==
  \/ followers' = followers
  \/ \E u \in Users : ~ Contains(followers, u) /\ followers' = Added(followers, u)
  \/ \E k \in 1..Len(followers) : followers' = RemoveAt(followers, k)

LEMMA AddChanges ==
  ASSUME NEW u \in Users, AddFollower(u)
  PROVE  RowChange
BY DEF AddFollower, RowChange, Added

LEMMA RemoveChanges ==
  ASSUME followers \in Rows, NEW u \in Users, RemoveFollower(u)
  PROVE  \/ ~ Contains(followers, u) /\ followers' = followers
         \/ \E k \in 1..Len(followers) : followers[k] = u /\ followers' = RemoveAt(followers, k)
<1>1. CASE ~ Contains(followers, u)
  BY <1>1 DEF RemoveFollower
<1>2. CASE Contains(followers, u)
  <2>1. \E i \in DOMAIN followers : followers[i] = u
    BY <1>2, RowsAre
  <2>2. PICK k \in DOMAIN followers : followers[k] = u /\ k = (CHOOSE i \in DOMAIN followers : followers[i] = u)
    BY <2>1
  <2>3. k \in 1..Len(followers)
    BY <2>2, RowsAre
  <2>. QED
    BY <1>2, <2>2, <2>3 DEF RemoveFollower
<1>. QED
  BY <1>1, <1>2

LEMMA RowsChange ==
  ASSUME Types, [NextLocal]_varsLocal
  PROVE  RowChange
<1>r. \A r \in Requests : r[2] \in Users
  BY LocalFollowsAssumption
<1>f. followers \in Rows
  BY DEF Types
<1>1. ASSUME NEW r \in Requests, Ask(r) \/ Fail(r) PROVE RowChange
  BY <1>1 DEF Ask, Fail, tables, RowChange
<1>2. ASSUME NEW r \in Requests, Advance(r) PROVE RowChange
  <2>1. AddFollower(r[2]) \/ RemoveFollower(r[2]) \/ UNCHANGED followers
    BY <1>2, AdvanceCases
  <2>. QED
    BY <1>r, <1>f, <2>1, AddChanges, RemoveChanges DEF RowChange
<1>3. ASSUME NEW u \in Users, TargetRemoves(u) PROVE RowChange
  BY <1>f, <1>3, RemoveChanges DEF TargetRemoves, RowChange
<1>4. CASE UNCHANGED varsLocal
  BY <1>4 DEF varsLocal, tables, RowChange
<1>. QED
  BY <1>1, <1>2, <1>3, <1>4 DEF NextLocal

LEMMA ChangedRows ==
  ASSUME followers \in Rows, RowChange
  PROVE  followers' \in Rows
<1>1. CASE \E u \in Users : ~ Contains(followers, u) /\ followers' = Added(followers, u)
  BY <1>1, RowAdded
<1>2. CASE \E k \in 1..Len(followers) : followers' = RemoveAt(followers, k)
  BY <1>2, RowRemoved
<1>. QED
  BY <1>1, <1>2 DEF RowChange

LEMMA TypesInitially == Init => Types
<1>. SUFFICES ASSUME Init PROVE Types
  OBVIOUS
<1>1. Initial \in Rows
  <2>1. Initial \in Seq(Users) /\ DOMAIN Initial = 1..Len(Initial)
    BY LocalFollowsAssumption, LenProperties
  <2>. QED
    BY <2>1, LocalFollowsAssumption DEF Rows, IsInjective
<1>. QED
  BY <1>1 DEF Init, InitLocal, Types, Todo, Statuses

LEMMA TypesKept == Types /\ [Next]_vars => Types'
<1>. SUFFICES ASSUME Types, [Next]_vars PROVE Types'
  OBVIOUS
<1>r. \A r \in Requests : r[2] \in Users /\ r[3] \in {"follow", "unfollow"}
  BY LocalFollowsAssumption
<1>1. UNCHANGED varsLocal => Types'
  BY DEF varsLocal, tables, Types
<1>2. [NextLocal]_varsLocal => followers' \in Rows
  BY RowsChange, ChangedRows DEF Types
<1>3. ASSUME NEW r \in Requests, Ask(r) PROVE Types'
  <2>1. /\ todo' = [todo EXCEPT ![r] = IF r[3] = "follow" THEN FollowLocal ELSE UnfollowLocal]
        /\ asked' = asked \cup {r} /\ alone' \subseteq alone \cup {r[2]}
        /\ UNCHANGED <<followers, following>>
    BY <1>3 DEF Ask, tables
  <2>2. \A x \in Requests : todo'[x] \in Todo(x)
    BY <1>r, <2>1 DEF Types, Todo
  <2>. QED
    BY <1>r, <2>1, <2>2 DEF Types
<1>4. ASSUME NEW r \in Requests, Advance(r) PROVE Types'
  <2>1. \E rest \in Todo(r) : Then(r, rest)
    <3>1. r[3] = "follow" <=> todo[r] \in {FollowLocal, Follow2, Follow1}
      <4>1. todo[r] # <<>> /\ todo[r] \in Todo(r)
        BY <1>4 DEF Advance, Types
      <4>2. {FollowLocal, Follow2, Follow1} \cap {UnfollowLocal, Unfollow1} = {}
        BY TodoHeads
      <4>. QED
        BY <4>1, <4>2 DEF Todo
    <3>2. \/ todo[r] = FollowLocal /\ Then(r, Follow2)
          \/ todo[r] = Follow2 /\ Then(r, Follow1)
          \/ Then(r, <<>>)
          \/ todo[r] = UnfollowLocal /\ Then(r, Unfollow1)
      BY <1>4, AdvanceCases
    <3>3. todo[r] = UnfollowLocal => todo[r] \notin {FollowLocal, Follow2, Follow1}
      BY TodoHeads
    <3>. QED
      BY <3>1, <3>2, <3>3 DEF Todo
  <2>2. following' \in [Users -> Statuses] /\ UNCHANGED <<asked, alone>>
    BY <1>4, <1>r, AdvanceCases DEF Types, SetFollowing, Statuses
  <2>3. r \in asked
    BY <1>4 DEF Advance, Types
  <2>. QED
    BY <1>2, <1>4, <2>1, <2>2, <2>3 DEF Types, Then, NextLocal
<1>5. ASSUME NEW r \in Requests, Fail(r) PROVE Types'
  BY <1>5 DEF Fail, tables, Types, Todo
<1>6. ASSUME NEW u \in Users, TargetRemoves(u) PROVE Types'
  BY <1>2, <1>6 DEF TargetRemoves, Types, NextLocal
<1>. QED
  BY <1>1, <1>3, <1>4, <1>5, <1>6
  DEF Next, Changes, CountFollowers, FetchItems, NextLocal, vars

-----------------------------------------------------------------------------
(* SidesAgree.                                                             *)

\* Requests of the user that still have calls to make.
Open(u) == {r \in Requests : r[2] = u /\ todo[r] # <<>>}

\* What the calls a request has made left behind, if nothing else has changed them.
Progress(r) ==
  \/ todo[r] \in {FollowLocal, UnfollowLocal}
  \/ todo[r] = Follow2 /\ Contains(followers, r[2])
  \/ todo[r] = Follow1 /\ Contains(followers, r[2]) /\ following[r[2]] = "Pending"
  \/ todo[r] = Unfollow1 /\ ~ Contains(followers, r[2])

\* The user's last request is the only one under way and has made its calls one after
\* the other, or the sides agree.
AloneAt(u) ==
  /\ Open(u) = {} => following[u] = IF Contains(followers, u) THEN "Accepted" ELSE "none"
  /\ \A r, s \in Open(u) : r = s
  /\ \A r \in Open(u) : Progress(r)

AloneInv == \A u \in alone : AloneAt(u)

LEMMA BusyIsOpen == Types => \A u : Busy(u) <=> Open(u) # {}
BY DEF Types, Busy, Open

LEMMA AddedMember ==
  ASSUME followers \in Rows, NEW u \in Users, AddFollower(u), NEW w
  PROVE  Contains(followers', w) <=> w = u \/ Contains(followers, w)
<1>1. CASE Contains(followers, u)
  BY <1>1 DEF AddFollower
<1>2. CASE ~ Contains(followers, u)
  <2>1. followers' = Added(followers, u)
    BY <1>2 DEF AddFollower, Added
  <2>2. /\ followers' \in Rows /\ Len(followers') = Len(followers) + 1
        /\ \A i \in 1..Len(followers) : followers'[i] = followers[i]
        /\ followers'[Len(followers) + 1] = u
    BY <1>2, <2>1, RowAdded
  <2>3. Len(followers) \in Nat
    BY RowsAre
  <2>4. 1..Len(followers') = 1..Len(followers) \cup {Len(followers) + 1}
    BY <2>2, <2>3
  <2>. QED
    BY <2>2, <2>3, <2>4 DEF Contains
<1>. QED
  BY <1>1, <1>2

LEMMA RemovedMember ==
  ASSUME followers \in Rows, NEW u \in Users, RemoveFollower(u), NEW w
  PROVE  Contains(followers', w) <=> w # u /\ Contains(followers, w)
<1>1. CASE ~ Contains(followers, u) /\ followers' = followers
  BY <1>1
<1>2. CASE \E k \in 1..Len(followers) : followers[k] = u /\ followers' = RemoveAt(followers, k)
  <2>1. PICK k \in 1..Len(followers) : followers[k] = u /\ followers' = RemoveAt(followers, k)
    BY <1>2
  <2>2. /\ followers' \in Rows /\ Len(followers') = Len(followers) - 1
        /\ \A i \in 1..Len(followers') : followers'[i] = IF i < k THEN followers[i] ELSE followers[i + 1]
    BY <2>1, RowRemoved
  <2>3. /\ Len(followers) \in Nat
        /\ \A i, j \in 1..Len(followers) : followers[i] = followers[j] => i = j
    BY RowsAre
  <2>4. ASSUME Contains(followers', w) PROVE w # u /\ Contains(followers, w)
    <3>1. PICK i \in 1..Len(followers') : followers'[i] = w
      BY <2>4 DEF Contains
    <3>2. PICK j \in 1..Len(followers) : followers[j] = w /\ j # k
      BY <2>2, <2>3, <3>1
    <3>. QED
      BY <2>1, <2>3, <3>2 DEF Contains
  <2>5. ASSUME w # u, Contains(followers, w) PROVE Contains(followers', w)
    <3>1. PICK j \in 1..Len(followers) : followers[j] = w /\ j # k
      BY <2>1, <2>5 DEF Contains
    <3>2. CASE j < k
      <4>1. j \in 1..Len(followers') /\ followers'[j] = w
        BY <2>2, <2>3, <3>1, <3>2
      <4>. QED
        BY <4>1 DEF Contains
    <3>3. CASE j > k
      <4>1. j - 1 \in 1..Len(followers') /\ (j - 1) + 1 = j /\ ~ (j - 1 < k)
        BY <2>2, <2>3, <3>1, <3>3
      <4>2. followers'[j - 1] = w
        BY <2>2, <3>1, <4>1
      <4>. QED
        BY <4>1, <4>2 DEF Contains
    <3>. QED
      BY <2>3, <3>1, <3>2, <3>3
  <2>. QED
    BY <2>4, <2>5
<1>. QED
  BY <1>1, <1>2, RemoveChanges

\* A step that is none of the user's.
LEMMA AloneOther ==
  ASSUME NEW u, AloneAt(u), Contains(followers', u) <=> Contains(followers, u),
         following'[u] = following[u], \A r \in Requests : r[2] = u => todo'[r] = todo[r]
  PROVE  AloneAt(u)'
<1>1. Open(u)' = Open(u)
  BY DEF Open
<1>2. \A r \in Open(u) : Progress(r)' = Progress(r)
  BY DEF Open, Progress
<1>. QED
  BY <1>1, <1>2 DEF AloneAt

LEMMA AloneKept == Types /\ AloneInv /\ [Next]_vars => AloneInv'
<1>. SUFFICES ASSUME Types, AloneInv, [Next]_vars PROVE AloneInv'
  OBVIOUS
<1>r. \A r \in Requests : r[2] \in Users
  BY LocalFollowsAssumption
<1>f. followers \in Rows /\ following \in [Users -> Statuses] /\ alone \subseteq Users
  BY DEF Types
<1>1. UNCHANGED varsLocal => AloneInv'
  BY DEF varsLocal, tables, AloneInv, AloneAt, Open, Progress
<1>2. ASSUME NEW r \in Requests, Ask(r) PROVE AloneInv'
  <2>1. /\ todo' = [todo EXCEPT ![r] = IF r[3] = "follow" THEN FollowLocal ELSE UnfollowLocal]
        /\ alone' = IF Busy(r[2]) THEN alone \ {r[2]} ELSE alone \cup {r[2]}
        /\ UNCHANGED <<followers, following>>
    BY <1>2 DEF Ask, tables
  <2>2. /\ todo'[r] \in {FollowLocal, UnfollowLocal}
        /\ \A x \in Requests \ {r} : todo'[x] = todo[x]
    BY <2>1 DEF Types
  <2>3. ASSUME NEW w \in alone, w # r[2] PROVE AloneAt(w)'
    BY <2>1, <2>2, <2>3, AloneOther DEF AloneInv
  <2>4. ASSUME Open(r[2]) = {} PROVE AloneAt(r[2])'
    <3>1. Open(r[2])' = {r}
      BY <2>2, <2>4, TodoHeads DEF Open
    <3>2. Progress(r)'
      BY <2>2 DEF Progress
    <3>. QED
      BY <3>1, <3>2 DEF AloneAt
  <2>. QED
    BY <2>1, <2>3, <2>4, BusyIsOpen DEF AloneInv
<1>3. ASSUME NEW r \in Requests, Advance(r) PROVE AloneInv'
  <2>. DEFINE u == r[2]
  <2>1. UNCHANGED alone /\ \E rest : Then(r, rest)
    BY <1>3, AdvanceCases
  <2>2. \A x \in Requests \ {r} : todo'[x] = todo[x]
    BY <2>1 DEF Then, Types
  <2>3. ASSUME NEW w \in alone, w # u PROVE AloneAt(w)'
    <3>1. following'[w] = following[w]
      BY <1>3, <1>r, <1>f, <2>3, AdvanceCases DEF SetFollowing
    <3>2. Contains(followers', w) <=> Contains(followers, w)
      BY <1>3, <1>r, <1>f, <2>3, AdvanceCases, AddedMember, RemovedMember
    <3>. QED
      BY <2>2, <2>3, <3>1, <3>2, AloneOther DEF AloneInv
  <2>4. ASSUME u \in alone PROVE AloneAt(u)'
    <3>1. r \in Open(u)
      BY <1>3 DEF Advance, Open
    <3>2. Open(u) = {r} /\ Progress(r)
      BY <2>4, <3>1 DEF AloneInv, AloneAt
    <3>3. Open(u)' = IF todo'[r] = <<>> THEN {} ELSE {r}
      BY <2>2, <3>2 DEF Open
    <3>4. u \in Users /\ r \in Requests /\ DOMAIN todo = Requests
      BY <1>r DEF Types
    <3>. HIDE DEF u
    <3>5. CASE todo[r] = FollowLocal
      <4>1. AddFollower(u) /\ Then(r, Follow2)
        BY <1>3, <3>5, AdvanceCases, TodoHeads DEF u
      <4>2. Contains(followers', u) /\ todo'[r] = Follow2
        BY <1>f, <3>4, <4>1, AddedMember DEF Then
      <4>. QED
        BY <3>3, <4>2, TodoHeads DEF AloneAt, Progress, u
    <3>6. CASE todo[r] = Follow2
      <4>1. SetFollowing(u, "Pending") /\ UNCHANGED followers /\ Then(r, Follow1)
        BY <1>3, <3>6, AdvanceCases, TodoHeads DEF u
      <4>2. Contains(followers', u) /\ following'[u] = "Pending" /\ todo'[r] = Follow1
        BY <1>f, <3>2, <3>4, <3>6, <4>1, TodoHeads DEF Then, SetFollowing, Progress, u
      <4>. QED
        BY <3>3, <4>2, TodoHeads DEF AloneAt, Progress, u
    <3>7. CASE todo[r] = Follow1
      <4>1. /\ SetFollowing(u, IF following[u] = "none" THEN "none" ELSE "Accepted")
            /\ UNCHANGED followers /\ Then(r, <<>>)
        BY <1>3, <3>7, AdvanceCases, TodoHeads DEF u
      <4>2. Contains(followers, u) /\ following[u] = "Pending"
        BY <3>2, <3>7, TodoHeads DEF Progress, u
      <4>3. Contains(followers', u) /\ following'[u] = "Accepted" /\ todo'[r] = <<>>
        BY <1>f, <3>4, <4>1, <4>2 DEF Then, SetFollowing
      <4>. QED
        BY <3>3, <4>3 DEF AloneAt
    <3>8. CASE todo[r] = UnfollowLocal
      <4>1. RemoveFollower(u) /\ Then(r, Unfollow1)
        BY <1>3, <3>8, AdvanceCases, TodoHeads DEF u
      <4>2. ~ Contains(followers', u) /\ todo'[r] = Unfollow1
        BY <1>f, <3>4, <4>1, RemovedMember DEF Then
      <4>. QED
        BY <3>3, <4>2, TodoHeads DEF AloneAt, Progress, u
    <3>9. CASE todo[r] = Unfollow1
      <4>1. SetFollowing(u, "none") /\ UNCHANGED followers /\ Then(r, <<>>)
        BY <1>3, <3>9, AdvanceCases, TodoHeads DEF u
      <4>2. ~ Contains(followers, u)
        BY <3>2, <3>9, TodoHeads DEF Progress, u
      <4>3. ~ Contains(followers', u) /\ following'[u] = "none" /\ todo'[r] = <<>>
        BY <1>f, <3>4, <4>1, <4>2 DEF Then, SetFollowing
      <4>. QED
        BY <3>3, <4>3 DEF AloneAt
    <3>. QED
      BY <1>3, <3>5, <3>6, <3>7, <3>8, <3>9, AdvanceCases
  <2>. QED
    BY <2>1, <2>3, <2>4 DEF AloneInv
<1>4. ASSUME NEW r \in Requests, Fail(r) PROVE AloneInv'
  <2>1. /\ alone' = alone \ {r[2]} /\ UNCHANGED <<followers, following>>
        /\ \A x \in Requests \ {r} : todo'[x] = todo[x]
    BY <1>4 DEF Fail, tables, Types
  <2>2. ASSUME NEW w \in alone, w # r[2] PROVE AloneAt(w)'
    BY <2>1, <2>2, AloneOther DEF AloneInv
  <2>. QED
    BY <2>1, <2>2 DEF AloneInv
<1>5. ASSUME NEW u \in Users, TargetRemoves(u) PROVE AloneInv'
  <2>1. /\ alone' = alone \ {u} /\ RemoveFollower(u) /\ UNCHANGED <<following, todo>>
    BY <1>5 DEF TargetRemoves
  <2>2. ASSUME NEW w \in alone, w # u PROVE AloneAt(w)'
    <3>1. Contains(followers', w) <=> Contains(followers, w)
      BY <1>f, <2>1, <2>2, RemovedMember
    <3>. QED
      BY <2>1, <2>2, <3>1, AloneOther DEF AloneInv
  <2>. QED
    BY <2>1, <2>2 DEF AloneInv
<1>. QED
  BY <1>1, <1>2, <1>3, <1>4, <1>5
  DEF Next, Changes, CountFollowers, FetchItems, NextLocal, vars

\* A request that runs alone and to its end leaves the two sides of the relation agreeing,
\* whatever requests that failed half-way, overlapped or were one-sided left behind.
THEOREM SidesAgreeHolds == Spec => []SidesAgree
<1>1. Init => AloneInv
  <2>. SUFFICES ASSUME Init PROVE AloneInv
    OBVIOUS
  <2>1. \A u : Open(u) = {}
    BY DEF Init, InitLocal, Open
  <2>. QED
    BY <2>1 DEF Init, InitLocal, AloneInv, AloneAt
<1>2. Types /\ AloneInv => SidesAgree
  BY BusyIsOpen DEF AloneInv, AloneAt, SidesAgree
<1>. QED
  BY <1>1, <1>2, TypesInitially, TypesKept, AloneKept, PTL DEF Spec

-----------------------------------------------------------------------------
(* Pages.                                                                  *)

LEMMA Sizes ==
  /\ PageSize \in Nat /\ PageSize > 0 /\ Width \in Nat
  /\ Cardinality(Users) \in Nat /\ Cardinality(Users) + PageSize <= Width
BY CollectionsAssumption, LocalFollowsAssumption, FS_CardinalityType

LEMMA MinOfTwo ==
  ASSUME NEW a \in Nat, NEW b \in Nat
  PROVE  Min({a, b}) = IF a <= b THEN a ELSE b
<1>. DEFINE m == IF a <= b THEN a ELSE b
<1>1. m \in {a, b} /\ \A y \in {a, b} : m <= y
  OBVIOUS
<1>2. \A x \in {a, b} : (\A y \in {a, b} : x <= y) => x = m
  OBVIOUS
<1>. HIDE DEF m
<1>3. Min({a, b}) \in {a, b} /\ \A y \in {a, b} : Min({a, b}) <= y
  BY <1>1 DEF Min
<1>4. Min({a, b}) = m
  BY <1>2, <1>3
<1>. QED
  BY <1>4 DEF m

\* Offsets grow by a page, and no page begins before as many rows as there are pages
\* before it.
LEMMA Offsets ==
  ASSUME NEW n \in Nat, n # 0
  PROVE  /\ Offset(n) \in Nat /\ n - 1 <= Offset(n)
         /\ Offset(n + 1) = Offset(n) + PageSize
<1>1. \A m, p \in Nat : p > 0 => m * p \in Nat /\ m <= m * p /\ ((m + 1) * p) = (m * p) + p
  OBVIOUS
<1>2. n - 1 \in Nat /\ (n - 1) + 1 = n /\ (n + 1) - 1 = n
  OBVIOUS
<1>3. (n - 1) * PageSize \in Nat /\ n - 1 <= (n - 1) * PageSize /\ n * PageSize = (n - 1) * PageSize + PageSize
  BY <1>1, <1>2, Sizes
<1>. QED
  BY <1>2, <1>3 DEF Offset

\* get_followers_page returns the rows behind the offset, a page of them at most.
LEMMA PageItems ==
  ASSUME followers \in Rows, NEW offset \in Nat
  PROVE  /\ Len(FollowersPage(offset)) \in Nat /\ Len(FollowersPage(offset)) <= PageSize
         /\ \A u : u \in ToSet(FollowersPage(offset)) <=>
              \E i \in 1..Len(followers) : followers[i] = u /\ offset < i /\ i <= offset + PageSize
<1>. DEFINE items == FollowersPage(offset)
            end == Min({offset + PageSize, Len(followers)})
<1>1. /\ Len(followers) \in Nat
      /\ \A i \in 1..Len(followers) : followers[i] \in Users
  BY RowsAre
<1>2. end = IF offset + PageSize <= Len(followers) THEN offset + PageSize ELSE Len(followers)
  BY <1>1, MinOfTwo, Sizes
<1>3. items = SubSeq(followers, offset + 1, end)
  BY DEF FollowersPage
<1>. HIDE DEF items, end
<1>4. end \in Nat /\ end <= Len(followers) /\ end <= offset + PageSize
  BY <1>1, <1>2, Sizes
<1>5. \A i \in (offset + 1)..end : followers[i] \in Users
  BY <1>1, <1>4
<1>6. /\ SubSeq(followers, offset + 1, end) \in Seq(Users)
      /\ Len(SubSeq(followers, offset + 1, end)) = (IF offset + 1 <= end THEN end - (offset + 1) + 1 ELSE 0)
      /\ \A i \in 1..(end - (offset + 1) + 1) :
           SubSeq(followers, offset + 1, end)[i] = followers[(offset + 1) + i - 1]
  BY <1>4, <1>5, SubSeqProperties
<1>7. items \in Seq(Users) /\ Len(items) = IF offset < end THEN end - offset ELSE 0
  BY <1>3, <1>4, <1>6
<1>8. \A i \in 1..(end - offset) : items[i] = followers[offset + i]
  <2>. SUFFICES ASSUME NEW i \in 1..(end - offset) PROVE items[i] = followers[offset + i]
    OBVIOUS
  <2>1. i \in 1..(end - (offset + 1) + 1) /\ (offset + 1) + i - 1 = offset + i
    BY <1>4
  <2>. QED
    BY <1>3, <1>6, <2>1
<1>9. DOMAIN items = 1..Len(items)
  BY <1>7, LenProperties
<1>10. ASSUME NEW u, u \in ToSet(items)
       PROVE  \E i \in 1..Len(followers) : followers[i] = u /\ offset < i /\ i <= offset + PageSize
  <2>1. PICK i \in 1..Len(items) : items[i] = u
    BY <1>9, <1>10 DEF ToSet
  <2>2. i \in 1..(end - offset) /\ offset + i \in 1..Len(followers)
        /\ offset < offset + i /\ offset + i <= offset + PageSize
    BY <1>1, <1>4, <1>7, Sizes
  <2>. QED
    BY <1>8, <2>1, <2>2
<1>11. ASSUME NEW i \in 1..Len(followers), offset < i, i <= offset + PageSize
       PROVE  followers[i] \in ToSet(items)
  <2>1. i <= end
    BY <1>1, <1>2, <1>11
  <2>2. i - offset \in 1..(end - offset) /\ offset + (i - offset) = i /\ i - offset \in 1..Len(items)
    BY <1>1, <1>4, <1>7, <1>11, <2>1
  <2>3. items[i - offset] = followers[i]
    BY <1>8, <2>2
  <2>. QED
    BY <1>9, <2>2, <2>3 DEF ToSet
<1>12. Len(items) \in Nat /\ Len(items) <= PageSize
  BY <1>4, <1>7, Sizes
<1>. QED
  BY <1>10, <1>11, <1>12 DEF items

-----------------------------------------------------------------------------
(* Types of the walk.                                                      *)

ReaderTypes ==
  /\ page \in 0..(Cardinality(Users) + 1)
  /\ page # 0 => Offset(page) < Cardinality(Users) + PageSize
  /\ total \subseteq 0..Cardinality(Users) /\ Cardinality(total) <= 1
  /\ page = 0 => total = {}
  /\ listed \subseteq Users /\ steady \subseteq Users
  /\ returned \subseteq Users /\ repeated \subseteq Users

LEMMA SmallSets == Cardinality({}) <= 1 /\ \A x : Cardinality({x}) <= 1
BY FS_EmptySet, FS_Singleton

\* The page that is read, and the one the reader asks for next.
LEMMA FetchCases ==
  ASSUME Types, ReaderTypes, FetchItems
  PROVE  /\ page \in Nat /\ page # 0 /\ Offset(page) \in Nat
         /\ \E count, items :
              /\ count \in total /\ count \in 0..Cardinality(Users)
              /\ Len(items) \in Nat /\ Len(items) <= PageSize
              /\ \A u : u \in ToSet(items) <=>
                   \E i \in 1..Len(followers) :
                     followers[i] = u /\ Offset(page) < i /\ i <= Offset(page) + PageSize
              /\ listed' = listed \cup ToSet(items)
              /\ repeated' = repeated \cup (listed \cap ToSet(items))
              /\ \/ Offset(page) + Len(items) < count /\ page' = page + 1
                 \/ ~ (Offset(page) + Len(items) < count) /\ page' = 0
              /\ total' = {}
              /\ UNCHANGED <<varsLocal, steady, returned>>
<1>1. PICK count \in total :
        LET items == FollowersPage(Offset(page) % Width) IN
        /\ listed' = listed \cup ToSet(items)
        /\ repeated' = repeated \cup (listed \cap ToSet(items))
        /\ page' = IF HasNext(items, count) THEN page + 1 ELSE 0
        /\ total' = {}
        /\ UNCHANGED <<varsLocal, steady, returned>>
  BY DEF FetchItems
<1>2. page \in Nat /\ page # 0 /\ count \in 0..Cardinality(Users)
  BY Sizes DEF ReaderTypes
<1>3. Offset(page) \in Nat /\ Offset(page) < Width
  BY <1>2, Offsets, Sizes DEF ReaderTypes
<1>4. Offset(page) % Width = Offset(page)
  BY <1>3, Sizes
<1>. DEFINE items == FollowersPage(Offset(page))
<1>5. /\ Len(items) \in Nat /\ Len(items) <= PageSize
      /\ \A u : u \in ToSet(items) <=>
           \E i \in 1..Len(followers) :
             followers[i] = u /\ Offset(page) < i /\ i <= Offset(page) + PageSize
  BY <1>3, PageItems DEF Types
<1>6. /\ listed' = listed \cup ToSet(items)
      /\ repeated' = repeated \cup (listed \cap ToSet(items))
      /\ page' = IF HasNext(items, count) THEN page + 1 ELSE 0
      /\ total' = {}
      /\ UNCHANGED <<varsLocal, steady, returned>>
  BY <1>1, <1>4
<1>. HIDE DEF items
<1>7. \/ Offset(page) + Len(items) < count /\ page' = page + 1
      \/ ~ (Offset(page) + Len(items) < count) /\ page' = 0
  BY <1>6 DEF HasNext
<1>. QED
  BY <1>2, <1>3, <1>5, <1>6, <1>7

LEMMA ReaderTypesKept == Types /\ ReaderTypes /\ [Next]_vars => ReaderTypes'
<1>. SUFFICES ASSUME Types, ReaderTypes, [Next]_vars PROVE ReaderTypes'
  OBVIOUS
<1>1. CASE Changes
  <2>1. followers' \in Rows
    BY <1>1, RowsChange, ChangedRows DEF Changes, Types
  <2>2. ToSet(followers') \subseteq Users
    BY <2>1, RowsAre DEF Contains
  <2>3. steady' \subseteq steady /\ returned' \subseteq returned \cup ToSet(followers') /\ UNCHANGED reader
    BY <1>1 DEF Changes
  <2>. QED
    BY <2>2, <2>3 DEF reader, ReaderTypes, Offset
<1>2. CASE CountFollowers
  <2>1. Len(followers) \in 0..Cardinality(Users)
    BY RowsBounded DEF Types
  <2>. QED
    BY <1>2, <2>1, SmallSets DEF CountFollowers, ReaderTypes, Offset
<1>3. CASE FetchItems
  <2>1. PICK count, items :
          /\ count \in total /\ count \in 0..Cardinality(Users)
          /\ Len(items) \in Nat
          /\ \A u : u \in ToSet(items) => \E i \in 1..Len(followers) : followers[i] = u
          /\ listed' = listed \cup ToSet(items)
          /\ repeated' = repeated \cup (listed \cap ToSet(items))
          /\ \/ Offset(page) + Len(items) < count /\ page' = page + 1
             \/ page' = 0
          /\ total' = {}
          /\ UNCHANGED <<varsLocal, steady, returned>>
    BY <1>3, FetchCases
  <2>2. page \in Nat /\ page # 0 /\ Offset(page) \in Nat
    BY <1>3, FetchCases
  <2>3. page - 1 <= Offset(page) /\ Offset(page + 1) = Offset(page) + PageSize
    BY <2>2, Offsets
  <2>4. ToSet(items) \subseteq Users
    BY <2>1, RowsAre DEF Types
  <2>5. page' # 0 => page' <= Cardinality(Users) + 1 /\ Offset(page') < Cardinality(Users) + PageSize
    BY <2>1, <2>2, <2>3, Sizes
  <2>6. page' \in 0..(Cardinality(Users) + 1)
    BY <2>1, <2>2, <2>5, Sizes
  <2>7. Offset(page)' = Offset(page')
    BY DEF Offset
  <2>. QED
    BY <2>1, <2>4, <2>5, <2>6, <2>7, SmallSets DEF ReaderTypes
<1>4. CASE UNCHANGED vars
  BY <1>4 DEF vars, reader, ReaderTypes, Offset
<1>. QED
  BY <1>1, <1>2, <1>3, <1>4 DEF Next

LEMMA ReaderTypesInitially == Init => ReaderTypes
<1>. SUFFICES ASSUME Init PROVE ReaderTypes
  OBVIOUS
<1>1. /\ page = 1 /\ total = {} /\ listed = {} /\ repeated = {} /\ returned = {}
      /\ steady = ToSet(followers) /\ followers \in Rows
  BY TypesInitially DEF Init, InitLocal, Types
<1>2. Offset(1) = 0
  BY Sizes DEF Offset
<1>3. ToSet(followers) \subseteq Users
  BY <1>1, RowsAre
<1>. QED
  BY <1>1, <1>2, <1>3, SmallSets, Sizes DEF ReaderTypes

\* The tables and the walk have their types, and the pages stay within the rows there can
\* be, so that the cast of their offset to a u32 changes nothing.
THEOREM TypeCorrect == Spec => []TypeOK
<1>1. Types => TypeOKLocal
  <2>. SUFFICES ASSUME Types PROVE TypeOKLocal
    OBVIOUS
  <2>1. /\ DOMAIN followers = 1..Len(followers)
        /\ \A i, j \in 1..Len(followers) : followers[i] = followers[j] => i = j
        /\ \A u : u \in ToSet(followers) <=> \E i \in 1..Len(followers) : followers[i] = u
        /\ \A i \in 1..Len(followers) : followers[i] \in Users
    BY RowsAre DEF Types
  <2>2. IsInjective(followers) /\ ToSet(followers) \subseteq Users
    BY <2>1 DEF IsInjective
  <2>. QED
    BY <2>2 DEF Types, TypeOKLocal, Statuses
<1>2. Types /\ ReaderTypes => TypeOK
  BY <1>1, Sizes, Offsets DEF ReaderTypes, TypeOK
<1>. QED
  BY <1>2, TypesInitially, TypesKept, ReaderTypesInitially, ReaderTypesKept, PTL DEF Spec

-----------------------------------------------------------------------------
(* WalkComplete and NoneListedTwice.                                       *)

\* A row that stays where it is and was not listed is on a page yet to come, and was
\* counted with it.
StillThere ==
  /\ steady \subseteq ToSet(followers)
  /\ \A i \in 1..Len(followers) : followers[i] \in steady =>
       /\ \A count \in total : i <= count
       /\ page # 0 => Offset(page) < i \/ followers[i] \in listed
  /\ WalkComplete

\* A row that was listed and not added anew is on a page before.
ListedAbove ==
  /\ page # 0 =>
       \A i \in 1..Len(followers) : followers[i] \in listed \ returned => i <= Offset(page)
  /\ NoneListedTwice

\* Rows move up when one above them is removed; no row moves down.
LEMMA RowsMove ==
  ASSUME Types, Changes
  PROVE  /\ followers' \in Rows
         /\ \A i \in 1..Len(followers) : followers[i] \in steady' =>
              i \in 1..Len(followers') /\ followers'[i] = followers[i]
         /\ \A i \in 1..Len(followers') :
              \/ followers'[i] \in returned'
              \/ \E j \in 1..Len(followers) : followers[j] = followers'[i] /\ i <= j
<1>. DEFINE gone == {i \in DOMAIN followers : ~ Contains(followers', followers[i])}
<1>1. RowChange /\ followers' \in Rows /\ followers \in Rows
  BY RowsChange, ChangedRows DEF Changes, Types
<1>2. /\ Len(followers) \in Nat /\ DOMAIN followers = 1..Len(followers)
      /\ \A i, j \in 1..Len(followers) : followers[i] = followers[j] => i = j
      /\ \A u : u \in ToSet(followers) <=> \E i \in 1..Len(followers) : followers[i] = u
  BY <1>1, RowsAre
<1>3. /\ Len(followers') \in Nat
      /\ \A u : Contains(followers', u) <=> \E i \in 1..Len(followers') : followers'[i] = u
      /\ \A u : u \in ToSet(followers') <=> Contains(followers', u)
  BY <1>1, RowsAre
<1>4. /\ steady' = {followers[i] : i \in
           {j \in DOMAIN followers : followers[j] \in steady /\ \A k \in gone : j < k}}
      /\ returned' = returned \cup (ToSet(followers') \ ToSet(followers))
  BY DEF Changes
<1>5. \A k : k \in gone <=> k \in 1..Len(followers) /\ ~ Contains(followers', followers[k])
  BY <1>2
<1>. HIDE DEF gone
<1>6. ASSUME NEW i \in 1..Len(followers), followers[i] \in steady' PROVE \A k \in gone : i < k
  <2>1. PICK j \in DOMAIN followers : followers[j] = followers[i] /\ \A k \in gone : j < k
    BY <1>4, <1>6
  <2>. QED
    BY <1>2, <2>1
<1>7. CASE followers' = followers
  <2>1. \A i \in 1..Len(followers') : followers[i] = followers'[i] /\ i \in 1..Len(followers) /\ i <= i
    BY <1>2, <1>7
  <2>2. Len(followers') = Len(followers)
    BY <1>7
  <2>. QED
    BY <1>1, <1>7, <2>1, <2>2
<1>8. CASE \E u \in Users : ~ Contains(followers, u) /\ followers' = Added(followers, u)
  <2>1. PICK u \in Users : ~ Contains(followers, u) /\ followers' = Added(followers, u)
    BY <1>8
  <2>2. /\ Len(followers') = Len(followers) + 1
        /\ \A i \in 1..Len(followers) : followers'[i] = followers[i]
        /\ followers'[Len(followers) + 1] = u
    BY <1>1, <2>1, RowAdded
  <2>3. u \in returned'
    <3>1. u \notin ToSet(followers)
      BY <1>1, <2>1, RowsAre
    <3>2. u \in ToSet(followers')
      BY <1>2, <1>3, <2>2
    <3>. QED
      BY <1>4, <3>1, <3>2
  <2>4. ASSUME NEW i \in 1..Len(followers')
        PROVE  \/ followers'[i] \in returned'
               \/ \E j \in 1..Len(followers) : followers[j] = followers'[i] /\ i <= j
    <3>1. CASE i \in 1..Len(followers)
      BY <2>2, <3>1
    <3>2. CASE i = Len(followers) + 1
      BY <2>2, <2>3, <3>2
    <3>. QED
      BY <1>2, <2>2, <3>1, <3>2
  <2>5. \A i \in 1..Len(followers) : i \in 1..Len(followers')
    BY <1>2, <2>2
  <2>. QED
    BY <1>1, <2>2, <2>4, <2>5
<1>9. CASE \E k \in 1..Len(followers) : followers' = RemoveAt(followers, k)
  <2>1. PICK k \in 1..Len(followers) : followers' = RemoveAt(followers, k)
    BY <1>9
  <2>2. /\ Len(followers') = Len(followers) - 1
        /\ \A i \in 1..Len(followers') : followers'[i] = IF i < k THEN followers[i] ELSE followers[i + 1]
    BY <1>1, <2>1, RowRemoved
  <2>3. k \in gone
    <3>1. SUFFICES ASSUME NEW i \in 1..Len(followers'), followers'[i] = followers[k] PROVE FALSE
      BY <1>3, <1>5
    <3>. QED
      BY <1>2, <2>2, <3>1
  <2>4. ASSUME NEW i \in 1..Len(followers), followers[i] \in steady'
        PROVE  i \in 1..Len(followers') /\ followers'[i] = followers[i]
    <3>1. i < k
      BY <1>6, <2>3, <2>4
    <3>2. i \in 1..Len(followers')
      BY <1>2, <2>2, <3>1
    <3>. QED
      BY <2>2, <3>1, <3>2
  <2>5. ASSUME NEW i \in 1..Len(followers')
        PROVE  \E j \in 1..Len(followers) : followers[j] = followers'[i] /\ i <= j
    <3>1. i \in 1..Len(followers) /\ i + 1 \in 1..Len(followers) /\ i <= i /\ i <= i + 1
      BY <1>2, <2>2
    <3>. QED
      BY <2>2, <3>1
  <2>. QED
    BY <1>1, <2>4, <2>5
<1>. QED
  BY <1>1, <1>7, <1>8, <1>9 DEF RowChange

LEMMA WalkKept ==
  Types /\ ReaderTypes /\ StillThere /\ ListedAbove /\ [Next]_vars => StillThere' /\ ListedAbove'
<1>. SUFFICES ASSUME Types, ReaderTypes, StillThere, ListedAbove, [Next]_vars
              PROVE  StillThere' /\ ListedAbove'
  OBVIOUS
<1>t. /\ followers \in Rows /\ Len(followers) \in Nat
      /\ \A u : u \in ToSet(followers) <=> \E i \in 1..Len(followers) : followers[i] = u
  BY RowsAre DEF Types
<1>1. CASE Changes
  <2>1. /\ followers' \in Rows
        /\ \A i \in 1..Len(followers) : followers[i] \in steady' =>
             i \in 1..Len(followers') /\ followers'[i] = followers[i]
        /\ \A i \in 1..Len(followers') :
             \/ followers'[i] \in returned'
             \/ \E j \in 1..Len(followers) : followers[j] = followers'[i] /\ i <= j
    BY <1>1, RowsMove
  <2>2. /\ steady' \subseteq steady /\ returned \subseteq returned'
        /\ UNCHANGED <<page, total, listed, repeated>>
    BY <1>1 DEF Changes, reader
  <2>3. /\ Len(followers') \in Nat
        /\ \A i, j \in 1..Len(followers') : followers'[i] = followers'[j] => i = j
        /\ \A u : u \in ToSet(followers') <=> \E i \in 1..Len(followers') : followers'[i] = u
    BY <2>1, RowsAre
  <2>4. \A u \in steady' : \E i \in 1..Len(followers) : i \in 1..Len(followers') /\ followers[i] = u /\ followers'[i] = u
    <3>1. \A u \in steady' : \E i \in 1..Len(followers) : followers[i] = u
      BY <1>t, <2>2 DEF StillThere
    <3>. QED
      BY <2>1, <3>1
  <2>5. Offset(page') = Offset(page)
    BY <2>2
  <2>6. StillThere'
    <3>1. ASSUME NEW i \in 1..Len(followers'), followers'[i] \in steady'
          PROVE  /\ \A count \in total : i <= count
                 /\ page # 0 => Offset(page) < i \/ followers'[i] \in listed
      <4>1. i \in 1..Len(followers) /\ followers[i] = followers'[i]
        BY <2>3, <2>4, <3>1
      <4>. QED
        BY <2>2, <3>1, <4>1 DEF StillThere
    <3>2. steady' \subseteq ToSet(followers')
      BY <2>3, <2>4
    <3>. QED
      BY <2>2, <3>1, <3>2 DEF StillThere, WalkComplete, Offset
  <2>7. ListedAbove'
    <3>1. ASSUME page # 0, NEW i \in 1..Len(followers'), followers'[i] \in listed \ returned'
          PROVE  i <= Offset(page)
      <4>1. PICK j \in 1..Len(followers) : followers[j] = followers'[i] /\ i <= j
        BY <2>1, <3>1
      <4>2. j <= Offset(page)
        BY <2>2, <3>1, <4>1 DEF ListedAbove
      <4>3. Offset(page) \in Nat
        BY <3>1, Offsets DEF ReaderTypes
      <4>. QED
        BY <1>t, <2>3, <4>1, <4>2, <4>3
    <3>. QED
      BY <2>2, <3>1 DEF ListedAbove, NoneListedTwice, Offset
  <2>. QED
    BY <2>6, <2>7
<1>2. CASE CountFollowers
  <2>1. total' = {Len(followers)} /\ UNCHANGED <<varsLocal, page, listed, repeated, steady, returned>>
    BY <1>2 DEF CountFollowers
  <2>. QED
    BY <1>t, <2>1 DEF varsLocal, tables, StillThere, ListedAbove, WalkComplete, NoneListedTwice, Offset
<1>3. CASE FetchItems
  <2>. DEFINE offset == Offset(page)
  <2>1. PICK count, items :
          /\ count \in total /\ count \in 0..Cardinality(Users)
          /\ Len(items) \in Nat /\ Len(items) <= PageSize
          /\ \A u : u \in ToSet(items) <=>
               \E i \in 1..Len(followers) : followers[i] = u /\ offset < i /\ i <= offset + PageSize
          /\ listed' = listed \cup ToSet(items)
          /\ repeated' = repeated \cup (listed \cap ToSet(items))
          /\ \/ offset + Len(items) < count /\ page' = page + 1
             \/ ~ (offset + Len(items) < count) /\ page' = 0
          /\ total' = {}
          /\ UNCHANGED <<varsLocal, steady, returned>>
    BY <1>3, FetchCases
  <2>2. page \in Nat /\ page # 0 /\ offset \in Nat
    BY <1>3, FetchCases
  <2>3. Offset(page + 1) = offset + PageSize
    BY <2>2, Offsets
  <2>4. Offset(page)' = Offset(page')
    BY DEF Offset
  <2>. HIDE DEF offset
  <2>5. UNCHANGED followers
    BY <2>1 DEF varsLocal, tables
  <2>6. ASSUME NEW i \in 1..Len(followers), followers[i] \in steady
        PROVE  /\ page' # 0 => Offset(page') < i \/ followers[i] \in listed'
               /\ page' = 0 => followers[i] \in listed'
    <3>1. i <= count /\ (offset < i \/ followers[i] \in listed)
      BY <2>1, <2>2, <2>6 DEF StillThere, offset
    <3>2. offset < i /\ i <= offset + PageSize => followers[i] \in listed'
      BY <2>1
    <3>3. CASE offset + Len(items) < count /\ page' = page + 1
      BY <1>t, <2>1, <2>2, <2>3, <3>1, <3>2, <3>3, Sizes
    <3>4. CASE ~ (offset + Len(items) < count) /\ page' = 0
      BY <1>t, <2>1, <2>2, <3>1, <3>2, <3>4, Sizes
    <3>. QED
      BY <2>1, <3>3, <3>4
  <2>7. StillThere'
    <3>1. page' = 0 => steady \subseteq listed'
      BY <1>t, <2>6 DEF StillThere
    <3>. QED
      BY <2>1, <2>4, <2>5, <2>6, <3>1 DEF StillThere, WalkComplete
  <2>8. ListedAbove'
    <3>1. ASSUME NEW u \in listed \cap ToSet(items) PROVE u \in returned
      <4>1. PICK i \in 1..Len(followers) : followers[i] = u /\ offset < i
        BY <2>1
      <4>. QED
        BY <1>t, <2>2, <4>1 DEF ListedAbove, offset
    <3>2. ASSUME page' # 0, NEW i \in 1..Len(followers), followers[i] \in listed' \ returned
          PROVE  i <= Offset(page')
      <4>1. page' = page + 1 /\ Offset(page') = offset + PageSize
        BY <2>1, <2>3, <3>2
      <4>2. CASE followers[i] \in listed
        <5>1. i <= offset
          BY <2>2, <3>2, <4>2 DEF ListedAbove, offset
        <5>. QED
          BY <1>t, <2>2, <4>1, <5>1, Sizes
      <4>3. CASE followers[i] \in ToSet(items)
        <5>1. PICK j \in 1..Len(followers) : followers[j] = followers[i] /\ j <= offset + PageSize
          BY <2>1, <4>3
        <5>2. i = j
          BY <1>t, <5>1, RowsAre
        <5>. QED
          BY <4>1, <5>1, <5>2
      <4>. QED
        BY <2>1, <3>2, <4>2, <4>3
    <3>. QED
      BY <2>1, <2>4, <2>5, <3>1, <3>2 DEF ListedAbove, NoneListedTwice
  <2>. QED
    BY <2>7, <2>8
<1>4. CASE UNCHANGED vars
  BY <1>4 DEF vars, varsLocal, tables, reader, StillThere, ListedAbove, WalkComplete,
     NoneListedTwice, Offset
<1>. QED
  BY <1>1, <1>2, <1>3, <1>4 DEF Next

LEMMA WalkInitially == Init => StillThere /\ ListedAbove
<1>. SUFFICES ASSUME Init PROVE StillThere /\ ListedAbove
  OBVIOUS
<1>1. /\ page = 1 /\ total = {} /\ listed = {} /\ repeated = {} /\ steady = ToSet(followers)
      /\ Len(followers) \in Nat
  BY TypesInitially, RowsAre DEF Init, InitLocal, Types
<1>2. Offset(1) = 0
  BY Sizes DEF Offset
<1>. QED
  BY <1>1, <1>2 DEF StillThere, ListedAbove, WalkComplete, NoneListedTwice

\* A reader who has come to the last page was sent every follower who was there all the
\* time and whose row no removal moved up.
THEOREM WalkCompleteHolds == Spec => []WalkComplete
<1>1. StillThere => WalkComplete
  BY DEF StillThere
<1>. QED
  BY <1>1, TypesInitially, TypesKept, ReaderTypesInitially, ReaderTypesKept, WalkInitially,
     WalkKept, PTL DEF Spec

\* No follower is sent twice who was not added anew during the walk.
THEOREM NoneListedTwiceHolds == Spec => []NoneListedTwice
<1>1. ListedAbove => NoneListedTwice
  BY DEF ListedAbove
<1>. QED
  BY <1>1, TypesInitially, TypesKept, ReaderTypesInitially, ReaderTypesKept, WalkInitially,
     WalkKept, PTL DEF Spec
=============================================================================
