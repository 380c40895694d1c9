--------------------------- MODULE HistoryProofs ---------------------------
(***************************************************************************)
(* Proofs about History, for any posts and timestamps, sizes of batches and *)
(* pages and numbers of mishaps: neither the backfill nor the import leaves *)
(* a gap, no post is handled twice, and a removed post does not stay.      *)
(***************************************************************************)
EXTENDS History, FiniteSetTheorems, TLAPS

\* Every set of naturals that is not empty has a least element.
LEMMA LeastExists ==
  ASSUME NEW S \in SUBSET Nat, S # {}
  PROVE  \E m \in S : \A x \in S : m <= x
<1>. DEFINE Less == {ss \in Nat \X Nat : ss[1] < ss[2]}
<1>1. IsWellFoundedOn(Less, Nat)
  BY NatLessThanWellFounded DEF OpToRel
<1>2. \E m \in S : \A x \in S : ~ (<<x, m>> \in Less)
  <2>. HIDE DEF Less
  <2>. QED
    BY <1>1, WFMin
<1>3. ASSUME NEW m \in Nat, NEW x \in Nat, ~ (<<x, m>> \in Less) PROVE m <= x
  BY <1>3
<1>. HIDE DEF Less
<1>. QED
  BY <1>2, <1>3

LEMMA MinIs ==
  ASSUME NEW S \in SUBSET Nat, S # {}
  PROVE  Min(S) \in S /\ \A x \in S : Min(S) <= x
BY LeastExists DEF Min

LEMMA MaxIs ==
  ASSUME NEW S \in SUBSET Posts, S # {}
  PROVE  Max(S) \in S /\ \A x \in S : x <= Max(S)
<1>. DEFINE T == {n \in Nat : \A x \in S : x <= n}
<1>1. NumPosts \in T
  BY HistoryAssumption DEF Posts
<1>2. PICK m \in T : \A n \in T : m <= n
  <2>. HIDE DEF T
  <2>1. T \in SUBSET Nat
    BY DEF T
  <2>. QED
    BY <1>1, <2>1, LeastExists
<1>3. S \subseteq Nat
  BY DEF Posts
<1>4. m \in S
  <2>1. SUFFICES ASSUME m \notin S PROVE FALSE
    OBVIOUS
  <2>2. PICK x \in S : TRUE
    OBVIOUS
  <2>3. m \in Nat /\ \A y \in S : y \in Nat /\ y < m
    BY <1>3, <2>1
  <2>4. m - 1 \in T
    BY <1>3, <2>2, <2>3
  <2>. QED
    BY <1>2, <2>3, <2>4
<1>5. \E y \in S : \A x \in S : x <= y
  BY <1>4
<1>6. \E y \in S : \A x \in S : y >= x
  BY <1>3, <1>5
<1>. QED
  BY <1>3, <1>6 DEF Max
-----------------------------------------------------------------------------
(* Pages.                                                                  *)

\* The timestamps, and the cursors made of them.
LEMMA Timestamps ==
  /\ NoCursor \in Nat
  /\ \A p \in Posts : Published[p] \in Nat /\ Published[p] < NoCursor
  /\ \A p, q \in Posts : p <= q => Published[p] <= Published[q]
<1>1. NumPosts \in Posts /\ \A p \in Posts : p <= NumPosts
  BY HistoryAssumption DEF Posts
<1>. QED
  BY <1>1, HistoryAssumption DEF NoCursor

LEMMA CutIsLess ==
  ASSUME NEW t \in Nat
  PROVE  CutToMillis(t) \in Nat /\ CutToMillis(t) <= t
<1>1. t % Millisecond \in 0..(Millisecond - 1) /\ t % Millisecond <= t
  BY HistoryAssumption
<1>. QED
  BY <1>1, HistoryAssumption DEF CutToMillis

\* Posts are numbers, and there are finitely many.
LEMMA PostsAreNumbers ==
  /\ Posts \subseteq Nat /\ IsFiniteSet(Posts)
  /\ \A before : posts \subseteq Posts => Older(before) \subseteq Posts
<1>1. Posts \subseteq Nat
  BY DEF Posts
<1>2. IsFiniteSet(Posts)
  BY FS_Interval, HistoryAssumption DEF Posts
<1>. QED
  BY <1>1, <1>2 DEF Older

Newer(O, p) == {q \in O : q > p}

\* The limit newest of a set of posts: at most the limit, some if there are any,
\* and all when they are fewer than the limit.
LEMMA NewestOf ==
  ASSUME NEW O \in SUBSET Posts, NEW limit \in Nat \ {0}, NEW P,
         \A p : p \in P <=> p \in O /\ Cardinality(Newer(O, p)) < limit
  PROVE  /\ P \subseteq O
         /\ P = {} => O = {}
         /\ Cardinality(P) \in Nat /\ Cardinality(P) <= limit
         /\ Cardinality(P) < limit => P = O
<1>. DEFINE Above(p) == Newer(O, p)
<1>1. \A p \in O : p \in Nat
  BY PostsAreNumbers
<1>2. IsFiniteSet(O)
  BY PostsAreNumbers, FS_Subset
<1>0. limit \in Nat /\ 0 < limit
  OBVIOUS
<1>3. \A p : Above(p) \subseteq O
  BY DEF Newer
<1>4. \A p : IsFiniteSet(Above(p)) /\ Cardinality(Above(p)) \in Nat
  <2>. TAKE p
  <2>1. IsFiniteSet(Above(p))
    BY <1>2, <1>3, FS_Subset
  <2>. QED
    BY <2>1, FS_CardinalityType
<1>5. \A p : p \in P <=> p \in O /\ Cardinality(Above(p)) < limit
  OBVIOUS
<1>6. \A p, q : q \in Above(p) <=> q \in O /\ q > p
  BY DEF Newer
<1>. HIDE DEF Above
<1>7. P \subseteq O
  BY <1>5
<1>8. IsFiniteSet(P) /\ Cardinality(P) \in Nat
  <2>1. IsFiniteSet(P)
    BY <1>2, <1>7, FS_Subset
  <2>. QED
    BY <2>1, FS_CardinalityType
<1>9. ASSUME NEW p \in P, NEW q \in O, q > p PROVE q \in P
  <2>1. p \in Nat /\ q \in Nat
    BY <1>1, <1>7
  <2>2. ASSUME NEW r, r \in Above(q) PROVE r \in Above(p)
    <3>1. r \in O /\ r > q /\ r \in Nat
      BY <1>1, <1>6, <2>2
    <3>2. r > p
      BY <1>9, <2>1, <3>1
    <3>. QED
      BY <1>6, <3>1, <3>2
  <2>3. Above(q) \subseteq Above(p)
    BY <2>2
  <2>4. Cardinality(Above(q)) <= Cardinality(Above(p))
    BY <1>4, <2>3, FS_Subset
  <2>5. Cardinality(Above(p)) < limit
    BY <1>5
  <2>6. Cardinality(Above(q)) < limit
    BY <1>4, <2>4, <2>5
  <2>. QED
    BY <1>5, <2>6
<1>10. ASSUME O # {} PROVE P # {}
  <2>1. PICK m \in O : \A x \in O : x <= m
    BY <1>10, MaxIs
  <2>2. \A q : q \notin Above(m)
    BY <1>1, <1>6, <2>1
  <2>3. Above(m) = {}
    BY <2>2
  <2>4. Cardinality(Above(m)) = 0
    BY <2>3, FS_EmptySet
  <2>. QED
    BY <1>0, <1>5, <2>1, <2>4
<1>11. ASSUME Cardinality(P) < limit PROVE P = O
  <2>1. SUFFICES ASSUME O \ P # {} PROVE FALSE
    BY <1>7
  <2>2. PICK m \in O \ P : \A x \in O \ P : x <= m
    <3>1. O \ P \in SUBSET Posts
      OBVIOUS
    <3>. QED
      BY <2>1, <3>1, MaxIs
  <2>3. ASSUME NEW q, q \in Above(m) PROVE q \in P
    BY <1>1, <1>6, <2>2, <2>3
  <2>4. Above(m) \subseteq P
    BY <2>3
  <2>5. Cardinality(Above(m)) <= Cardinality(P)
    BY <1>8, <2>4, FS_Subset
  <2>6. Cardinality(Above(m)) < limit
    BY <1>4, <1>8, <1>11, <2>5
  <2>. QED
    BY <1>5, <2>2, <2>6
<1>12. Cardinality(P) <= limit
  <2>1. CASE P = {}
    BY <1>0, <2>1, FS_EmptySet
  <2>2. CASE P # {}
    <3>1. P \in SUBSET Nat
      BY <1>1, <1>7
    <3>2. PICK m \in P : \A x \in P : m <= x
      BY <2>2, <3>1, LeastExists
    <3>3. ASSUME NEW q PROVE q \in P <=> q \in Above(m) \cup {m}
      <4>1. ASSUME q \in P PROVE q \in Above(m) \cup {m}
        BY <1>1, <1>6, <1>7, <3>2, <4>1
      <4>2. ASSUME q \in Above(m) PROVE q \in P
        BY <1>6, <1>9, <4>2
      <4>. QED
        BY <3>2, <4>1, <4>2
    <3>4. P = Above(m) \cup {m}
      BY <3>3
    <3>5. m \notin Above(m)
      BY <1>1, <1>6, <1>7
    <3>6. Cardinality(P) = Cardinality(Above(m)) + 1
      BY <1>4, <3>4, <3>5, FS_AddElement
    <3>7. Cardinality(Above(m)) < limit
      BY <1>5
    <3>. QED
      BY <1>4, <3>6, <3>7
  <2>. QED
    BY <2>1, <2>2
<1>. QED
  BY <1>7, <1>8, <1>10, <1>11, <1>12

\* The posts of a page of the author's server.
LEMMA PageIs ==
  ASSUME posts \subseteq Posts, NEW before, NEW limit \in Nat \ {0}
  PROVE  /\ Page(before, limit) \subseteq Older(before)
         /\ Page(before, limit) = {} => Older(before) = {}
         /\ Cardinality(Page(before, limit)) \in Nat
         /\ Cardinality(Page(before, limit)) <= limit
         /\ Cardinality(Page(before, limit)) < limit => Page(before, limit) = Older(before)
<1>1. Older(before) \in SUBSET Posts
  BY PostsAreNumbers
<1>2. \A p : p \in Page(before, limit)
             <=> p \in Older(before) /\ Cardinality(Newer(Older(before), p)) < limit
  BY DEF Page, Newer
<1>. QED
  BY <1>1, <1>2, NewestOf

\* What a page leaves out is behind the next cursor or older than it.
LEMMA LeftOut ==
  ASSUME posts \subseteq Posts, NEW before, NEW page, NEW next \in Nat, NEW p \in Older(before) \ page
  PROVE  p \in Behind(before, page, next) \/ Published[p] < next
BY Timestamps DEF Behind, Older

\* The oldest post of a page.
LEMMA OldestOfPage ==
  ASSUME posts \subseteq Posts, NEW before \in Nat, NEW page, page # {}, page \subseteq Older(before)
  PROVE  /\ Published[Min(page)] \in Nat /\ Published[Min(page)] < before
         /\ \A p \in page : Published[Min(page)] <= Published[p]
<1>1. page \subseteq Posts /\ Posts \subseteq Nat
  BY DEF Older, Posts
<1>2. Min(page) \in page /\ \A p \in page : Min(page) <= p
  BY <1>1, MinIs
<1>. QED
  BY <1>1, <1>2, Timestamps DEF Older

\* The link of a page of the outbox: there is one when the page is full, and it leads
\* to older posts.
LEMMA NextLinkIs ==
  ASSUME posts \subseteq Posts, NEW before \in Nat
  PROVE  LET page == OutboxPage(before) IN
         /\ page \subseteq Older(before)
         /\ NextLink(page) = {} => page = Older(before)
         /\ \A next \in NextLink(page) :
              next \in Nat /\ next < before /\ \A p \in page : next <= Published[p]
<1>. DEFINE page == OutboxPage(before)
<1>0. PageSize \in Nat \ {0}
  BY HistoryAssumption
<1>1. /\ page \subseteq Older(before)
      /\ Cardinality(page) \in Nat /\ Cardinality(page) <= PageSize
      /\ Cardinality(page) < PageSize => page = Older(before)
  BY <1>0, PageIs DEF OutboxPage
<1>. HIDE DEF page
<1>2. NextLink(page) = {} => page = Older(before)
  BY <1>0, <1>1 DEF NextLink
<1>3. ASSUME NEW next \in NextLink(page)
      PROVE  next \in Nat /\ next < before /\ \A p \in page : next <= Published[p]
  <2>1. Cardinality(page) = PageSize /\ next = CutToMillis(Published[Min(page)])
    BY <1>3 DEF NextLink
  <2>2. page # {}
    BY <1>0, <2>1, FS_EmptySet
  <2>3. /\ Published[Min(page)] \in Nat /\ Published[Min(page)] < before
        /\ \A p \in page : Published[Min(page)] <= Published[p]
    BY <1>1, <2>2, OldestOfPage
  <2>4. next \in Nat /\ next <= Published[Min(page)]
    BY <2>1, <2>3, CutIsLess
  <2>5. \A p \in page : Published[p] \in Nat
    BY <1>1, PostsAreNumbers, Timestamps
  <2>. QED
    BY <2>3, <2>4, <2>5
<1>. QED
  BY <1>1, <1>2, <1>3 DEF page

-----------------------------------------------------------------------------
(* Steps.                                                                  *)

\* The steps that read a page, by what it holds.
BatchRead ==
  LET page == Page(cursor, BatchSize)
      last == Published[Min(page)] IN
  /\ stage = "fetch" /\ page # {}
  /\ stage' = "send"
  /\ batch' = page
  /\ lastBatch' = (Cardinality(page) < BatchSize)
  /\ cursor' = last
  /\ skipped' = skipped \cup Behind(cursor, page, last)
  /\ UNCHANGED <<config, author, net, runs, follower, import, lost, mishaps>>

NoBatch ==
  /\ stage = "fetch" /\ Page(cursor, BatchSize) = {}
  /\ stage' = "done"
  /\ UNCHANGED <<config, author, net, cursor, batch, lastBatch, skipped, runs, follower,
                 import, lost, mishaps>>

PageRead ==
  LET page == OutboxPage(url) IN
  /\ reading = "page" /\ url \notin visited
  /\ reading' = "items"
  /\ visited' = visited \cup {url}
  /\ items' = page
  /\ link' = NextLink(page)
  /\ hidden' = hidden \cup UNION {Behind(url, page, next) : next \in link'}
  /\ UNCHANGED <<config, author, net, backfill, follower, url, imported, whole, lost, mishaps>>

PageKnown ==
  /\ reading = "page" /\ url \in visited
  /\ reading' = "done"
  /\ UNCHANGED <<config, author, net, backfill, follower, url, visited, items, link, hidden,
                 imported, whole, lost, mishaps>>

LEMMA FetchBatchCases == FetchBatch => BatchRead \/ NoBatch
BY Zenon DEF FetchBatch, FetchBatchWith, BatchRead, NoBatch

LEMMA FetchPageCases == FetchPage => PageRead \/ PageKnown
BY Zenon DEF FetchPage, PageRead, PageKnown

-----------------------------------------------------------------------------
(* Types.                                                                  *)

LEMMA TypesInitially == Init => TypeOK
<1>1. 1..NumInitial \subseteq Posts
  BY HistoryAssumption DEF Posts
<1>2. NumInitial \in 0..NumPosts /\ 0 \in 0..MaxMishaps /\ NoCursor \in 0..NoCursor
  BY Timestamps, HistoryAssumption
<1>. SUFFICES ASSUME Init PROVE TypeOK
  OBVIOUS
<1>3. {posts, batch, processed, kept, items, skipped, hidden, whole, lost, stale, raced, unsure}
        \subseteq SUBSET Posts
  BY <1>1 DEF Init
<1>4. created \in [Posts -> Nat] /\ imported \in [Posts -> Nat]
  BY DEF Init
<1>. QED
  BY <1>2, <1>3, <1>4 DEF Init, TypeOK, Stages, FirstPage, Letters

LEMMA TypesKept == TypeOK /\ [Next]_vars => TypeOK'
<1>. SUFFICES ASSUME TypeOK, [Next]_vars PROVE TypeOK'
  OBVIOUS
<1>t. posts \subseteq Posts /\ cursor \in Nat /\ url \in Nat /\ NoCursor \in Nat
  BY Timestamps DEF TypeOK
<1>m. MaxMishaps \in Nat /\ NumPosts \in Nat
  BY HistoryAssumption
<1>n. Mishap => mishaps' \in 0..MaxMishaps
  BY <1>m DEF Mishap, TypeOK
<1>1. CASE Publish
  <2>1. latest' \in 0..NumPosts /\ latest' \in Posts
    BY <1>1, <1>m DEF Publish, TypeOK, Posts
  <2>. QED
    BY <1>1, <2>1 DEF Publish, TypeOK, config, backfill, follower, dedup, import
<1>2. ASSUME NEW p \in Posts, Remove(p) PROVE TypeOK'
  BY <1>2 DEF Remove, TypeOK, config, backfill, follower, dedup
<1>s. ASSUME NEW l \in Letters, Send(l)
      PROVE  net' \cup checked \cup marked \subseteq Letters /\ lost' \subseteq Posts
  BY <1>s DEF Send, TypeOK, Letters
<1>3. ASSUME NEW c \in calls, Broadcast(c) PROVE TypeOK'
  <2>1. c[1] \in {"Create", "Delete"} /\ c[2] \in Posts
    BY DEF TypeOK
  <2>2. <<c[1], c[2], 0>> \in Letters
    BY <2>1 DEF Letters
  <2>3. net' \cup checked \cup marked \subseteq Letters /\ lost' \subseteq Posts
    BY <1>3, <1>s, <2>2 DEF Broadcast, TypeOK
  <2>. QED
    BY <1>3, <2>3 DEF Broadcast, TypeOK, config, backfill, follower, dedup, import
<1>4. CASE UpdateFollowerStatus
  BY <1>4 DEF UpdateFollowerStatus, TypeOK, Stages, config, follower, dedup, import
<1>5. CASE SpawnBackfill \/ TakeJob
  BY <1>5, <1>t DEF SpawnBackfill, TakeJob, Begin, TypeOK, Stages, config, author, follower, dedup, import
<1>6. CASE BatchRead
  <2>. DEFINE page == Page(cursor, BatchSize)
  <2>1. page # {} /\ page \subseteq Older(cursor) /\ page \subseteq Posts
    BY <1>6, <1>t, PageIs, PostsAreNumbers, HistoryAssumption DEF BatchRead
  <2>2. Published[Min(page)] \in 0..NoCursor
    <3>1. Published[Min(page)] \in Nat /\ Published[Min(page)] < cursor
      BY <1>t, <2>1, OldestOfPage
    <3>. QED
      BY <1>t, <3>1 DEF TypeOK
  <2>3. Behind(cursor, page, Published[Min(page)]) \subseteq Posts
    BY <1>t, PostsAreNumbers DEF Behind
  <2>. HIDE DEF page
  <2>4. /\ stage' = "send" /\ batch' = page
        /\ lastBatch' = (Cardinality(page) < BatchSize)
        /\ cursor' = Published[Min(page)]
        /\ skipped' = skipped \cup Behind(cursor, page, Published[Min(page)])
        /\ UNCHANGED <<config, author, net, runs, follower, import, lost, mishaps>>
    BY <1>6 DEF BatchRead, page
  <2>5. cursor' \in 0..NoCursor' /\ skipped' \subseteq Posts /\ batch' \subseteq Posts /\ batch' # {}
    BY <2>1, <2>2, <2>3, <2>4 DEF TypeOK, NoCursor
  <2>6. lastBatch' \in BOOLEAN
    BY <2>4
  <2>. QED
    BY <2>4, <2>5, <2>6 DEF TypeOK, Stages, config, author, follower, dedup, import
<1>7. CASE NoBatch
  BY <1>7 DEF NoBatch, TypeOK, Stages, config, author, follower, dedup, import
<1>8. CASE SendItem
  <2>. DEFINE p == Max(batch)
  <2>1. p \in Posts
    BY <1>8, MaxIs DEF SendItem, TypeOK
  <2>. HIDE DEF p
  <2>2. /\ stage = "send" /\ batch' = batch \ {p}
        /\ stage' = IF batch' # {} THEN "send" ELSE IF lastBatch THEN "done" ELSE "fetch"
        /\ Send(<<"Create", p, runs>>)
        /\ UNCHANGED <<config, author, cursor, lastBatch, runs, skipped, follower, import, mishaps>>
    BY <1>8 DEF SendItem, p
  <2>3. <<"Create", p, runs>> \in Letters
    BY <2>1 DEF Letters, TypeOK
  <2>4. net' \cup checked \cup marked \subseteq Letters /\ lost' \subseteq Posts
    BY <1>s, <2>2, <2>3
  <2>5. stage' \in Stages /\ (batch' # {} <=> stage' = "send")
    BY <2>2 DEF Stages
  <2>. QED
    BY <2>1, <2>2, <2>4, <2>5 DEF TypeOK, config, author, follower, dedup, import
<1>9. CASE StopBackfill
  BY <1>9, <1>n DEF StopBackfill, TypeOK, Stages, config, author, follower, dedup, import
<1>10. ASSUME NEW l \in net, Receive(l) PROVE TypeOK'
  <2>1. l \in Letters /\ l[2] \in Posts /\ l[1] \in {"Create", "Delete"}
    BY DEF TypeOK, Letters
  <2>2. /\ net' = net \ {l}
        /\ UNCHANGED <<config, author, backfill, import, lost>>
    BY <1>10 DEF Receive
  <2>3. CASE l[1] = "Create" /\ CheckCreate(l) /\ UNCHANGED <<kept, created, stale>>
    <3>1. /\ net' \cup checked' \cup marked' \subseteq Letters
          /\ \A k \in checked' \cup marked' : k[1] = "Create"
          /\ mishaps' \in 0..MaxMishaps
          /\ processed' = processed /\ raced' \subseteq Posts /\ unsure' \subseteq Posts
      BY <1>n, <2>1, <2>2, <2>3 DEF CheckCreate, TypeOK, dedup
    <3>. QED
      BY <2>2, <2>3, <3>1 DEF TypeOK, config, author, backfill, import
  <2>4. CASE l[1] = "Delete" /\ HandleDelete(l[2])
    BY <2>1, <2>2, <2>4 DEF HandleDelete, TypeOK, config, author, backfill, import, dedup
  <2>. QED
    BY <1>10, <2>3, <2>4 DEF Receive
<1>20. ASSUME NEW l \in checked, MarkCreate(l) PROVE TypeOK'
  <2>1. l \in Letters /\ l[2] \in Posts /\ l[1] = "Create"
    BY DEF TypeOK, Letters
  <2>. QED
    BY <1>20, <1>n, <2>1 DEF MarkCreate, TypeOK, config, author, backfill, import
<1>21. ASSUME NEW l \in marked, HandleCreate(l) PROVE TypeOK'
  <2>1. l[2] \in Posts
    BY DEF TypeOK, Letters
  <2>. QED
    BY <1>21, <1>n, <2>1 DEF HandleCreate, TypeOK, config, author, backfill, import
<1>22. CASE RestartFollower
  <2>1. lost' \subseteq Posts
    BY <1>22 DEF RestartFollower, TypeOK, Letters
  <2>2. reading' \in {"none", "page", "items", "done", "ended"}
    BY <1>22 DEF RestartFollower, TypeOK
  <2>. QED
    BY <1>22, <1>n, <2>1, <2>2 DEF RestartFollower, TypeOK, config, author, backfill
<1>11. ASSUME NEW l \in net, Lose(l) PROVE TypeOK'
  BY <1>11, <1>n DEF Lose, Letters, TypeOK, config, author, backfill, follower, dedup, import
<1>12. CASE StartImport
  BY <1>12 DEF StartImport, TypeOK, config, author, backfill, follower, dedup
<1>13. CASE PageRead
  <2>. DEFINE page == OutboxPage(url)
  <2>1. /\ page \subseteq Older(url)
        /\ \A next \in NextLink(page) : next \in Nat /\ next < url
    BY <1>t, NextLinkIs
  <2>2. NextLink(page) \subseteq 0..NoCursor
    BY <1>t, <2>1 DEF TypeOK
  <2>3. page \subseteq Posts
    BY <1>t, <2>1, PostsAreNumbers
  <2>4. ASSUME NEW x \in UNION {Behind(url, page, next) : next \in link'} PROVE x \in Posts
    BY <1>t, PostsAreNumbers DEF Behind
  <2>. HIDE DEF page
  <2>5. /\ reading' = "items" /\ visited' = visited \cup {url} /\ items' = page
        /\ link' = NextLink(page)
        /\ hidden' = hidden \cup UNION {Behind(url, page, next) : next \in link'}
        /\ UNCHANGED <<config, author, net, backfill, follower, dedup, url, imported, whole, lost, mishaps>>
    BY <1>13 DEF PageRead, page, follower
  <2>6. hidden' \subseteq Posts /\ items' \subseteq Posts /\ visited' \cup link' \subseteq 0..NoCursor
    BY <2>2, <2>3, <2>4, <2>5 DEF TypeOK
  <2>. QED
    BY <2>5, <2>6 DEF TypeOK, config, author, backfill, follower, dedup, NoCursor
<1>14. CASE PageKnown
  BY <1>14 DEF PageKnown, TypeOK, config, author, backfill, follower, dedup
<1>15. CASE ImportItem
  <2>1. Max(items) \in Posts
    BY <1>15, MaxIs DEF ImportItem, TypeOK
  <2>. QED
    BY <1>15, <1>n, <2>1 DEF ImportItem, TypeOK, config, author, backfill, dedup
<1>16. CASE TurnPage
  BY <1>16 DEF TurnPage, TypeOK, config, author, backfill, follower, dedup
<1>17. CASE StopImport
  BY <1>17, <1>n DEF StopImport, TypeOK, config, author, backfill, follower, dedup
<1>18. CASE UNCHANGED vars
  BY <1>18 DEF vars, TypeOK, config, author, backfill, follower, dedup, import
<1>. QED
  BY <1>1, <1>2, <1>3, <1>4, <1>5, <1>6, <1>7, <1>8, <1>9, <1>10, <1>11, <1>12, <1>13, <1>14,
     <1>15, <1>16, <1>17, <1>18, <1>20, <1>21, <1>22, FetchBatchCases, FetchPageCases
  DEF Next, BackfillStep, ImportStep

\* What run_backfill, import_remote_outbox and the follower's server keep has its type.
THEOREM TypeCorrect == Spec => []TypeOK
BY TypesInitially, TypesKept, PTL DEF Spec

-----------------------------------------------------------------------------
(* BackfillComplete.                                                       *)

\* Nothing reaches the follower before it is accepted, and only a page that is
\* being handled has items.
BeforeAccept ==
  /\ ~ accepted =>
       /\ stage = "none" /\ reading = "none" /\ net = {} /\ kept = {}
       /\ checked = {} /\ marked = {}
  /\ reading # "items" => items = {}

LEMMA BeforeAcceptKept == TypeOK /\ BeforeAccept /\ [Next]_vars => BeforeAccept'
<1>. SUFFICES ASSUME TypeOK, BeforeAccept, [Next]_vars PROVE BeforeAccept'
  OBVIOUS
<1>1. CASE Publish \/ UpdateFollowerStatus
  BY <1>1 DEF Publish, UpdateFollowerStatus, BeforeAccept, author, backfill, follower, dedup, import
<1>10. CASE SpawnBackfill \/ TakeJob \/ StopBackfill
  <2>1. accepted /\ UNCHANGED <<author, net, follower, import>>
    BY <1>10 DEF SpawnBackfill, TakeJob, StopBackfill, BeforeAccept
  <2>. QED
    BY <2>1 DEF BeforeAccept, author, follower, dedup, import
<1>2. ASSUME NEW p \in Posts, Remove(p) PROVE BeforeAccept'
  BY <1>2 DEF Remove, BeforeAccept, backfill, follower, dedup
<1>3. ASSUME NEW c \in calls, Broadcast(c) PROVE BeforeAccept'
  BY <1>3 DEF Broadcast, BeforeAccept, backfill, follower, dedup, import
<1>4. CASE BatchRead \/ NoBatch
  BY <1>4 DEF BatchRead, NoBatch, BeforeAccept, author, follower, dedup, import
<1>5. CASE SendItem
  <2>1. accepted /\ UNCHANGED <<author, import>>
    BY <1>5 DEF SendItem, BeforeAccept
  <2>. QED
    BY <2>1 DEF BeforeAccept, author, import
<1>6. ASSUME NEW l \in net, Receive(l) \/ Lose(l) PROVE BeforeAccept'
  <2>1. accepted /\ UNCHANGED <<author, import>>
    BY <1>6 DEF Receive, Lose, BeforeAccept
  <2>. QED
    BY <2>1 DEF BeforeAccept, author, import
<1>20. ASSUME NEW l \in checked \cup marked, MarkCreate(l) \/ HandleCreate(l) PROVE BeforeAccept'
  <2>1. accepted /\ UNCHANGED <<author, import>>
    BY <1>20 DEF MarkCreate, HandleCreate, BeforeAccept
  <2>. QED
    BY <2>1 DEF BeforeAccept, author, import
<1>21. CASE RestartFollower
  BY <1>21 DEF RestartFollower, BeforeAccept, author, backfill
<1>7. CASE StartImport \/ PageRead \/ PageKnown \/ TurnPage \/ StopImport
  BY <1>7 DEF StartImport, PageRead, PageKnown, TurnPage, StopImport, BeforeAccept, author,
     backfill, follower, dedup
<1>8. CASE ImportItem
  BY <1>8 DEF ImportItem, BeforeAccept, author, backfill, dedup
<1>9. CASE UNCHANGED vars
  BY <1>9 DEF vars, BeforeAccept, author, backfill, follower, dedup, import
<1>. QED
  BY <1>1, <1>2, <1>3, <1>4, <1>5, <1>6, <1>7, <1>8, <1>9, <1>10, <1>20, <1>21,
     FetchBatchCases, FetchPageCases
  DEF Next, BackfillStep, ImportStep

\* A post whose Create is marked was handed over, failed or is about to be.
MarkedInv ==
  \A p \in processed : created[p] > 0 \/ p \in lost \/ \E l \in marked : l[1] = "Create" /\ l[2] = p

LEMMA MarkedKept == TypeOK /\ MarkedInv /\ [Next]_vars => MarkedInv'
<1>. SUFFICES ASSUME TypeOK, MarkedInv, [Next]_vars PROVE MarkedInv'
  OBVIOUS
<1>1. ASSUME UNCHANGED <<created, processed>>, lost \subseteq lost', marked \subseteq marked'
      PROVE  MarkedInv'
  BY <1>1 DEF MarkedInv
<1>2. \A l : Send(l) => lost \subseteq lost'
  BY DEF Send
<1>3. CASE Publish \/ UpdateFollowerStatus \/ SpawnBackfill \/ TakeJob \/ StopBackfill \/ BatchRead \/ NoBatch
  BY <1>1, <1>3
  DEF Publish, UpdateFollowerStatus, SpawnBackfill, TakeJob, StopBackfill, BatchRead, NoBatch,
      follower, dedup
<1>4. ASSUME NEW p \in Posts, Remove(p) PROVE MarkedInv'
  BY <1>1, <1>4 DEF Remove, follower, dedup
<1>5. ASSUME NEW c \in calls, Broadcast(c) PROVE MarkedInv'
  BY <1>1, <1>2, <1>5 DEF Broadcast, follower, dedup
<1>6. CASE SendItem
  BY <1>1, <1>2, <1>6 DEF SendItem, follower, dedup
<1>7. ASSUME NEW l \in net, Receive(l) \/ Lose(l) PROVE MarkedInv'
  <2>1. UNCHANGED <<created, processed>> /\ lost \subseteq lost' /\ marked \subseteq marked'
    BY <1>7 DEF Receive, CheckCreate, HandleDelete, Lose, follower, dedup
  <2>. QED
    BY <1>1, <2>1
<1>8. ASSUME NEW l \in checked, MarkCreate(l) PROVE MarkedInv'
  <2>1. l[1] = "Create" /\ marked' = marked \cup {l} /\ UNCHANGED <<created, lost>>
        /\ processed' \subseteq processed \cup {l[2]}
    BY <1>8 DEF MarkCreate, TypeOK
  <2>. QED
    BY <2>1 DEF MarkedInv
<1>9. ASSUME NEW l \in marked, HandleCreate(l) PROVE MarkedInv'
  <2>1. l[2] \in Posts /\ created \in [Posts -> Nat] /\ processed \subseteq Posts
    BY DEF TypeOK, Letters
  <2>2. /\ marked' = marked \ {l} /\ UNCHANGED processed
        /\ \/ created' = [created EXCEPT ![l[2]] = @ + 1] /\ UNCHANGED lost
           \/ lost' = lost \cup {l[2]} /\ UNCHANGED created
    BY <1>9 DEF HandleCreate
  <2>3. \A p \in Posts : created[p] > 0 => created'[p] > 0
    BY <2>1, <2>2
  <2>4. created'[l[2]] > 0 \/ l[2] \in lost'
    BY <2>1, <2>2
  <2>. QED
    BY <2>1, <2>2, <2>3, <2>4 DEF MarkedInv
<1>10. CASE RestartFollower
  BY <1>10 DEF RestartFollower, MarkedInv
<1>11. CASE StartImport \/ PageRead \/ PageKnown \/ TurnPage \/ StopImport
  BY <1>1, <1>11 DEF StartImport, PageRead, PageKnown, TurnPage, StopImport, follower, dedup
<1>12. CASE ImportItem
  <2>1. lost \subseteq lost' /\ UNCHANGED <<created, processed, marked>>
    BY <1>12 DEF ImportItem, dedup
  <2>. QED
    BY <1>1, <2>1
<1>13. CASE UNCHANGED vars
  BY <1>1, <1>13 DEF vars, follower, dedup
<1>. QED
  BY <1>3, <1>4, <1>5, <1>6, <1>7, <1>8, <1>9, <1>10, <1>11, <1>12, <1>13,
     FetchBatchCases, FetchPageCases
  DEF Next, BackfillStep, ImportStep

\* What the backfill has dealt with: handed over, skipped at a border, lost, or with a
\* Create that is still to be sent or handled.
Dealt(p) ==
  created[p] > 0 \/ p \in skipped \cup lost \/ <<"Create", p>> \in calls \/ Copies(p) # {}

\* A post the backfill has not dealt with is in its batch or older than its cursor.
BackfillInv ==
  stage \in {"fetch", "send", "done"} =>
    \A p \in posts :
      \/ Dealt(p)
      \/ p \in batch
      \/ /\ stage = "fetch" \/ (stage = "send" /\ ~ lastBatch)
         /\ Published[p] < cursor

LEMMA BackfillKept == TypeOK /\ BeforeAccept /\ MarkedInv /\ BackfillInv /\ [Next]_vars => BackfillInv'
<1>. SUFFICES ASSUME TypeOK, BeforeAccept, MarkedInv, BackfillInv, [Next]_vars PROVE BackfillInv'
  OBVIOUS
<1>t. posts \subseteq Posts /\ cursor \in Nat /\ created \in [Posts -> Nat]
  BY Timestamps DEF TypeOK
<1>d. ASSUME UNCHANGED <<calls, net, checked, marked, created>>, skipped \subseteq skipped',
             lost \subseteq lost', NEW p, Dealt(p)
      PROVE  Dealt(p)'
  BY <1>d DEF Dealt, Copies
<1>s. ASSUME NEW q, NEW r, Send(<<"Create", q, r>>), UNCHANGED <<checked, marked>>
      PROVE  /\ lost \subseteq lost' /\ \A p : Copies(p) \subseteq Copies(p)'
             /\ q \in lost' \/ Copies(q)' # {}
  <2>. DEFINE l == <<"Create", q, r>>
  <2>1. lost \subseteq lost' /\ net \subseteq net' /\ (q \in lost' \/ l \in net')
    BY <1>s DEF Send
  <2>2. \A p : Copies(p) \subseteq Copies(p)'
    BY <1>s, <2>1 DEF Copies
  <2>3. l \in net' => l \in Copies(q)'
    BY DEF Copies
  <2>. QED
    BY <2>1, <2>2, <2>3
<1>1. CASE Publish
  BY <1>1 DEF Publish, BackfillInv, Dealt, Copies, backfill, follower, dedup
<1>2. ASSUME NEW p \in Posts, Remove(p) PROVE BackfillInv'
  BY <1>2 DEF Remove, BackfillInv, Dealt, Copies, backfill, follower, dedup
<1>3. ASSUME NEW c \in calls, Broadcast(c) PROVE BackfillInv'
  <2>0. c = <<c[1], c[2]>>
    BY DEF TypeOK
  <2>1. CASE accepted
    <3>1. /\ calls' = calls \ {c} /\ Send(<<c[1], c[2], 0>>)
          /\ UNCHANGED <<posts, stage, batch, lastBatch, cursor, skipped, created, checked, marked>>
      BY <1>3, <2>1 DEF Broadcast, backfill, follower, dedup
    <3>2. lost \subseteq lost' /\ \A p : Copies(p) \subseteq Copies(p)'
      BY <3>1 DEF Send, Copies
    <3>3. c[1] = "Create" => c[2] \in lost' \/ Copies(c[2])' # {}
      BY <1>s, <3>1
    <3>4. ASSUME NEW p, Dealt(p) PROVE Dealt(p)'
      BY <2>0, <3>1, <3>2, <3>3, <3>4 DEF Dealt
    <3>. QED
      BY <3>1, <3>4 DEF BackfillInv
  <2>2. CASE ~ accepted
    BY <1>3, <2>2 DEF Broadcast, BeforeAccept, BackfillInv, backfill
  <2>. QED
    BY <2>1, <2>2
<1>4. CASE UpdateFollowerStatus \/ StopBackfill
  BY <1>4 DEF UpdateFollowerStatus, StopBackfill, BackfillInv
<1>5. CASE SpawnBackfill \/ TakeJob
  <2>1. CASE Begin /\ UNCHANGED author
    BY <2>1, <1>t, Timestamps DEF Begin, BackfillInv, NoCursor, author
  <2>2. CASE stage' = "queued"
    BY <2>2 DEF BackfillInv
  <2>. QED
    BY <1>5, <2>1, <2>2 DEF SpawnBackfill, TakeJob
<1>6. CASE BatchRead
  <2>. DEFINE page == Page(cursor, BatchSize)
              last == Published[Min(page)]
  <2>1. /\ page \subseteq Older(cursor) /\ page # {}
        /\ Cardinality(page) < BatchSize => page = Older(cursor)
    BY <1>6, <1>t, PageIs, HistoryAssumption DEF BatchRead
  <2>2. last \in Nat
    BY <1>t, <2>1, OldestOfPage
  <2>. HIDE DEF page, last
  <2>3. /\ stage = "fetch" /\ stage' = "send" /\ batch' = page
        /\ lastBatch' = (Cardinality(page) < BatchSize)
        /\ cursor' = last
        /\ skipped' = skipped \cup Behind(cursor, page, last)
        /\ UNCHANGED <<author, net, follower, lost>>
    BY <1>6 DEF BatchRead, page, last
  <2>4. SUFFICES ASSUME NEW p \in posts
                 PROVE  Dealt(p)' \/ p \in page \/ (~ lastBatch' /\ Published[p] < last)
    BY <2>3 DEF BackfillInv, author
  <2>5. CASE Dealt(p)
    BY <1>d, <2>3, <2>5 DEF author, follower, dedup
  <2>6. CASE ~ Dealt(p)
    <3>1. p \in Older(cursor)
      BY <2>3, <2>6 DEF BackfillInv, TypeOK, Older
    <3>2. CASE p \in page
      BY <3>2
    <3>3. CASE p \notin page
      <4>1. ~ lastBatch'
        BY <2>1, <2>3, <3>1, <3>3
      <4>2. p \in Behind(cursor, page, last) \/ Published[p] < last
        BY <1>t, <2>2, <3>1, <3>3, LeftOut
      <4>. QED
        BY <2>3, <4>1, <4>2 DEF Dealt
    <3>. QED
      BY <3>2, <3>3
  <2>. QED
    BY <2>5, <2>6
<1>7. CASE NoBatch
  <2>1. Older(cursor) = {} /\ batch = {}
    BY <1>7, <1>t, PageIs, HistoryAssumption DEF NoBatch, TypeOK
  <2>. QED
    BY <1>7, <1>d, <2>1 DEF NoBatch, Older, BackfillInv, author, follower, dedup
<1>8. CASE SendItem
  <2>. PICK q : q = Max(batch)
    OBVIOUS
  <2>1. /\ stage = "send" /\ batch' = batch \ {q}
        /\ stage' = IF batch' # {} THEN "send" ELSE IF lastBatch THEN "done" ELSE "fetch"
        /\ Send(<<"Create", q, runs>>)
        /\ UNCHANGED <<author, cursor, lastBatch, skipped, created, checked, marked>>
    BY <1>8 DEF SendItem, follower, dedup
  <2>2. /\ lost \subseteq lost' /\ \A p : Copies(p) \subseteq Copies(p)'
        /\ q \in lost' \/ Copies(q)' # {}
    BY <1>s, <2>1
  <2>3. ASSUME NEW p, Dealt(p) \/ p = q PROVE Dealt(p)'
    BY <2>1, <2>2, <2>3 DEF Dealt, author
  <2>. QED
    BY <2>1, <2>3 DEF BackfillInv, author
<1>9. ASSUME NEW l \in net, Receive(l) \/ Lose(l) PROVE BackfillInv'
  <2>1. /\ net' = net \ {l} /\ UNCHANGED <<author, backfill, created>>
        /\ lost \subseteq lost' /\ checked \subseteq checked' /\ marked \subseteq marked'
    BY <1>9 DEF Receive, CheckCreate, HandleDelete, Lose, follower, dedup
  <2>2. l[1] = "Create" => l[2] \in processed \cup lost' \/ l \in checked' \cup marked'
    BY <1>9 DEF Receive, CheckCreate, Known, Lose
  <2>3. ASSUME NEW p, l \notin Copies(p) PROVE Copies(p) \subseteq Copies(p)'
    BY <2>1, <2>3 DEF Copies
  <2>4. ASSUME NEW p \in processed PROVE Dealt(p)'
    <3>1. created[p] > 0 \/ p \in lost \/ \E k \in marked : k[1] = "Create" /\ k[2] = p
      BY DEF MarkedInv
    <3>. QED
      BY <2>1, <3>1 DEF Dealt, Copies
  <2>5. ASSUME NEW p, l \in Copies(p) PROVE Dealt(p)'
    <3>1. l[1] = "Create" /\ l[2] = p
      BY <2>5 DEF Copies
    <3>2. CASE p \in processed
      BY <2>4, <3>2
    <3>3. CASE p \in lost' \/ l \in checked' \cup marked'
      BY <3>1, <3>3 DEF Dealt, Copies
    <3>. QED
      BY <2>2, <3>1, <3>2, <3>3
  <2>6. ASSUME NEW p, Dealt(p) PROVE Dealt(p)'
    BY <2>1, <2>3, <2>5, <2>6 DEF Dealt, author, backfill
  <2>. QED
    BY <2>1, <2>6 DEF BackfillInv, author, backfill
<1>20. ASSUME NEW l \in checked, MarkCreate(l) PROVE BackfillInv'
  <2>1. /\ UNCHANGED <<author, net, backfill, created, lost>>
        /\ checked' = checked \ {l} /\ marked' = marked \cup {l}
    BY <1>20 DEF MarkCreate
  <2>2. \A p : Copies(p)' = Copies(p)
    BY <2>1 DEF Copies
  <2>. QED
    BY <2>1, <2>2 DEF BackfillInv, Dealt, author, backfill
<1>21. ASSUME NEW l \in marked, HandleCreate(l) PROVE BackfillInv'
  <2>1. /\ UNCHANGED <<author, net, backfill, checked>>
        /\ marked' = marked \ {l}
        /\ \/ created' = [created EXCEPT ![l[2]] = @ + 1] /\ UNCHANGED lost
           \/ lost' = lost \cup {l[2]} /\ UNCHANGED created
    BY <1>21 DEF HandleCreate
  <2>2. l[2] \in Posts
    BY DEF TypeOK, Letters
  <2>3. created'[l[2]] > 0 \/ l[2] \in lost'
    BY <1>t, <2>1, <2>2
  <2>4. ASSUME NEW p \in Posts, Dealt(p) PROVE Dealt(p)'
    <3>1. CASE p = l[2]
      BY <2>3, <3>1 DEF Dealt
    <3>2. CASE p # l[2]
      <4>1. Copies(p)' = Copies(p)
        BY <2>1, <3>2 DEF Copies
      <4>2. created'[p] = created[p] /\ lost \subseteq lost'
        BY <1>t, <2>1, <2>2, <3>2
      <4>. QED
        BY <2>1, <2>4, <4>1, <4>2 DEF Dealt, author, backfill
    <3>. QED
      BY <3>1, <3>2
  <2>. QED
    BY <1>t, <2>1, <2>4 DEF BackfillInv, author, backfill
<1>22. CASE RestartFollower
  <2>1. /\ UNCHANGED <<author, net, backfill, created>>
        /\ lost' = lost \cup {l[2] : l \in checked \cup marked}
    BY <1>22 DEF RestartFollower
  <2>2. ASSUME NEW p, Copies(p) # {} PROVE p \in lost' \/ Copies(p)' # {}
    BY <2>1, <2>2 DEF Copies
  <2>3. ASSUME NEW p, Dealt(p) PROVE Dealt(p)'
    BY <2>1, <2>2, <2>3 DEF Dealt, author, backfill
  <2>. QED
    BY <2>1, <2>3 DEF BackfillInv, author, backfill
<1>10. CASE StartImport \/ PageRead \/ PageKnown \/ TurnPage \/ StopImport
  BY <1>d, <1>10 DEF StartImport, PageRead, PageKnown, TurnPage, StopImport, BackfillInv,
     author, backfill, follower, dedup
<1>11. CASE ImportItem
  <2>1. lost \subseteq lost' /\ UNCHANGED <<author, net, backfill, checked, marked, created>>
    BY <1>11 DEF ImportItem, dedup
  <2>. QED
    BY <1>d, <2>1 DEF BackfillInv, author, backfill
<1>12. CASE UNCHANGED vars
  BY <1>d, <1>12 DEF vars, BackfillInv, author, backfill, follower, dedup
<1>. QED
  BY <1>1, <1>2, <1>3, <1>4, <1>5, <1>6, <1>7, <1>8, <1>9, <1>10, <1>11, <1>12, <1>20, <1>21, <1>22,
     FetchBatchCases, FetchPageCases
  DEF Next, BackfillStep, ImportStep

\* run_backfill leaves no gap: when a backfill is done, on_create was called for every
\* post there is or a Create of it is still under way, whatever is published or removed
\* meanwhile, but for posts at a border of a full batch and failures.
THEOREM BackfillCompleteHolds == Spec => []BackfillComplete
<1>1. Init => BeforeAccept /\ MarkedInv /\ BackfillInv
  BY DEF Init, BeforeAccept, MarkedInv, BackfillInv
<1>2. TypeOK /\ BackfillInv => BackfillComplete
  BY DEF TypeOK, BackfillInv, BackfillComplete, Dealt
<1>. QED
  BY <1>1, <1>2, TypesInitially, TypesKept, BeforeAcceptKept, MarkedKept, BackfillKept,
     PTL DEF Spec

-----------------------------------------------------------------------------
(* ImportComplete.                                                         *)

\* The pages an import has read begin above the one it reads next, and a page
\* links to one older page at most.
PagesDescend ==
  /\ reading = "none" =>
       url = FirstPage /\ visited = {} /\ \A p \in Posts : imported[p] = 0
  /\ reading = "page" => \A v \in visited : url < v
  /\ reading = "items" => \A v \in visited : url <= v
  /\ reading = "items" => \A next \in link : next < url
  /\ \A next, other \in link : next = other

\* A page the import comes to is not one it has read.
LEMMA PageIsNew == TypeOK /\ PagesDescend => ~ PageKnown
BY DEF TypeOK, PagesDescend, PageKnown

LEMMA DescendKept == TypeOK /\ PagesDescend /\ [Next]_vars => PagesDescend'
<1>. SUFFICES ASSUME TypeOK, PagesDescend, [Next]_vars PROVE PagesDescend'
  OBVIOUS
<1>t. /\ posts \subseteq Posts /\ url \in Nat
      /\ \A v \in visited : v \in Nat
      /\ \A next \in link : next \in Nat
      /\ FirstPage' = FirstPage
  BY Timestamps DEF TypeOK, FirstPage, NoCursor
<1>1. CASE UNCHANGED import
  BY <1>t, <1>1 DEF import, PagesDescend
<1>2. ASSUME NEW p \in Posts, Remove(p) PROVE PagesDescend'
  BY <1>t, <1>2 DEF Remove, PagesDescend
<1>3. CASE StartImport
  BY <1>t, <1>3 DEF StartImport, PagesDescend
<1>4. CASE PageRead
  <2>. DEFINE page == OutboxPage(url)
  <2>1. \A next \in NextLink(page) : next \in Nat /\ next < url
    BY <1>t, NextLinkIs
  <2>2. \A next, other \in NextLink(page) : next = other
    BY DEF NextLink
  <2>. HIDE DEF page
  <2>3. /\ reading = "page" /\ reading' = "items" /\ visited' = visited \cup {url}
        /\ link' = NextLink(page) /\ UNCHANGED url
    BY <1>4 DEF PageRead, page
  <2>. QED
    BY <1>t, <2>1, <2>2, <2>3 DEF PagesDescend
<1>5. CASE ImportItem \/ StopImport
  BY <1>t, <1>5 DEF ImportItem, StopImport, PagesDescend
<1>6. CASE TurnPage \/ RestartFollower
  BY <1>t, <1>6 DEF TurnPage, RestartFollower, PagesDescend
<1>7. UNCHANGED vars => UNCHANGED import
  BY DEF vars
<1>8. /\ Publish \/ UpdateFollowerStatus \/ SpawnBackfill \/ TakeJob \/ StopBackfill => UNCHANGED import
      /\ FetchBatch \/ SendItem => UNCHANGED import
  BY FetchBatchCases
  DEF Publish, UpdateFollowerStatus, SpawnBackfill, TakeJob, StopBackfill, BatchRead, NoBatch, SendItem
<1>9. /\ \A c \in calls : Broadcast(c) => UNCHANGED import
      /\ \A l : Receive(l) \/ Lose(l) \/ MarkCreate(l) \/ HandleCreate(l) => UNCHANGED import
  BY DEF Broadcast, Receive, Lose, MarkCreate, HandleCreate
<1>. QED
  BY <1>1, <1>2, <1>3, <1>4, <1>5, <1>6, <1>7, <1>8, <1>9, FetchPageCases, PageIsNew
  DEF Next, BackfillStep, ImportStep

\* import_remote_outbox keeps the pages it has read lest it walk in circles: on the
\* pages of outbox_handler it never comes to one of them.
THEOREM NoPageTwice == Spec => [](reading = "page" => url \notin visited)
<1>1. Init => PagesDescend
  BY DEF Init, PagesDescend
<1>2. TypeOK /\ PagesDescend => (reading = "page" => url \notin visited)
  BY DEF TypeOK, PagesDescend
<1>. QED
  BY <1>1, <1>2, TypesInitially, TypesKept, DescendKept, PTL DEF Spec

\* A post the import has not handed over is on its page or older than the next one.
ImportInv ==
  /\ whole \subseteq posts
  /\ reading \in {"page", "items", "done"} =>
       \A p \in whole :
         \/ imported[p] > 0 \/ p \in hidden \cup lost \cup items
         \/ reading = "page" /\ Published[p] < url
         \/ reading = "items" /\ \E next \in link : Published[p] < next

LEMMA ImportKept == TypeOK /\ BeforeAccept /\ PagesDescend /\ ImportInv /\ [Next]_vars => ImportInv'
<1>. SUFFICES ASSUME TypeOK, BeforeAccept, PagesDescend, ImportInv, [Next]_vars PROVE ImportInv'
  OBVIOUS
<1>t. /\ posts \subseteq Posts /\ whole \subseteq posts /\ url \in Nat
      /\ imported \in [Posts -> Nat]
  BY DEF TypeOK, ImportInv
<1>1. ASSUME UNCHANGED <<import>>, posts \subseteq posts', lost \subseteq lost' PROVE ImportInv'
  BY <1>1 DEF import, ImportInv
<1>2. ASSUME NEW p \in Posts, Remove(p) PROVE ImportInv'
  BY <1>2 DEF Remove, ImportInv
<1>3. CASE StartImport
  <2>1. url = NoCursor /\ whole' = posts /\ reading' = "page" /\ UNCHANGED <<author, url>>
    BY <1>3 DEF StartImport, PagesDescend, FirstPage
  <2>2. \A p \in posts : Published[p] < url
    BY <1>t, <2>1, Timestamps
  <2>. QED
    BY <2>1, <2>2 DEF ImportInv, author
<1>4. CASE PageRead
  <2>. DEFINE page == OutboxPage(url)
  <2>1. /\ page \subseteq Older(url)
        /\ NextLink(page) = {} => page = Older(url)
        /\ \A next \in NextLink(page) : next \in Nat
    BY <1>t, NextLinkIs
  <2>. HIDE DEF page
  <2>2. /\ reading = "page" /\ reading' = "items" /\ items' = page /\ link' = NextLink(page)
        /\ hidden' = hidden \cup UNION {Behind(url, page, next) : next \in link'}
        /\ UNCHANGED <<author, imported, whole, lost>>
    BY <1>4 DEF PageRead, page
  <2>3. SUFFICES ASSUME NEW p \in whole
                 PROVE  \/ imported'[p] > 0 \/ p \in hidden' \cup lost' \cup items'
                        \/ \E next \in link' : Published[p] < next
    BY <1>t, <2>2 DEF ImportInv, author
  <2>4. CASE p \in Older(url) \ page
    <3>1. PICK next \in link' : TRUE
      BY <2>1, <2>2, <2>4
    <3>2. p \in Behind(url, page, next) \/ Published[p] < next
      BY <1>t, <2>1, <2>2, <2>4, <3>1, LeftOut
    <3>. QED
      BY <2>2, <3>1, <3>2
  <2>5. CASE p \in page
    BY <2>2, <2>5
  <2>6. CASE p \notin Older(url)
    <3>1. items = {}
      BY <2>2 DEF BeforeAccept
    <3>2. imported[p] > 0 \/ p \in hidden \cup lost
      BY <1>t, <2>2, <2>6, <3>1 DEF ImportInv, Older
    <3>. QED
      BY <2>2, <3>2
  <2>. QED
    BY <2>4, <2>5, <2>6
<1>5. CASE ImportItem
  <2>. DEFINE q == Max(items)
  <2>1. q \in Posts
    BY <1>5, MaxIs DEF ImportItem, TypeOK
  <2>. HIDE DEF q
  <2>2. /\ reading = "items" /\ items' = items \ {q}
        /\ \/ imported' = [imported EXCEPT ![q] = @ + 1] /\ UNCHANGED lost
           \/ lost' = lost \cup {q} /\ UNCHANGED imported
        /\ UNCHANGED <<author, reading, link, hidden, whole>>
    BY <1>5 DEF ImportItem, q
  <2>3. ASSUME NEW p \in Posts, imported[p] > 0 \/ p \in hidden \cup lost \cup items
        PROVE  imported'[p] > 0 \/ p \in hidden' \cup lost' \cup items'
    BY <1>t, <2>1, <2>2, <2>3
  <2>. QED
    BY <1>t, <2>2, <2>3 DEF ImportInv, author
<1>6. CASE TurnPage
  BY <1>t, <1>6 DEF TurnPage, ImportInv, PagesDescend, author
<1>7. CASE StopImport
  BY <1>7 DEF StopImport, ImportInv, author
<1>8. CASE Publish
  BY <1>1, <1>8 DEF Publish
<1>9. CASE UpdateFollowerStatus \/ SpawnBackfill \/ TakeJob \/ StopBackfill \/ BatchRead \/ NoBatch
  BY <1>1, <1>9 DEF UpdateFollowerStatus, SpawnBackfill, TakeJob, StopBackfill, BatchRead, NoBatch, author
<1>10. CASE SendItem
  BY <1>1, <1>10 DEF SendItem, Send, author
<1>11. ASSUME NEW c \in calls, Broadcast(c) PROVE ImportInv'
  BY <1>1, <1>11 DEF Broadcast, Send
<1>12. ASSUME NEW l, Receive(l) \/ Lose(l) \/ MarkCreate(l) \/ HandleCreate(l) PROVE ImportInv'
  BY <1>1, <1>12 DEF Receive, Lose, MarkCreate, HandleCreate, author
<1>14. CASE RestartFollower
  BY <1>14 DEF RestartFollower, BeforeAccept, ImportInv, author
<1>13. CASE UNCHANGED vars
  BY <1>1, <1>13 DEF vars, author
<1>. QED
  BY <1>2, <1>3, <1>4, <1>5, <1>6, <1>7, <1>8, <1>9, <1>10, <1>11, <1>12, <1>13, <1>14,
     FetchBatchCases, FetchPageCases, PageIsNew
  DEF Next, BackfillStep, ImportStep

\* An import that has read all pages has handed over every post that was there all the
\* time, whatever is published or removed between the pages, but for posts of the
\* millisecond at a border of a page and failed ones.
THEOREM ImportCompleteHolds == Spec => []ImportComplete
<1>1. Init => BeforeAccept /\ PagesDescend /\ ImportInv
  BY DEF Init, BeforeAccept, PagesDescend, ImportInv
<1>2. BeforeAccept /\ ImportInv => ImportComplete
  BY DEF BeforeAccept, ImportInv, ImportComplete
<1>. QED
  BY <1>1, <1>2, TypesInitially, TypesKept, BeforeAcceptKept, DescendKept, ImportKept, PTL DEF Spec

-----------------------------------------------------------------------------
(* OnceEach.                                                               *)

InHand(p) == {l \in checked \cup marked : l[2] = p}

\* At most one Create of a post is between the check and on_create, as long as no two
\* are checked before a mark and the dedup does not fail: unmarked before the mark,
\* marked after it; and none after on_create.
CreateInv(p) ==
  /\ \A k, l \in InHand(p) : k = l
  /\ created[p] <= 1
  /\ created[p] > 0 => p \in processed /\ InHand(p) = {}
  /\ p \in processed => InHand(p) \cap checked = {}
  /\ p \notin processed => InHand(p) \cap marked = {}

CreateInvs == \A p \in Posts \ (raced \cup unsure) : CreateInv(p)

LEMMA CreateKept == TypeOK /\ CreateInvs /\ [Next]_vars => CreateInvs'
<1>. SUFFICES ASSUME TypeOK, CreateInvs, [Next]_vars,
                     NEW p \in Posts, p \notin raced', p \notin unsure'
              PROVE  CreateInv(p)'
  BY DEF CreateInvs
<1>1. p \notin raced /\ p \notin unsure => CreateInv(p)
  BY DEF CreateInvs
<1>t. created \in [Posts -> Nat] /\ created[p] \in Nat
  BY DEF TypeOK
<1>2. ASSUME UNCHANGED <<dedup, created>> PROVE CreateInv(p)'
  BY <1>1, <1>2 DEF CreateInv, InHand, dedup
<1>3. ASSUME UNCHANGED follower PROVE CreateInv(p)'
  BY <1>2, <1>3 DEF follower
<1>4. ASSUME NEW l \in net, Receive(l) PROVE CreateInv(p)'
  <2>1. CASE UNCHANGED <<dedup, created>>
    BY <1>2, <2>1
  <2>2. CASE /\ ~Known(l) /\ l[1] = "Create" /\ created' = created
             /\ checked' = checked \cup {l} /\ UNCHANGED <<marked, processed, unsure>>
             /\ raced' = IF Copies(l[2]) \cap checked # {} THEN raced \cup {l[2]} ELSE raced
    <3>1. p \notin raced /\ p \notin unsure /\ CreateInv(p)
      BY <1>1, <2>2
    <3>2. CASE l[2] # p
      <4>1. InHand(p)' = InHand(p) /\ l \notin InHand(p)
        BY <2>2, <3>2 DEF InHand
      <4>. QED
        BY <2>2, <3>1, <4>1 DEF CreateInv
    <3>3. CASE l[2] = p
      <4>1. Copies(p) \cap checked = {} /\ p \notin processed
        BY <2>2, <3>3 DEF Known
      <4>2. InHand(p) \cap checked = {}
        BY <4>1 DEF InHand, Copies, TypeOK
      <4>3. InHand(p) = {}
        BY <3>1, <4>1, <4>2 DEF CreateInv, InHand
      <4>4. InHand(p)' = {l} /\ l \notin marked
        BY <2>2, <3>3, <4>3 DEF InHand
      <4>5. ~ (created[p] > 0) /\ created'[p] = created[p]
        BY <2>2, <3>1, <4>1 DEF CreateInv
      <4>. QED
        BY <1>t, <2>2, <4>1, <4>4, <4>5 DEF CreateInv
    <3>. QED
      BY <3>2, <3>3
  <2>3. CASE marked' = marked \cup {l} /\ unsure' = unsure \cup {l[2]} /\ created' = created
             /\ UNCHANGED <<checked, processed, raced>>
    <3>1. l[2] # p /\ CreateInv(p)
      BY <1>1, <2>3
    <3>2. InHand(p)' = InHand(p) /\ l \notin InHand(p)
      BY <2>3, <3>1 DEF InHand
    <3>. QED
      BY <2>3, <3>1, <3>2 DEF CreateInv
  <2>. QED
    BY <1>4, <2>1, <2>2, <2>3 DEF Receive, CheckCreate, HandleDelete
<1>5. ASSUME NEW l \in checked, MarkCreate(l) PROVE CreateInv(p)'
  <2>1. /\ checked' = checked \ {l} /\ marked' = marked \cup {l}
        /\ UNCHANGED <<created, raced>>
        /\ \/ processed' = processed \cup {l[2]} /\ UNCHANGED unsure
           \/ unsure' = unsure \cup {l[2]} /\ UNCHANGED processed
    BY <1>5 DEF MarkCreate
  <2>2. CreateInv(p) /\ (l[2] = p => processed' = processed \cup {p})
    BY <1>1, <2>1
  <2>3. InHand(p)' = InHand(p)
    BY <2>1 DEF InHand
  <2>4. CASE l[2] = p
    <3>1. l \in InHand(p)
      BY <2>4 DEF InHand
    <3>2. \A k \in InHand(p) : k = l
      BY <2>2, <3>1 DEF CreateInv
    <3>3. InHand(p)' \cap checked' = {}
      BY <2>1, <2>3, <3>2
    <3>4. ~ (created'[p] > 0)
      BY <2>1, <2>2, <3>1 DEF CreateInv
    <3>. QED
      BY <1>t, <2>1, <2>2, <2>3, <2>4, <3>3, <3>4 DEF CreateInv
  <2>5. CASE l[2] # p
    <3>1. l \notin InHand(p) /\ (p \in processed' <=> p \in processed)
      BY <2>1, <2>5 DEF InHand
    <3>. QED
      BY <2>1, <2>2, <2>3, <3>1 DEF CreateInv
  <2>. QED
    BY <2>4, <2>5
<1>6. ASSUME NEW l \in marked, HandleCreate(l) PROVE CreateInv(p)'
  <2>1. /\ marked' = marked \ {l} /\ UNCHANGED <<checked, processed, raced, unsure>>
        /\ \/ created' = [created EXCEPT ![l[2]] = @ + 1]
           \/ created' = created
    BY <1>6 DEF HandleCreate
  <2>2. CreateInv(p)
    BY <1>1, <2>1
  <2>3. CASE l[2] = p
    <3>1. l \in InHand(p)
      BY <2>3 DEF InHand
    <3>2. p \in processed /\ ~ (created[p] > 0)
      BY <2>2, <3>1 DEF CreateInv
    <3>3. InHand(p)' = {}
      <4>1. \A k \in InHand(p) : k = l
        BY <2>2, <3>1 DEF CreateInv
      <4>2. l \notin checked
        BY <2>2, <3>1, <3>2 DEF CreateInv
      <4>. QED
        BY <2>1, <4>1, <4>2 DEF InHand
    <3>4. created'[p] <= 1
      BY <1>t, <2>1, <2>3, <3>2
    <3>. QED
      BY <2>1, <3>2, <3>3, <3>4 DEF CreateInv
  <2>4. CASE l[2] # p
    <3>1. InHand(p)' = InHand(p) /\ l \notin InHand(p) /\ created'[p] = created[p]
      BY <1>t, <2>1, <2>4 DEF InHand
    <3>. QED
      BY <2>1, <2>2, <3>1 DEF CreateInv
  <2>. QED
    BY <2>3, <2>4
<1>7. CASE RestartFollower
  <2>1. InHand(p)' = {} /\ UNCHANGED <<processed, raced, unsure, created>>
    BY <1>7 DEF RestartFollower, InHand
  <2>. QED
    BY <1>1, <2>1 DEF CreateInv
<1>8. CASE Publish \/ UpdateFollowerStatus \/ SpawnBackfill \/ TakeJob \/ StopBackfill \/ BatchRead \/ NoBatch
  BY <1>3, <1>8
  DEF Publish, UpdateFollowerStatus, SpawnBackfill, TakeJob, StopBackfill, BatchRead, NoBatch
<1>9. ASSUME NEW q \in Posts, Remove(q) PROVE CreateInv(p)'
  BY <1>3, <1>9 DEF Remove
<1>10. ASSUME NEW c \in calls, Broadcast(c) PROVE CreateInv(p)'
  BY <1>3, <1>10 DEF Broadcast
<1>11. CASE SendItem
  BY <1>3, <1>11 DEF SendItem
<1>12. ASSUME NEW l \in net, Lose(l) PROVE CreateInv(p)'
  BY <1>3, <1>12 DEF Lose
<1>13. CASE StartImport \/ PageRead \/ PageKnown \/ TurnPage \/ StopImport
  BY <1>3, <1>13 DEF StartImport, PageRead, PageKnown, TurnPage, StopImport
<1>14. CASE ImportItem
  BY <1>2, <1>14 DEF ImportItem
<1>15. CASE UNCHANGED vars
  BY <1>3, <1>15 DEF vars
<1>. QED
  BY <1>4, <1>5, <1>6, <1>7, <1>8, <1>9, <1>10, <1>11, <1>12, <1>13, <1>14, <1>15,
     FetchBatchCases, FetchPageCases
  DEF Next, BackfillStep, ImportStep

\* A post that was imported is not among the items of the page, and on no page yet to
\* come.
OnceInv ==
  /\ \A p \in Posts : imported[p] <= 1
  /\ reading = "page" => \A p \in Posts : imported[p] > 0 => url <= Published[p]
  /\ reading = "items" =>
       /\ \A p \in items : imported[p] = 0
       /\ \A p \in Posts : imported[p] > 0 \/ p \in items => \A next \in link : next <= Published[p]

LEMMA OnceKept == TypeOK /\ PagesDescend /\ OnceInv /\ [Next]_vars => OnceInv'
<1>. SUFFICES ASSUME TypeOK, PagesDescend, OnceInv, [Next]_vars PROVE OnceInv'
  OBVIOUS
<1>t. /\ posts \subseteq Posts /\ url \in Nat /\ items \subseteq Posts
      /\ imported \in [Posts -> Nat]
      /\ \A p \in Posts : Published[p] \in Nat
  BY Timestamps DEF TypeOK
<1>1. ASSUME UNCHANGED import PROVE OnceInv'
  BY <1>1 DEF OnceInv, import
<1>2. ASSUME NEW p \in Posts, Remove(p) PROVE OnceInv'
  BY <1>2 DEF Remove, OnceInv
<1>3. CASE SendItem
  BY <1>1, <1>3 DEF SendItem
<1>4. ASSUME NEW l, Receive(l) \/ Lose(l) \/ MarkCreate(l) \/ HandleCreate(l) PROVE OnceInv'
  BY <1>1, <1>4 DEF Receive, Lose, MarkCreate, HandleCreate
<1>5. CASE StartImport
  BY <1>t, <1>5 DEF StartImport, PagesDescend, OnceInv
<1>6. CASE PageRead
  <2>. DEFINE page == OutboxPage(url)
  <2>1. /\ page \subseteq Older(url)
        /\ \A next \in NextLink(page) :
             next \in Nat /\ next < url /\ \A p \in page : next <= Published[p]
    BY <1>t, NextLinkIs
  <2>. HIDE DEF page
  <2>2. /\ reading = "page" /\ reading' = "items" /\ items' = page /\ link' = NextLink(page)
        /\ UNCHANGED imported
    BY <1>6 DEF PageRead, page
  <2>3. \A p \in Posts : imported[p] > 0 => url <= Published[p]
    BY <2>2 DEF OnceInv
  <2>4. \A p \in page : imported[p] = 0
    BY <1>t, <2>1, <2>3 DEF Older
  <2>5. ASSUME NEW p \in Posts, imported[p] > 0 \/ p \in page, NEW next \in NextLink(page)
        PROVE  next <= Published[p]
    BY <1>t, <2>1, <2>3, <2>5
  <2>. QED
    BY <2>2, <2>4, <2>5 DEF OnceInv
<1>7. CASE ImportItem
  <2>. DEFINE q == Max(items)
  <2>1. q \in items /\ q \in Posts
    BY <1>7, MaxIs DEF ImportItem, TypeOK
  <2>. HIDE DEF q
  <2>2. /\ reading = "items" /\ items' = items \ {q}
        /\ \/ imported' = [imported EXCEPT ![q] = @ + 1]
           \/ UNCHANGED imported
        /\ UNCHANGED <<reading, link>>
    BY <1>7 DEF ImportItem, q
  <2>3. imported[q] = 0
    BY <2>1, <2>2 DEF OnceInv
  <2>4. \A p \in Posts : imported'[p] = imported[p] \/ (p = q /\ imported'[p] = 1)
    BY <1>t, <2>1, <2>2, <2>3
  <2>. QED
    BY <1>t, <2>1, <2>2, <2>4 DEF OnceInv
<1>8. CASE TurnPage
  BY <1>8 DEF TurnPage, OnceInv
<1>9. CASE StopImport \/ RestartFollower
  BY <1>9 DEF StopImport, RestartFollower, OnceInv
<1>10. CASE Publish \/ UpdateFollowerStatus \/ SpawnBackfill \/ TakeJob \/ StopBackfill \/ BatchRead \/ NoBatch
  BY <1>1, <1>10
  DEF Publish, UpdateFollowerStatus, SpawnBackfill, TakeJob, StopBackfill, BatchRead, NoBatch
<1>11. ASSUME NEW c \in calls, Broadcast(c) PROVE OnceInv'
  BY <1>1, <1>11 DEF Broadcast
<1>13. CASE UNCHANGED vars
  BY <1>1, <1>13 DEF vars
<1>. QED
  BY <1>2, <1>3, <1>4, <1>5, <1>6, <1>7, <1>8, <1>9, <1>10, <1>11, <1>13,
     FetchBatchCases, FetchPageCases, PageIsNew
  DEF Next, BackfillStep, ImportStep

\* No post is imported twice, and of the Creates of a post that a broadcast and the
\* runs of a backfill send, the follower's server handles one, unless two of them are
\* checked before either is marked or the dedup fails.
THEOREM OnceEachHolds == Spec => []OnceEach
<1>1. Init => PagesDescend /\ OnceInv /\ CreateInvs
  BY DEF Init, PagesDescend, OnceInv, CreateInvs, CreateInv, InHand
<1>2. OnceInv /\ CreateInvs => OnceEach
  BY DEF OnceInv, CreateInvs, CreateInv, OnceEach
<1>. QED
  BY <1>1, <1>2, TypesInitially, TypesKept, DescendKept, OnceKept, CreateKept, PTL DEF Spec

-----------------------------------------------------------------------------
(* NoGhost.                                                                *)

\* The Delete of a post is still to come.
Deleting(p) == <<"Delete", p>> \in calls \/ <<"Delete", p, 0>> \in net

\* What is to be broadcast is there; and the Delete of a removed post is still to come,
\* or the post was on its way when the Delete was handled, or no copy can reach the
\* follower any more.
GhostInv ==
  /\ \A p \in Posts : <<"Create", p>> \in calls => p \in posts
  /\ \A p \in Posts \ posts :
       Deleting(p) \/ p \in stale \cup lost \cup unsure \/ (p \notin kept /\ ~ OnTheWay(p))

\* A step that brings no copy of a removed post on its way, and loses no Delete.
LEMMA GhostIfFewer ==
  ASSUME GhostInv, posts' = posts, calls' = calls,
         \A p \in Posts \ posts :
           \/ p \in stale' \cup lost' \cup unsure'
           \/ /\ <<"Delete", p, 0>> \in net => <<"Delete", p, 0>> \in net'
              /\ p \in stale \cup lost \cup unsure => p \in stale' \cup lost' \cup unsure'
              /\ p \notin kept /\ ~ OnTheWay(p) => p \notin kept' /\ ~ OnTheWay(p)'
           \/ p \notin kept' /\ ~ OnTheWay(p)'
  PROVE  GhostInv'
BY DEF GhostInv, Deleting

LEMMA GhostKept == TypeOK /\ BeforeAccept /\ GhostInv /\ [Next]_vars => GhostInv'
<1>. SUFFICES ASSUME TypeOK, BeforeAccept, GhostInv, [Next]_vars PROVE GhostInv'
  OBVIOUS
<1>. DEFINE R == Posts \ posts
<1>t. posts \subseteq Posts
  BY DEF TypeOK
<1>n. \A l \in net \cup checked \cup marked : l = <<l[1], l[2], l[3]>> /\ l[1] \in {"Create", "Delete"}
  BY DEF TypeOK, Letters
<1>1. CASE Publish
  BY <1>1 DEF Publish, GhostInv, Deleting, OnTheWay, Copies, backfill, follower, dedup, import
<1>2. ASSUME NEW q \in Posts, Remove(q) PROVE GhostInv'
  <2>1. \A p \in Posts : <<"Create", p>> \in calls' => p \in posts'
    BY <1>2 DEF Remove, GhostInv
  <2>. QED
    BY <1>2, <2>1 DEF Remove, GhostInv, Deleting, OnTheWay, Copies, backfill, follower, dedup
<1>3. ASSUME NEW c \in calls, Broadcast(c) PROVE GhostInv'
  <2>1. calls' = calls \ {c} /\ UNCHANGED <<posts, batch, items, checked, marked, processed, kept, stale, unsure>>
    BY <1>3 DEF Broadcast, backfill, follower, dedup, import
  <2>2. c = <<c[1], c[2]>> /\ c[1] \in {"Create", "Delete"}
    BY DEF TypeOK
  <2>3. CASE accepted /\ attempting
    <3>1. net' = net \cup {<<c[1], c[2], 0>>} /\ UNCHANGED lost
      BY <1>3, <2>3 DEF Broadcast, Send
    <3>2. ASSUME NEW p \in R, ~ OnTheWay(p) PROVE ~ OnTheWay(p)'
      <4>1. c # <<"Create", p>>
        BY DEF GhostInv
      <4>2. Copies(p)' = Copies(p)
        BY <2>1, <2>2, <3>1, <4>1 DEF Copies
      <4>. QED
        BY <2>1, <3>2, <4>2 DEF OnTheWay
    <3>3. \A p : Deleting(p) => Deleting(p)'
      BY <2>1, <2>2, <3>1 DEF Deleting
    <3>. QED
      BY <2>1, <3>1, <3>2, <3>3 DEF GhostInv
  <2>4. CASE accepted /\ ~ attempting
    <3>1. lost' = lost \cup {c[2]} /\ UNCHANGED net
      BY <1>3, <2>4 DEF Broadcast, Send
    <3>2. \A p : OnTheWay(p)' = OnTheWay(p)
      BY <2>1, <3>1 DEF OnTheWay, Copies
    <3>3. \A p : Deleting(p) => Deleting(p)' \/ p \in lost'
      BY <2>1, <2>2, <3>1 DEF Deleting
    <3>. QED
      BY <2>1, <3>1, <3>2, <3>3 DEF GhostInv
  <2>5. CASE ~ accepted
    <3>1. items = {} /\ batch = {} /\ net = {} /\ kept = {} /\ checked = {} /\ marked = {}
      BY <2>5 DEF BeforeAccept, TypeOK
    <3>2. net' = {}
      BY <1>3, <2>5, <3>1 DEF Broadcast
    <3>. QED
      BY <2>1, <3>1, <3>2 DEF GhostInv, OnTheWay, Copies
  <2>. QED
    BY <2>3, <2>4, <2>5
<1>4. ASSUME UNCHANGED <<posts, calls, net, dedup, kept, stale>>, lost \subseteq lost',
             \A p \in R : (p \in batch' => p \in batch) /\ (p \in items' => p \in items)
      PROVE  GhostInv'
  BY <1>4 DEF GhostInv, Deleting, OnTheWay, Copies, dedup
<1>5. CASE UpdateFollowerStatus \/ SpawnBackfill \/ TakeJob \/ StopBackfill \/ NoBatch
  BY <1>4, <1>5
  DEF UpdateFollowerStatus, SpawnBackfill, TakeJob, Begin, StopBackfill, NoBatch, author, follower, import
<1>6. CASE BatchRead
  <2>1. batch' \subseteq posts
    BY <1>6, <1>t, PageIs, HistoryAssumption DEF BatchRead, Older
  <2>. QED
    BY <1>4, <1>6, <2>1 DEF BatchRead, author, follower, import
<1>7. CASE SendItem
  <2>. DEFINE q == Max(batch)
  <2>1. q \in batch
    BY <1>7, MaxIs DEF SendItem, TypeOK
  <2>. HIDE DEF q
  <2>2. /\ batch' = batch \ {q}
        /\ Send(<<"Create", q, runs>>)
        /\ UNCHANGED <<posts, calls, checked, marked, processed, kept, stale, unsure, items>>
    BY <1>7 DEF SendItem, author, follower, dedup, import, q
  <2>3. lost \subseteq lost' /\ (net' = net \/ net' = net \cup {<<"Create", q, runs>>})
    BY <2>2 DEF Send
  <2>4. ASSUME NEW p \in R, ~ OnTheWay(p) PROVE ~ OnTheWay(p)'
    <3>1. CASE p = q
      BY <2>1, <2>2, <2>3, <2>4, <3>1 DEF OnTheWay, Copies
    <3>2. CASE p # q
      <4>1. Copies(p)' = Copies(p)
        BY <2>2, <2>3, <3>2 DEF Copies
      <4>. QED
        BY <2>2, <2>4, <4>1 DEF OnTheWay
    <3>. QED
      BY <3>1, <3>2
  <2>. QED
    BY <2>2, <2>3, <2>4, GhostIfFewer
<1>8. ASSUME NEW l \in net, Receive(l) PROVE GhostInv'
  <2>1. net' = net \ {l} /\ UNCHANGED <<posts, calls, batch, items, lost>>
    BY <1>8 DEF Receive, author, backfill, import
  <2>3. CASE l[1] = "Create" /\ CheckCreate(l) /\ UNCHANGED <<kept, created, stale>>
    <3>1. \A p : <<"Delete", p, 0>> \in net => <<"Delete", p, 0>> \in net'
      BY <2>1, <2>3
    <3>2. ASSUME NEW p \in R, ~ OnTheWay(p) PROVE p \in unsure' \/ ~ OnTheWay(p)'
      <4>1. CASE l[2] # p
        <5>1. Copies(p)' = Copies(p) /\ Copies(p) \cap (checked' \cup marked') = Copies(p) \cap (checked \cup marked)
          BY <2>1, <2>3, <4>1 DEF CheckCreate, Copies, dedup
        <5>2. processed' = processed
          BY <2>3 DEF CheckCreate, dedup
        <5>. QED
          BY <2>1, <3>2, <5>1, <5>2 DEF OnTheWay
      <4>2. CASE l[2] = p
        <5>1. p \in processed
          BY <2>3, <3>2, <4>2 DEF OnTheWay, Copies
        <5>2. CASE UNCHANGED dedup
          BY <2>1, <3>2, <5>1, <5>2 DEF OnTheWay, Copies, dedup
        <5>3. CASE p \in unsure'
          BY <5>3
        <5>. QED
          BY <2>3, <4>2, <5>1, <5>2, <5>3 DEF CheckCreate, Known
      <4>. QED
        BY <4>1, <4>2
    <3>3. unsure \subseteq unsure'
      BY <2>3 DEF CheckCreate, dedup
    <3>. QED
      BY <2>1, <2>3, <3>1, <3>2, <3>3, GhostIfFewer
  <2>4. CASE l[1] = "Delete" /\ HandleDelete(l[2])
    <3>2. \A p \in R : ~ OnTheWay(p) => ~ OnTheWay(p)'
      BY <2>1, <2>4 DEF OnTheWay, Copies, HandleDelete, dedup
    <3>3. kept' = kept \ {l[2]} /\ stale \subseteq stale' /\ UNCHANGED <<lost, unsure>>
      BY <2>1, <2>4 DEF HandleDelete, dedup
    <3>4. l[2] \in stale' \/ (l[2] \notin kept' /\ (l[2] \in R => ~ OnTheWay(l[2])'))
      BY <2>4, <3>2, <3>3 DEF HandleDelete
    <3>5. \A p \in R : p # l[2] => (<<"Delete", p, 0>> \in net => <<"Delete", p, 0>> \in net')
      BY <2>1
    <3>. QED
      BY <2>1, <3>2, <3>3, <3>4, <3>5, GhostIfFewer
  <2>. QED
    BY <1>8, <2>3, <2>4 DEF Receive
<1>20. ASSUME NEW l \in checked, MarkCreate(l) PROVE GhostInv'
  <2>1. /\ UNCHANGED <<posts, calls, net, batch, items, kept, stale, lost>>
        /\ checked' = checked \ {l} /\ marked' = marked \cup {l}
        /\ unsure \subseteq unsure' /\ processed \subseteq processed'
    BY <1>20 DEF MarkCreate, author, backfill, import
  <2>2. \A p : ~ OnTheWay(p) => ~ OnTheWay(p)'
    BY <2>1 DEF OnTheWay, Copies
  <2>. QED
    BY <2>1, <2>2, GhostIfFewer
<1>21. ASSUME NEW l \in marked, HandleCreate(l) PROVE GhostInv'
  <2>1. /\ UNCHANGED <<posts, calls, net, batch, items, checked, processed, stale, unsure>>
        /\ marked' = marked \ {l} /\ lost \subseteq lost' /\ kept' \subseteq kept \cup {l[2]}
    BY <1>21 DEF HandleCreate, author, backfill, import
  <2>2. l[1] = "Create" /\ OnTheWay(l[2])
    BY DEF TypeOK, OnTheWay, Copies
  <2>3. \A p : ~ OnTheWay(p) => ~ OnTheWay(p)'
    BY <2>1 DEF OnTheWay, Copies
  <2>. QED
    BY <2>1, <2>2, <2>3, GhostIfFewer
<1>22. CASE RestartFollower
  <2>1. /\ UNCHANGED <<posts, calls, net, batch, processed, kept, stale, unsure>>
        /\ checked' = {} /\ marked' = {} /\ items' = {} /\ lost \subseteq lost'
    BY <1>22 DEF RestartFollower, author, backfill
  <2>2. \A p : ~ OnTheWay(p) => ~ OnTheWay(p)'
    BY <2>1 DEF OnTheWay, Copies
  <2>. QED
    BY <2>1, <2>2, GhostIfFewer
<1>9. ASSUME NEW l \in net, Lose(l) PROVE GhostInv'
  <2>1. /\ net' = net \ {l} /\ lost' = lost \cup {l[2]}
        /\ UNCHANGED <<posts, calls, batch, items, dedup, kept, stale>>
    BY <1>9 DEF Lose, author, backfill, follower, import
  <2>3. \A p \in R : ~ OnTheWay(p) => ~ OnTheWay(p)'
    BY <2>1 DEF OnTheWay, Copies, dedup
  <2>4. \A p \in R : <<"Delete", p, 0>> \in net => <<"Delete", p, 0>> \in net' \/ p \in lost'
    BY <2>1
  <2>. QED
    BY <2>1, <2>3, <2>4, GhostIfFewer DEF dedup
<1>10. CASE PageRead
  <2>1. items' \subseteq posts
    BY <1>10, <1>t, NextLinkIs DEF PageRead, Older, TypeOK
  <2>. QED
    BY <1>4, <1>10, <2>1 DEF PageRead, author, backfill, follower
<1>11. CASE ImportItem
  <2>. DEFINE q == Max(items)
  <2>1. q \in items
    BY <1>11, MaxIs DEF ImportItem, TypeOK
  <2>. HIDE DEF q
  <2>2. /\ items' = items \ {q} /\ kept' \subseteq kept \cup {q} /\ lost \subseteq lost'
        /\ UNCHANGED <<posts, calls, net, batch, dedup, stale>>
    BY <1>11 DEF ImportItem, author, backfill, q
  <2>3. ASSUME NEW p \in R, p \notin kept, ~ OnTheWay(p) PROVE p \notin kept' /\ ~ OnTheWay(p)'
    BY <2>1, <2>2, <2>3 DEF OnTheWay, Copies, dedup
  <2>. QED
    BY <2>2, <2>3, GhostIfFewer DEF dedup
<1>12. CASE StartImport \/ TurnPage \/ StopImport \/ PageKnown
  BY <1>4, <1>12 DEF StartImport, TurnPage, StopImport, PageKnown, author, backfill, follower
<1>13. CASE UNCHANGED vars
  BY <1>4, <1>13 DEF vars, author, backfill, follower, import
<1>. QED
  BY <1>1, <1>2, <1>3, <1>5, <1>6, <1>7, <1>8, <1>9, <1>10, <1>11, <1>12, <1>13, <1>20, <1>21, <1>22,
     FetchBatchCases, FetchPageCases
  DEF Next, BackfillStep, ImportStep

\* A post the author removed does not stay at the follower once its Delete is handled,
\* unless a copy was on its way with a Create, the backfill or the import then, the
\* Delete was lost or the dedup failed.
THEOREM NoGhostHolds == Spec => []NoGhost
<1>1. Init => BeforeAccept /\ GhostInv
  BY DEF Init, BeforeAccept, GhostInv, OnTheWay, Copies
<1>2. TypeOK /\ GhostInv => NoGhost
  BY DEF TypeOK, GhostInv, Deleting, NoGhost
<1>. QED
  BY <1>1, <1>2, TypesInitially, TypesKept, BeforeAcceptKept, GhostKept, PTL DEF Spec

=============================================================================
