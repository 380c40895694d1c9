---------------------------- MODULE Collections ----------------------------
(***************************************************************************)
(* A remote server reads the followers collection of the target page by    *)
(* page while the rows come and go: collection_handler counts the rows,    *)
(* serialize_ordered_collection then fetches those of the page and decides *)
(* on a link to the next page.  Pages are numbered, the offset of a page   *)
(* is computed as a usize and cast to a u32 for the repository.            *)
(***************************************************************************)
EXTENDS LocalFollows

CONSTANTS
  PageSize,     \* AP_PAGE_SIZE
  Width         \* values of a u32

\* The last page begins less than a page after the last row: its offset is a u32.
ASSUME CollectionsAssumption ==
  PageSize \in Nat \ {0} /\ Width \in Nat /\ Cardinality(Users) + PageSize <= Width

VARIABLES
  page,         \* the page the reader asks for, 0: it is done
  total,        \* rows counted for the page, if they are: a set of at most one
  listed,       \* followers the reader has been sent
  steady,       \* rows there since the walk began and never behind a removed one (history)
  returned,     \* rows added while the walk went on (history)
  repeated      \* followers sent twice (history)

reader == <<page, total, listed, repeated>>
vars == <<varsLocal, reader, steady, returned>>

Init ==
  /\ InitLocal
  /\ page = 1
  /\ total = {} /\ listed = {} /\ repeated = {}
  /\ steady = ToSet(Initial) /\ returned = {}

\* count_followers
CountFollowers ==
  /\ page # 0 /\ total = {}
  /\ total' = {Len(followers)}
  /\ UNCHANGED <<varsLocal, page, listed, repeated, steady, returned>>

\* Mutant: pages are counted from zero.
OffsetFromZero(n) == n * PageSize

Offset(n) == (n - 1) * PageSize

\* Mutant: a row more than a page.
FollowersPageLong(offset) == SubSeq(followers, offset + 1, Min({offset + PageSize + 1, Len(followers)}))

\* get_followers_page
FollowersPage(offset) == SubSeq(followers, offset + 1, Min({offset + PageSize, Len(followers)}))

HasNext(items, count) == Offset(page) + Len(items) < count

\* serialize_ordered_collection: has_next compares with the rows counted before.
FetchItems ==
  \E count \in total :
    LET items == FollowersPage(Offset(page) % Width) IN
    /\ listed' = listed \cup ToSet(items)
    /\ repeated' = repeated \cup (listed \cap ToSet(items))
    /\ page' = IF HasNext(items, count) THEN page + 1 ELSE 0
    /\ total' = {}
    /\ UNCHANGED <<varsLocal, steady, returned>>

\* The rows change: those behind a removed row move up.
Changes ==
  /\ NextLocal
  /\ LET gone == {i \in DOMAIN followers : ~Contains(followers', followers[i])} IN
     /\ steady' = {followers[i] : i \in
          {j \in DOMAIN followers : followers[j] \in steady /\ \A k \in gone : j < k}}
     /\ returned' = returned \cup (ToSet(followers') \ ToSet(followers))
  /\ UNCHANGED reader

Next == Changes \/ CountFollowers \/ FetchItems

Spec == Init /\ [][Next]_vars

-----------------------------------------------------------------------------
(* Properties.                                                             *)

\* Type correctness of the walk: its pages stay within the rows there can be, so
\* that the cast of the offset changes nothing.
TypeOK ==
  /\ TypeOKLocal
  /\ page \in 0..(Cardinality(Users) + 1)
  /\ Cardinality(total) <= 1 /\ total \subseteq 0..Cardinality(Users)
  /\ page # 0 => Offset(page) < Width
  /\ listed \cup steady \cup returned \cup repeated \subseteq Users

\* However the rows change between the count and the page and between pages, the
\* reader is sent every follower who was there all the time and whose row no
\* removal moved up.
WalkComplete == page = 0 => steady \subseteq listed

\* No follower is sent twice who was not added anew during the walk.
NoneListedTwice == repeated \subseteq returned
=============================================================================
