------------------------------ MODULE History ------------------------------
(***************************************************************************)
(* How the posts of a user reach the server of a new follower, in the      *)
(* three ways the code has, which run side by side:                        *)
(*   - broadcast_create and broadcast_delete_to_followers send what changes *)
(*     once the follow is accepted, in any order;                          *)
(*   - accept_follower starts a backfill: run_backfill reads the author's  *)
(*     posts batch by batch, newest first, and sends a Create for each;    *)
(*   - the follower's application, told that it was accepted, calls        *)
(*     import_remote_outbox, which reads the pages of outbox_handler.      *)
(*                                                                         *)
(* Posts are numbered as they are published; Published is the timestamp    *)
(* the application keeps.  The cursor of a batch is the timestamp of its   *)
(* last post; that of an outbox page is cut to milliseconds on its way     *)
(* into the URL.  The Create of a backfill has the id that broadcast_create *)
(* gives it, so that the follower's dedup takes them for one activity; but *)
(* the dedup checks the id, then marks it, and calls the application after *)
(* that, and several Creates may be between these steps.  An imported post *)
(* is handled without the dedup.                                           *)
(*                                                                         *)
(* A letter is <<kind, post, run>>, with the run of the backfill that sends *)
(* it, or 0 for a broadcast.                                               *)
(***************************************************************************)
EXTENDS Naturals, FiniteSets, FiniteSetsExt

CONSTANTS
  NumPosts,    \* posts the user publishes
  Published,   \* published_at of each post
  Millisecond, \* units of Published in a millisecond
  NumInitial,  \* the posts there at first
  Removable,   \* posts the user may remove
  BatchSize,   \* BATCH_SIZE of run_backfill
  PageSize,    \* AP_PAGE_SIZE of outbox_handler
  MaxRuns,     \* runs the application grants a backfill job
  MaxMishaps   \* errors, lost letters and restarts in a behaviour

Posts == 1..NumPosts

ASSUME HistoryAssumption ==
  /\ {NumPosts, NumInitial, BatchSize, PageSize, MaxRuns, MaxMishaps} \subseteq Nat
  /\ NumPosts > 0 /\ NumInitial <= NumPosts /\ BatchSize > 0 /\ PageSize > 0
  /\ Millisecond \in Nat \ {0}
  /\ Removable \subseteq Posts
  /\ Published \in [Posts -> Nat]
  /\ \A p, q \in Posts : p <= q => Published[p] <= Published[q]

VARIABLES
  publisher,   \* an EventPublisher is configured at the author's server
  attempting,  \* delivery_max_attempts of the author's server is not 0
  posts,       \* the author's posts, as ApContentReader returns them
  latest,      \* the post published last
  accepted,    \* the follower is accepted
  calls,       \* broadcasts the author's application is about to call
  net,         \* letters on their way to the follower
  stage,       \* of the backfill
  cursor,      \* before, of the next batch
  batch,       \* posts of the batch yet to send
  lastBatch,   \* the batch was not full
  runs,        \* runs of the backfill so far
  checked,     \* the follower's server: Creates found new, not marked yet
  marked,      \* the follower's server: Creates past the check, on_create not called yet
  processed,   \* the follower's server: posts the id of whose Create is marked
  kept,        \* the follower's server: posts its application holds
  reading,     \* stage of the import
  url,         \* before, of the page it reads next
  visited,     \* pages it has read
  items,       \* posts of the page yet to handle
  link,        \* the page's link to the next one: at most one cursor
  created,     \* how often a Create led to on_create (history)
  raced,       \* posts two of whose Creates were checked before a mark (history)
  unsure,      \* posts a check or a mark of whose Create failed (history)
  imported,    \* how often the import called on_create (history)
  skipped,     \* posts at a border of a batch (history)
  hidden,      \* posts at a border of an outbox page (history)
  whole,       \* posts there since the import began (history)
  lost,        \* posts of letters, calls and items that failed (history)
  stale,       \* posts on their way when their Delete was handled (history)
  mishaps

config   == <<publisher, attempting>>
author   == <<posts, latest, accepted, calls>>
backfill == <<stage, cursor, batch, lastBatch, runs, skipped>>
dedup    == <<checked, marked, processed, raced, unsure>>
follower == <<dedup, kept, created, stale>>
import   == <<reading, url, visited, items, link, imported, hidden, whole>>
vars == <<config, author, net, backfill, follower, import, lost, mishaps>>

Mishap == mishaps < MaxMishaps /\ mishaps' = mishaps + 1

-----------------------------------------------------------------------------
(* Pages.                                                                  *)

NoCursor == Published[NumPosts] + 1   \* no before: every post is older

Older(before) == {p \in posts : Published[p] < before}

\* get_local_objects_page: the newest posts before the cursor.
Page(before, limit) ==
  {p \in Older(before) : Cardinality({q \in Older(before) : q > p}) < limit}

\* The timestamp as the URL of the next page holds it.
CutToMillis(t) == t - (t % Millisecond)

\* Posts no page had and that a page with the cursor next leaves out.
Behind(before, page, next) ==
  {p \in Older(before) \ page : Published[p] >= next}

\* Mutant: the next page starts below the newest post of this one.
NextLinkNewest(page) ==
  IF Cardinality(page) = PageSize THEN {CutToMillis(Published[Max(page)])} ELSE {}

\* Mutant: a full page is taken for the last one.
NextLinkShort(page) ==
  IF Cardinality(page) > PageSize THEN {CutToMillis(Published[Min(page)])} ELSE {}

\* build_outbox_page links to the next page when this one is full.
NextLink(page) ==
  IF Cardinality(page) = PageSize THEN {CutToMillis(Published[Min(page)])} ELSE {}

\* build_outbox_collection points to the page without a cursor.
FirstPage == NoCursor

\* outbox_handler reads the posts of a page.
OutboxPage(before) == Page(before, PageSize)

-----------------------------------------------------------------------------
Init ==
  /\ publisher \in BOOLEAN /\ attempting \in BOOLEAN
  /\ posts = 1..NumInitial
  /\ latest = NumInitial
  /\ accepted = FALSE
  /\ stage = "none" /\ reading = "none"
  /\ cursor = NoCursor /\ url = FirstPage
  /\ lastBatch = FALSE
  /\ runs = 0 /\ mishaps = 0
  /\ calls = {} /\ net = {}
  /\ batch = {} /\ items = {} /\ link = {} /\ visited = {}
  /\ checked = {} /\ marked = {} /\ processed = {} /\ kept = {}
  /\ raced = {} /\ unsure = {}
  /\ skipped = {} /\ hidden = {} /\ whole = {} /\ lost = {} /\ stale = {}
  /\ created = [p \in Posts |-> 0]
  /\ imported = [p \in Posts |-> 0]

\* The application stores a new post and will broadcast it, ...
Publish ==
  /\ latest < NumPosts
  /\ latest' = latest + 1
  /\ posts' = posts \cup {latest'}
  /\ calls' = calls \cup {<<"Create", latest'>>}
  /\ UNCHANGED <<config, accepted, net, backfill, follower, import, lost, mishaps>>

\* ... and removes one it has broadcast.
Remove(p) ==
  /\ p \in posts \cap Removable
  /\ <<"Create", p>> \notin calls
  /\ posts' = posts \ {p}
  /\ whole' = whole \ {p}
  /\ calls' = calls \cup {<<"Delete", p>>}
  /\ UNCHANGED <<config, latest, accepted, net, backfill, follower, reading, url, visited,
                 items, link, imported, hidden, lost, mishaps>>

\* The delivery sends a letter; with no attempt to make, it sends nothing and reports
\* no failure.
Send(l) ==
  IF attempting
  THEN net' = net \cup {l} /\ UNCHANGED lost
  ELSE lost' = lost \cup {l[2]} /\ UNCHANGED net

\* broadcast_create and broadcast_delete_to_followers: to accepted followers.
Broadcast(c) ==
  /\ calls' = calls \ {c}
  /\ IF accepted THEN Send(<<c[1], c[2], 0>>) ELSE UNCHANGED <<net, lost>>
  /\ UNCHANGED <<config, posts, latest, accepted, backfill, follower, import, mishaps>>

-----------------------------------------------------------------------------
(* accept_follower and the backfill.                                       *)

\* accept_follower accepts the follower, ...
UpdateFollowerStatus ==
  /\ stage = "none"
  /\ accepted' = TRUE
  /\ stage' = "granted"
  /\ UNCHANGED <<config, posts, latest, calls, net, cursor, batch, lastBatch, runs, skipped,
                 follower, import, lost, mishaps>>

\* A run of run_backfill starts from the newest post.
Begin ==
  /\ stage' = "fetch"
  /\ cursor' = NoCursor
  /\ batch' = {} /\ skipped' = {}
  /\ runs' = runs + 1
  /\ UNCHANGED lastBatch

\* ... and, once the Accept is handed over, starts the backfill or publishes a
\* request for it.
SpawnBackfill ==
  /\ stage = "granted"
  /\ IF publisher
     THEN stage' = "queued" /\ UNCHANGED <<cursor, batch, lastBatch, runs, skipped>>
     ELSE Begin
  /\ UNCHANGED <<config, author, net, follower, import, lost, mishaps>>

\* A worker takes the job and calls run_backfill_for_follower.
TakeJob ==
  /\ stage = "queued"
  /\ Begin
  /\ UNCHANGED <<config, author, net, follower, import, lost, mishaps>>

\* The newest posts before the cursor; less than a full batch is the last one.
FetchBatchWith(full) ==
  LET page == Page(cursor, BatchSize)
      last == Published[Min(page)] IN
  /\ stage = "fetch"
  /\ IF page = {}
     THEN stage' = "done" /\ UNCHANGED <<cursor, batch, lastBatch, skipped>>
     ELSE /\ stage' = "send"
          /\ batch' = page
          /\ lastBatch' = (Cardinality(page) < full)
          /\ cursor' = last
          /\ skipped' = skipped \cup Behind(cursor, page, last)
  /\ UNCHANGED <<config, author, net, runs, follower, import, lost, mishaps>>

\* Mutant: a full batch is taken for the last one.
FetchBatchStops == FetchBatchWith(BatchSize + 1)

\* Mutant: the cursor does not move.
FetchBatchAgain ==
  LET page == Page(cursor, BatchSize) IN
  /\ stage = "fetch"
  /\ stage' = IF page = {} THEN "done" ELSE "send"
  /\ batch' = page
  /\ lastBatch' = (Cardinality(page) < BatchSize)
  /\ UNCHANGED <<config, author, net, cursor, runs, skipped, follower, import, lost, mishaps>>

\* Mutant: an empty batch is not taken for the end.
FetchBatchUnchecked ==
  LET page == Page(cursor, BatchSize) IN
  /\ stage = "fetch"
  /\ stage' = "send"
  /\ batch' = page
  /\ lastBatch' = (Cardinality(page) < BatchSize)
  /\ cursor' = IF page = {} THEN cursor ELSE Published[Min(page)]
  /\ UNCHANGED <<config, author, net, runs, skipped, follower, import, lost, mishaps>>

FetchBatch == FetchBatchWith(BatchSize)

\* send_with_retry for the next post of the batch.  The task goes on with the answer,
\* or after a timeout, when the letter may still be on its way or be handled.
SendItem ==
  LET p == Max(batch) IN
  /\ stage = "send"
  /\ batch' = batch \ {p}
  /\ stage' = IF batch' # {} THEN "send" ELSE IF lastBatch THEN "done" ELSE "fetch"
  /\ Send(<<"Create", p, runs>>)
  /\ UNCHANGED <<config, author, cursor, lastBatch, runs, skipped, follower, import, mishaps>>

\* An error of the publisher, of reading a batch or of preparing a send ends the
\* backfill, as does a restart; a worker's queue may grant the job another run.
StopBackfill ==
  /\ stage \in {"granted", "fetch", "send"}
  /\ Mishap
  /\ batch' = {}
  /\ \/ stage' = "ended"
     \/ stage # "granted" /\ publisher /\ runs < MaxRuns /\ stage' = "queued"
  /\ UNCHANGED <<config, author, net, cursor, lastBatch, runs, skipped, follower, import, lost>>

-----------------------------------------------------------------------------
(* The follower's server.                                                  *)

Copies(p) == {l \in net \cup checked \cup marked : l[1] = "Create" /\ l[2] = p}

\* A copy of the post may still reach the follower's application.
OnTheWay(p) ==
  \/ p \in items
  \/ Copies(p) \cap (checked \cup marked) # {}
  \/ p \notin processed /\ (p \in batch \/ Copies(p) # {})

\* Mutant: the Create of a backfill has an id of its own.
KnownFresh(l) == l[3] = 0 /\ l[2] \in processed

\* The dedup of the follower's server knows the id of a Create: all those of a post
\* have one id.
Known(l) == l[2] \in processed

\* already_processed checks a Create; when the check fails, it is handled unmarked.
CheckCreate(l) ==
  \/ Known(l) /\ UNCHANGED <<dedup, mishaps>>
  \/ /\ ~Known(l)
     /\ checked' = checked \cup {l}
     /\ raced' = IF Copies(l[2]) \cap checked # {} THEN raced \cup {l[2]} ELSE raced
     /\ UNCHANGED <<marked, processed, unsure, mishaps>>
  \/ /\ Mishap
     /\ marked' = marked \cup {l}
     /\ unsure' = unsure \cup {l[2]}
     /\ UNCHANGED <<checked, processed, raced>>

\* on_delete, after the guards for the id of the Delete, which comes once.
HandleDelete(p) ==
  /\ kept' = kept \ {p}
  /\ stale' = IF OnTheWay(p) THEN stale \cup {p} ELSE stale
  /\ UNCHANGED <<dedup, created, mishaps>>

\* The inbox takes a letter.
Receive(l) ==
  /\ net' = net \ {l}
  /\ \/ l[1] = "Create" /\ CheckCreate(l) /\ UNCHANGED <<kept, created, stale>>
     \/ l[1] = "Delete" /\ HandleDelete(l[2])
  /\ UNCHANGED <<config, author, backfill, import, lost>>

\* Mutant: the id is not marked.
MarkNothing(l) ==
  /\ checked' = checked \ {l}
  /\ marked' = marked \cup {l}
  /\ UNCHANGED <<config, author, net, backfill, processed, raced, unsure, kept, created, stale,
                 import, lost, mishaps>>

\* mark_activity_processed; an error is logged.
MarkCreate(l) ==
  /\ checked' = checked \ {l}
  /\ marked' = marked \cup {l}
  /\ \/ processed' = processed \cup {l[2]} /\ UNCHANGED <<unsure, mishaps>>
     \/ Mishap /\ unsure' = unsure \cup {l[2]} /\ UNCHANGED processed
  /\ UNCHANGED <<config, author, net, backfill, raced, kept, created, stale, import, lost>>

\* on_create; after an error the Create, marked, is not handled again.
HandleCreate(l) ==
  /\ marked' = marked \ {l}
  /\ \/ /\ kept' = kept \cup {l[2]}
        /\ created' = [created EXCEPT ![l[2]] = @ + 1]
        /\ UNCHANGED <<lost, mishaps>>
     \/ /\ Mishap
        /\ lost' = lost \cup {l[2]}
        /\ UNCHANGED <<kept, created>>
  /\ UNCHANGED <<config, author, net, backfill, checked, processed, raced, unsure, stale, import>>

\* The delivery gives up on a letter, or a restart takes it.
Lose(l) ==
  /\ Mishap
  /\ net' = net \ {l}
  /\ lost' = lost \cup {l[2]}
  /\ UNCHANGED <<config, author, backfill, follower, import>>

\* The follower's server restarts: the requests under way and the import are gone.
RestartFollower ==
  /\ Mishap
  /\ checked' = {} /\ marked' = {}
  /\ lost' = lost \cup {l[2] : l \in checked \cup marked}
  /\ reading' = IF reading \in {"page", "items"} THEN "ended" ELSE reading
  /\ items' = {}
  /\ UNCHANGED <<config, author, net, backfill, processed, raced, unsure, kept, created, stale, url,
                 visited, link, imported, hidden, whole>>

\* import_remote_outbox finds the first page.
StartImport ==
  /\ accepted /\ reading = "none"
  /\ reading' = "page"
  /\ whole' = posts
  /\ UNCHANGED <<config, author, net, backfill, follower, url, visited, items, link, imported,
                 hidden, lost, mishaps>>

\* It reads a page outbox_handler builds; one it has read before is the end.
FetchPage ==
  LET page == OutboxPage(url) IN
  /\ reading = "page"
  /\ IF url \in visited
     THEN reading' = "done" /\ UNCHANGED <<visited, items, link, hidden>>
     ELSE /\ reading' = "items"
          /\ visited' = visited \cup {url}
          /\ items' = page
          /\ link' = NextLink(page)
          /\ hidden' = hidden \cup UNION {Behind(url, page, next) : next \in link'}
  /\ UNCHANGED <<config, author, net, backfill, follower, url, imported, whole, lost, mishaps>>

\* on_create for the next post of the page, without the dedup; an error is logged.
ImportItem ==
  LET p == Max(items) IN
  /\ reading = "items" /\ items # {}
  /\ items' = items \ {p}
  /\ \/ /\ kept' = kept \cup {p}
        /\ imported' = [imported EXCEPT ![p] = @ + 1]
        /\ UNCHANGED <<lost, mishaps>>
     \/ /\ Mishap
        /\ lost' = lost \cup {p}
        /\ UNCHANGED <<kept, imported>>
  /\ UNCHANGED <<config, author, net, backfill, dedup, created, stale, reading, url, visited, link,
                 hidden, whole>>

\* The page is handled: its link leads on.
TurnPage ==
  /\ reading = "items" /\ items = {}
  /\ IF link = {}
     THEN reading' = "done" /\ UNCHANGED url
     ELSE reading' = "page" /\ url' \in link
  /\ UNCHANGED <<config, author, net, backfill, follower, visited, items, link, imported,
                 hidden, whole, lost, mishaps>>

\* A request or its answer fails: no one resumes the import.
StopImport ==
  /\ reading \in {"page", "items"}
  /\ Mishap
  /\ reading' = "ended"
  /\ items' = {}
  /\ UNCHANGED <<config, author, net, backfill, follower, url, visited, link, imported,
                 hidden, whole, lost>>

-----------------------------------------------------------------------------
BackfillStep == FetchBatch \/ SendItem
ImportStep == FetchPage \/ ImportItem \/ TurnPage

Next ==
  \/ Publish
  \/ \E p \in Posts : Remove(p)
  \/ \E c \in calls : Broadcast(c)
  \/ UpdateFollowerStatus \/ SpawnBackfill \/ TakeJob
  \/ BackfillStep
  \/ StopBackfill
  \/ \E l \in net : Receive(l) \/ Lose(l)
  \/ \E l \in checked : MarkCreate(l)
  \/ \E l \in marked : HandleCreate(l)
  \/ RestartFollower
  \/ StartImport
  \/ ImportStep
  \/ StopImport

Spec == Init /\ [][Next]_vars

\* The tasks run on: the loops of the code wait for nothing but the network,
\* whose timeouts are failures.
Fairness == WF_vars(BackfillStep) /\ WF_vars(ImportStep)

FairSpec == Spec /\ Fairness

-----------------------------------------------------------------------------
(* Properties.                                                             *)

Stages == {"none", "granted", "queued", "fetch", "send", "done", "ended"}

Letters == {"Create", "Delete"} \X Posts \X Nat

\* Type correctness of the tasks of backfill.rs and of what the follower's server
\* keeps: a batch is sent in stage "send" only, and no Delete is among the Creates
\* between the steps of the dedup.
TypeOK ==
  /\ {publisher, attempting, accepted, lastBatch} \subseteq BOOLEAN
  /\ latest \in 0..NumPosts
  /\ {posts, batch, processed, kept, items, skipped, hidden, whole, lost, stale, raced, unsure}
       \subseteq SUBSET Posts
  /\ calls \subseteq {"Create", "Delete"} \X Posts
  /\ net \cup checked \cup marked \subseteq Letters
  /\ \A l \in checked \cup marked : l[1] = "Create"
  /\ stage \in Stages
  /\ batch # {} <=> stage = "send"
  /\ cursor \in 0..NoCursor /\ url \in 0..NoCursor
  /\ visited \cup link \subseteq 0..NoCursor
  /\ runs \in Nat /\ mishaps \in 0..MaxMishaps
  /\ reading \in {"none", "page", "items", "done", "ended"}
  /\ created \in [Posts -> Nat] /\ imported \in [Posts -> Nat]

\* run_backfill and the broadcasts leave no gap: when a backfill is done, on_create
\* was called for every post there is, the ones published while the follow was being
\* accepted and while the batches were sent included, or a Create of it is still to
\* be sent or handled, but for posts with the timestamp of the last post of a full
\* batch and failures.
BackfillComplete ==
  stage = "done" => \A p \in posts :
    created[p] > 0 \/ p \in skipped \cup lost \/ <<"Create", p>> \in calls \/ Copies(p) # {}

\* import_remote_outbox and build_outbox_page: an import that reads all pages
\* hands over every post that was there all the time, but for posts of the
\* millisecond that borders a page and those whose on_create failed.
ImportComplete ==
  reading = "done" => \A p \in whole : imported[p] > 0 \/ p \in hidden \cup lost

\* Whatever is published or removed between the pages, no post is imported twice;
\* and of the Creates of a post that a broadcast and the runs of a backfill send,
\* with one id, the follower's server handles one, unless two were checked before
\* either was marked or the dedup failed: on_create may be called again under a race
\* during duplicate delivery, as its documentation says, and under nothing else.
OnceEach ==
  \A p \in Posts : imported[p] <= 1 /\ (p \notin raced \cup unsure => created[p] <= 1)

\* A post the author removed is gone at the follower once its Delete is handled,
\* unless a Create, a batch of the backfill or a page of the import was on its
\* way with it when the Delete was handled, the Delete was lost, or the dedup failed.
NoGhost ==
  \A p \in kept \ posts :
    \/ <<"Delete", p>> \in calls \/ <<"Delete", p, 0>> \in net
    \/ p \in stale \cup lost \cup unsure

\* Both loops come to an end: their cursors move on with every page.
WalksEnd ==
  /\ (stage = "fetch") ~> (stage \in {"done", "ended", "queued"})
  /\ (reading = "page") ~> (reading \in {"done", "ended"})
=============================================================================
