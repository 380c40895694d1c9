# Verification of k-ap

k-ap is a Rust library that gives an application an ActivityPub server: an inbox
for signed activities, handlers for them, a service with the operations of local
users on remote actors, and the delivery of activities to other servers. The
application supplies the storage (repository traits), the content
(`ApObjectHandler`, `ApContentReader`) and, if it likes, an `EventPublisher`.

This directory holds TLA+ modules of its core logic, TLC configurations that
check them on small instances, and TLAPS proofs for instances of any size.
Source paths below are relative to `src/src/`.

## Components

Every repository and handler call is an `await`. Between two awaits nothing else
happens to a task; at an await anything may. No write of the library runs in a
transaction with another one.

| Component | State | Operations | What is hard about it | What makes it correct |
|---|---|---|---|---|
| Inbound dispatch and dedup (`handlers/inbox.rs`, `activities/helpers.rs`) | processed ids, blocked domains | verify, `already_processed`, `check_guards` | concurrent and repeated deliveries, an error or restart between mark and handling | no activity handled twice, none lost by the dedup, nothing from a blocked domain |
| Inbound handlers (`activities/*.rs`) | none of their own | `receive` of twelve activity types | several calls, some fatal and some only logged | each step's error ends or does not end the handler, as the code says |
| Remote follow relationship (`service/follow.rs`, `service/lookup.rs`) | outgoing and incoming follows, blocked actors | follow, unfollow, accept, reject, remove, block, unblock, mark | two servers, each writing its half; activities out of order, lost, or crossing | both halves agree; only granted follows are accepted; a blocked actor is no follower |
| Local follows (`service/follow.rs`) | the same rows | `follow_local`, `unfollow_local` | three writes, no transaction | both rows or neither |
| Outbound delivery (`service/delivery.rs`) | spawned tasks; the application's queue | `dispatch_sends`, `send_with_retry`, `deliver_to_inbox` | failing sends, lost responses, restarts, a job that runs twice | every letter is settled, none twice, failure only after all attempts |
| Broadcasts (`service/broadcast.rs`) | none | announce, like, create, update, delete, move, ... | who receives, shared inboxes, deterministic ids | each inbox once |
| Backfill and outbox pages (`service/backfill.rs`, `handlers/outbox.rs`) | a timestamp cursor | send history to a follower, serve and import outboxes | ties at a page border, cursor cut to milliseconds | every object exactly once |
| Boosts (`activities/announce.rs`, `service/broadcast.rs`) | announces | announce, undo | the id is deterministic, the receiver's dedup is for ever | the last of boost and undo wins |
| Account migration (`activities/move_act.rs`) | rows of many followers | Move | committed before the new follows are sent | all followers move, each new follow is sent |
| Local actors and keypairs (`actors/mod.rs`) | keypair per user | lazy creation | two callers find none | one keypair for ever |
| Remote actor cache (`actors/person.rs`, `service/fetch.rs`) | cached actors | fetch, re-fetch, upsert | stale answers | a fresh answer replaces a stale one |
| Collections (`service/collections.rs`, `handlers/followers.rs`) | none | page arithmetic | the last page | pages partition the collection |
| Discovery, URL validation, construction, types, test doubles | none | reads, formatting | nothing a model would add | covered by unit tests |

How they interact: an HTTP request reaches `inbox_handler`, which (through the
activitypub_federation crate) calls the activity's `verify` and `receive`;
`receive` calls `check_guards` and then the repositories and the application's
callbacks. The service's operations write the repositories and hand activities
to `send_activity` or to a broadcast, which hand them to `dispatch_sends`, which
either spawns a task that sends, or spawns one that publishes
`DeliveryRequested` events the application queues and passes back to
`deliver_to_inbox`. The other server's inbox is where a delivered letter arrives.

## Modules

| Module | Models |
|---|---|
| `Handlers` | the awaited calls of every `receive` and of the follow operations, in their order, with what the error of each does |
| `Inbox` | requests through verify, dedup, domain check and handler; extends `Handlers` |
| `Follows` | the follow relationship on several servers and the activities between them; extends `Handlers` |
| `Delivery` | broadcasts, spawned tasks, the queue and `send_with_retry` |
| `DeliveryPromise` | what the delivery promises, without tasks, attempts and queue |
| `History` | how posts reach a new follower: backfill, outbox import and broadcasts side by side |
| `Actors` | creation of a user's keypair by concurrent callers, and a peer's cache of the actor |
| `Boosts` | boosts and their undoing, signed and delivered out of order; extends `Actors` |
| `LocalFollows` | follows between users of one server, as the repository calls they make |
| `Collections` | a remote server paging through the followers meanwhile; extends `LocalFollows` |
| `Migration` | a Move, the rows it moves and the new follows it sends |
| `InboxProofs`, `FollowsProofs`, `DeliveryProofs`, `HistoryProofs`, `BoostsProofs`, `CollectionsProofs`, `MigrationProofs` | theorems about the modules they are named for; `CollectionsProofs` is about `LocalFollows` too |
| `MCInbox`, `MCFollows`, `MCDelivery`, `MCHistory`, `MCBoosts`, `MCRelations` | values of the constants for TLC; `MCRelations` puts `Collections` and `Migration` in one run |

### Handlers

An operation is a sequence of calls. A call is `Fatal` when its error is returned
with `?`, `Logged` when the error is only logged, and a `Check` when its answer
may end the operation early with Ok. A `Guard` ends it with a bad request when what
was read does not satisfy it (the alias check of a Move), and a `Refusal` always does
(an Accept of a Follow of no local user). The order and the modes are where this code's
failures come from: `follow()` records before it sends, `unfollow()` sends before
it removes, an inbound Block logs everything. Reads in front of the first effect
are left out: their error ends the operation before it did anything. Reads between
two effects, such as `get_local_actor` and `get_remote_actor` in front of the send of
`block_actor` and `unblock_actor`, belong to the call that follows them: when they
fail that call does not happen, and when the remote actor is not found nothing is
sent and Ok is returned. Both are the failure of the send, which `Follows` counts as
a mishap. An Undo(Follow) whose object names no local user makes no
`remove_follower` and reports the actor as removed all the same
(`UndoFollowOtherCalls`); an Accept, an Announce and an Undo(Announce) have their
variants, too: 22 kinds in all. The mentions of a Create or Update are one call, though the code makes one per
tagged local user. `Inbox` and `Follows` run these sequences one call per step.

### Inbox

A request has a `stage` (idle, verify, check, mark, domain, calls), the activity
it works on and the call it makes next. `Deliver` is the arrival of a signed
activity, `Verify` is `verify`, `CheckProcessed` and `MarkProcessed` are the two
calls of `already_processed`, `CheckDomain` the rest of `check_guards`,
`CallSucceeds`, `CallFails`, `CallStops` and `CallRefuses` the calls of `receive`, and
`Finish` its return. Both errors of `already_processed` are logged and the handler goes on;
an error of `is_domain_blocked` refuses the request, after the id was marked.
`Refuse` is the end of a request in an internal error of a call: `inbox_handler`
answers Ok when the error's text contains "unknown variant", which an error of the
application may do, so both answers are possible. A bad request (`verify`,
`CallRefuses`) is always answered with an error, and so is a failed read in `verify`,
which the code turns into a bad request. `Crash` drops the requests in
flight and keeps the repositories. `AddBlockedDomain` and `RemoveBlockedDomain`
are the service's operations on the domain blocklist.

History variables: `done` counts how often each call took effect, `incidents`
names what befell an activity, `opened` is the set of requests that have seen the
domain of their sender unblocked. They appear in no guard.

Left out: HTTP signatures and JSON decoding, which come before `verify`, and
activities that `verify` refuses for good, which change nothing.

### Follows

The rows of `FollowRepository` and `BlocklistRepository` of all users, a set of
activities on their way, and tasks. A task runs one operation of the service
(`Start`) or the handler of one received activity (`Receive`) call by call, with
an action for each kind of call. `Send` puts the activity in `net`; `Lose` removes
one; `Crash` ends the tasks of a server; `CallFails` is an error of any call. The
dedup is not in this model: each activity is received at most once, which is what
`Inbox` shows except in its named cases. The application may call `unfollow` and
`unblock_actor` at any time, also of actors that are not followed or blocked.
Repositories are the application's; their
writes are taken to be atomic, durable and keyed by (user, actor), adding to be an
upsert, and updating or removing a row that is not there to do nothing, which is
an assumption about the application: the traits do not say it, and the calls rely
on it.

History variables: `saved` (ids of follows recorded), `granted` (who accepted
whom), `late` and `breached` (a follow that slipped past a block), `untold` (a
follow ended without the other server learning of it in time).

### Delivery

A letter is an activity for an inbox. `BroadcastAddressed` and
`BroadcastToFollowers` collect the inboxes and hand the letters to `Dispatch`,
which is `dispatch_sends`: with a publisher a task publishes a job per letter
(`Publish`), without one the task runs `send_with_retry` (`SendSucceeds`,
`SendFails`, `SkipLetter`) and logs its failures (`FinishTask`). `TakeJob` is a
worker of the application calling `deliver_to_inbox`, `FinishJob` its return,
`DeliverFailsEarly` its return before the first attempt. A send that fails may
have arrived, its response lost. The lengths of the delays are left out, since no
property depends on them.

The publisher and `delivery_max_attempts` are fixed in the initial state, so that
one run covers them all.

### History

`Publish` and `Remove` are the application, which stores a post and later calls
`broadcast_create` or `broadcast_delete_to_followers` (`Broadcast`); it broadcasts
a post before it removes it. `UpdateFollowerStatus` and `SpawnBackfill` are the two
ends of `accept_follower`; `FetchBatch` and `SendItem` are the loops of
`run_backfill`, started by `spawn_backfill` or, with a publisher, by a worker
(`TakeJob`). A letter carries the run of the backfill that sends it, or 0 for a
broadcast: the two may send a Create with one id at the same time. `Send` is
`send_with_retry` for either, which with `delivery_max_attempts` of zero
(`attempting`, fixed in the initial state) sends nothing and reports no failure.
`FetchPage`, `ImportItem` and `TurnPage` are `import_remote_outbox` with the pages
`outbox_handler` builds; `visited` is its set of URLs.

`Receive` is the follower's inbox, in the three steps the code awaits one by one:
`CheckCreate` is the check of `already_processed`, `MarkCreate` its mark, and
`HandleCreate` the call of `on_create`; a failure of the domain check between the last
two loses the Create as a failure of `on_create` does. Any number of Creates may be
between these steps, those of one id included. A Delete has an id of its own and
comes once, so its guards and `on_delete` are one step. `RestartFollower` ends the
requests under way and the import. Posts are numbers; `Published` gives each its
timestamp, so that posts may share one, and `CutToMillis` is what the URL of a page
does to it. Posts of one timestamp are returned in the order of their numbers.

An error of reading a batch, of preparing a send, or a restart ends the backfill
(`StopBackfill`), and a publisher's queue may run it again. An error of the import
ends it for good (`StopImport`); an error of one item is logged.

History variables: `created` and `imported` count the calls of `on_create`,
`skipped` and `hidden` are the posts at the border of a batch or page, `whole` the
posts there since the import began, `lost` and `stale` those of failed letters
and of letters in flight when their Delete was handled, `raced` those of which two
Creates were checked before either was marked, `unsure` those a check or mark of
which failed. They appear in no guard.

Left out: the filter of the import on the type of an item, the sleep between
batches, and the actor of the author, which the import fetches once.

### Actors and Boosts

`build_local_actor` reads the user and the keypair (`ReadKeypair`, one step: the two
reads have nothing between them that matters to a key) and saves a new keypair
(`SaveKeypair`) when it read none. Three callers do so: the signing of a broadcast,
and the two requests for the actor that the peer's inbox and the peer's
application cause, which `actor_handler` serves. A peer that drops the connection
ends the build that serves it, as axum drops the handler. `ReadCache`,
`DecideFresh`, `FetchActor`, `StoreFetched`, `ReadAgain` and `FetchFails` are
`get_or_refresh_remote_actor`; `UpsertRemoteActor` is the upsert at the end of
`from_json`, which replaces the row whatever its age. A keypair is named for the
caller that generated it, a profile by a number, and a copy of the actor carries
the time it was read at home, so that its age can be spoken of. The public key is
left out of the cached row: no operation of the cache looks at it.

`Boosts` adds the user, who boosts a post of the peer and takes the boost back
(`Boost`, `SendActivity`), and the peer's inbox (`Receive`, `FinishReceive`,
`HandleDoubled`). The inbox fetches one actor at a time; what requests that overlap
share after that is the dedup. Of letters with different ids only the order of
their writes matters, and letters arrive in any order, so that for them
`FinishReceive` is one step from the check to the answer. Letters of one id (the
Announces of a repeated boost, or a letter and its repetition) may pass the check
together before any of them is marked (`Twins`): one is handled at once, the others
at any later time, whatever was handled since (`HandleDoubled`). Every Announce of the post has one id, an Undo has its own and
names the Announce; `add_announce` and `remove_announce` are keyed by the id of
the Announce. Likes have the same scheme of ids and are not modelled apart.

### LocalFollows and Collections

A request has the list of repository calls it has yet to make (`todo`); `Advance`
makes one, `Fail` is its error, which ends the request. `TargetRemoves` is
`remove_follower` for a local follower. Neither operation looks at the blocklist,
in the code as here. Rows of followers keep the order in which they were added,
and `add_follower` replaces a row in its place, which is what an upsert in
a table with a serial key does; the trait leaves the order to the application.
`RemoveFollower` removes the user's one row. The rows there are at first
(`Initial`) belong to follows that both sides know.

In `Collections` the reader asks for one page after the other: `CountFollowers`
and `FetchItems` are the two reads of `collection_handler` and
`serialize_ordered_collection`, and rows may change between them and between
pages. `Width` is 2^32 for the code's cast of the offset to a `u32`: it cuts
nothing as long as the rows of a user and one page more fit a `u32`
(`CollectionsAssumption`), which `TypeOK` states. `following_handler` is the same
code.

### Migration

`CheckProcessed`, `MarkProcessed`, `CheckDomain`, `Dereference` and `Migrate` are
`MoveActivity::receive`, for several deliveries of several Moves with ids of their
own; `SendRefollow` is the loop of the spawned task. A Move from a blocked domain is
marked and answered Ok, and nothing is moved (`dropped`); `SetBarred` blocks and
unblocks the domain. `migrate_follower_actor` belongs to the application: `MoveRows`
does what its comment says, moving the rows of the old account in one step, and
`Migrated` are the users it returns; where the application keeps the default
implementation (`migrates` is FALSE, fixed in the initial state), no row is moved and
the Move is answered Ok. Around it, `SendUndo` and `RemoveFollowing` are
`unfollow`, and `Receive` and `Reject` the other server, where follows are
accepted at once. `MoveRows` and `Migrated` take only rows of the old account,
so that a repeated Move finds none.

## Runs

| Run | Shows |
|---|---|
| `inbox` | all 22 kinds of handler, two requests at a time, three deliveries, two errors, one restart, two blocklist changes: `AtMostOnce`, `NothingLostWithoutIncident`, `NoEffectFromBlockedDomain` |
| `inbox_fair` | a sender that keeps delivering is answered Ok at last: `EventuallyAcknowledged` |
| `inbox_retry` | counterexample: an activity whose handler failed is never handled |
| `follows_decide` | alice follows and unfollows bob, who accepts, rejects, removes or marks, in four operations and with one mishap: `AcceptAnswersSavedFollow`, `AcceptedWasGranted`, `SettledAgreement` |
| `follows_block` | blocks from either side that race a follow, three tasks: `BlockedIsNoFollower`, `SettledAgreement` |
| `follows_fair` | a follow of a willing user is accepted at last: `FollowIsAccepted` |
| `actor_removed` | counterexample: an actor follows two users of a server, both record it, it unfollows one, and the handler of the Undo reports it as removed while the other still has it as a follower |
| `unblock_order` | counterexample: a block that was set is lifted before any Undo(Block) for it is handed over |
| `delivery` | one broadcast to two inboxes, two workers, no or two attempts, two mishaps: `NoneForgotten`, `NoneTwice`, `GivenUpAfterAllAttempts`, and that `Delivery` implements `DeliveryPromise` |
| `history` | a new follower's backfill and import while posts are published and removed, or an import alone whose pages end within a millisecond: `BackfillComplete`, `ImportComplete`, `OnceEach`, `NoGhost`, and that both loops end (`WalksEnd`) |
| `boosts` | four boosts and undos, or one with edits of the profile and time: `SignedWithServedKey`, `BoostsAgree`, `CacheFreshEnough` |
| `relations` | either local follows and a walk through the followers, `SidesAgree`, `WalkComplete`, `NoneListedTwice`; or a Move, `FollowersAgree`, `RefollowedOnce`, `MoveTakesEffect` |

### Bounds and why they are enough

- `Inbox`: the interleavings that matter are between two requests for one
  activity; a third adds no new pair. Three deliveries leave one after an overlap
  of two; two errors make a failed check and a failed mark meet. `inbox_fair` has
  five deliveries, two errors and no restart, so that deliveries outlast errors.
  Requests for different activities share only the domain blocklist. The theorems
  hold for every number of activities and requests.
- `Follows`: one follower and one followed user, since rows are keyed by the pair
  and no operation touches two pairs; `actor_removed` has a third user because its
  property relates two pairs. Four operations allow follow, unfollow, follow and
  one answer to cross. In `follows_block` three tasks let an inbound Follow, an
  inbound Block and an operation of the user overlap.
- `Delivery`: two inboxes let one be dead while the other is alive. The tasks of
  two activities share nothing but the workers, so one activity is enough. Two
  attempts are the least with a retry; zero attempts is the boundary case. One
  audience lists an inbox twice, the other holds a stored inbox that is no URL.
- `History`: five posts with timestamps 0, 2, 2, 3, 3 in batches and pages of two, and
  a millisecond of two units. A behaviour is of one of two cases (`scene`). Where
  both walks are made, the fifth post is not published and one post may be
  removed: a full batch, a last one and a border between the two posts of timestamp
  2. One mishap; a second run of a backfill repeats everything and lets two Creates of
  one id meet. The import begins only where nothing failed, no publisher is
  configured and attempts are made, which keeps the walks from multiplying. Where
  only the import walks, three posts may be removed and one mishap happens, and
  nothing is broadcast to the follower once it was accepted. The page of posts 4
  and 5 ends at 3, which its link cuts to 2, so that posts 2 and 3, at 2, are not older
  than the cursor: the cut alone hides them. A page of posts 3 and 4 ends between the
  posts of timestamp 2.
- `Boosts`: four operations are boost, undo, boost, undo, enough for an Undo to
  overtake the Announce after it or before it. The age of cached rows depends on
  time and not on boosts, so the second budget has one boost, two edits and four
  ticks, with a TTL of two and a timeout of one.
- `Collections`: pages of two and four users, so that the walk has two pages and a
  row added behind it; two requests of one user overlap.
- `Migration`: two users, who are interchangeable (symmetry), and one failure. Where
  users leave or are rejected meanwhile, one Move is delivered twice or two Moves
  once each, from a domain nobody blocks. Where they stay, all three deliveries come,
  the domain is blocked and unblocked, and the application may keep the default
  `migrate_follower_actor`. The theorems have neither restriction.

`Collections` and `Migration` share no state; a variable `scene` fixes in the
initial state which of them, and which of the two cases of `Migration`, a behaviour is
about.

Deadlock is not checked: the bounds on deliveries, operations and mishaps let
every instance stop.

### Fairness

- `Inbox`: every request runs on, weakly fair, because tokio polls a ready task
  and every call returns; a sender that was not answered Ok delivers again while
  it has deliveries left. Nothing makes an error, a restart or a blocklist change
  happen or not happen, except their bounds; `inbox_fair` has more deliveries than
  errors and no restart.
- `Follows`: tasks run on, the network delivers, and a user who sees a pending
  follower accepts it, strongly fair, since the follower may be pending on and off
  while it follows and unfollows. The last is the premise of the property, not a
  claim about the code. No mishaps: nothing in the code re-sends what was lost.
- `Delivery`: tasks and workers run on and every job is taken by some worker,
  strongly fair, because the worker may be busy with other jobs in between. A
  restart is never forced.
- `History`: the backfill and the import run on, weakly fair, because their loops
  wait for nothing but the network and the database, whose timeouts are errors.
  No fairness for the workers, the network or the application.

## Proofs

`InboxProofs` proves, for any finite or infinite sets of activities, domains and
requests and any bounds (`InboxAssumption` only types them):

- `TypeCorrect`: the types.
- `AtMostOnceHolds`: with `DedupInv(a)`, inductive together with the types. While
  nothing weakened the dedup of `a`, at most one request has been admitted, that
  is, is past `is_activity_processed` with a negative answer; if `a` is not marked
  yet, no call took effect; once it is, nobody can be admitted any more; and a
  call at or after the admitted request's next one has not taken effect. The
  property alone is not inductive: it says nothing about who may still act.
- `NothingLostHolds`: with `KeptInv(a)`. While nothing lost `a`, an activity that
  is marked or was answered Ok has all its calls done or a request handling it,
  and that request has done the calls before its next one. It needs `FirstCall`
  (a request not at its calls is before the first).
- `BlockedDomainHolds`: an action property, about the very request whose call takes
  effect, from `OpenInv`: a request at its calls, or one whose domain is not blocked
  now, has seen it unblocked.

`FollowsProofs` proves, for any users, servers, scripts of operations, tasks and
bounds, with the mishaps, losses and restarts of the model (`FollowsAssumption`
types the constants and says that an operation joins users of two servers):

- `TypeCorrect`: the types, and that an idle task is at its first call.
- `AcceptAnswersSavedFollowHolds`: with `SavedInv`, which follows the id of a
  follow along its way. Every Follow in the network, row of a follower and task
  that handles a Follow or accepts one carries an id the follower's server saved.
  It rests on `follow()` adding the row before it sends.
- `AcceptedWasGrantedHolds`: with `GrantedInv`. Besides the rows, an Accept in the
  network, a task handling one and an `accept_follower` past its write are about
  a granted follow.
- `BlockedIsNoFollowerHolds`: with `BlockInv`. A Follow that is past the block check
  while its sender is blocked is noted in `late`, and a Block that has removed the
  follower and not yet added the block leaves no follower, or a breach. Without
  these two parts the property is not inductive, as it says nothing about a
  task between its check and its write. The code does not exclude the breaches;
  the theorem says that they are all there are.
- `SettledAgreementHolds`: with `IdsFresh` and `OutcomeAt(u, v)`. The property speaks of
  two users at rest and cannot be inductive, so `OutcomeAt` says where a single follow
  is meanwhile. Its Follow is in one place, and until that has added the follower no
  answer is on its way. What is about to remove the follower came after the follow
  was recorded and ends it on the follower's server too, or has ended it. An Accept
  is on its way or applied only while the follow is ending or the follower is
  accepted. `IdsFresh` says that a follow yet to be recorded has an id of its own: a
  second one is then noticed in `saved`, which the property counts.

The lemmas about the call tables (`StepsNamed`, `StepsPlaced`, `BlockSteps`) say once
which call belongs to which operation and at which place, so that the steps of the
proofs can go by the name of a call.

`DeliveryProofs` proves, for any activities, inboxes, audiences, workers and limits
(`DeliveryAssumption` types the constants; `DistinctInboxes` says that a broadcast
lists no inbox twice, which `follower_reader.rs:24` asks of the repository and
`merge_inboxes` keeps. That `Distinct` removes every duplicate is an induction over
a sequence, out of reach here; TLC evaluates it for the audiences of `delivery`):

- `TypeCorrect`: the types, with `Types`, which adds that no two workers have the
  same job.
- `NoneForgottenHolds`: with `HoldInv` and `ForgetInv`. A task holds letters of its own
  activity only, and a worker that has sent its job and not yet returned knows that
  it arrived, failed or was lost. The property says nothing about a worker, and
  the end of a job would break it.
- `NoneTwiceHolds`: with `OnceInv`. What is yet to be published, queued or sent has not
  arrived, every letter is held in one place, and a job that was sent is one a
  worker is about to end.
- `GivenUpAfterAllAttemptsHolds`: with `TriedInv`, which ties the number of an attempt
  to the attempts made and says that a failure not yet reported was tried enough.
- `StepsKeepPromise`: the safety part of the refinement, with `KeepInv`: what a task
  holds is neither lost nor given up, and a job of the queue can be lost only when
  no attempts are configured. Each action is one step of `DeliveryPromise` or a
  stutter; its fairness stays with TLC (`KeepsPromise`).

`HistoryProofs` proves, for any posts, timestamps, sizes of a batch and of a page and
any number of mishaps (`HistoryAssumption` types the constants):

- `TypeCorrect`: the types, with the batch and the page as they were read.
- `BackfillCompleteHolds`: with `MarkedInv` and `BackfillInv`. A post the backfill has not
  dealt with (`Dealt`) is in its batch, or older than its cursor while another batch
  is to come. The property is about the end only and says nothing about the
  cursor. `MarkedInv` says that a Create whose id is marked was handed to `on_create`,
  failed, or is between the two, so that a copy found to be a duplicate is no loss.
- `ImportCompleteHolds`: with `ImportInv`, the same for the pages of an import, and
  `PagesDescend`: pages begin at older and older times.
- `NoPageTwice`: from `PagesDescend`, that the set of URLs the import keeps never ends a
  walk through the pages of `outbox_handler`. It is there for other servers.
- `OnceEachHolds`: with `OnceInv` and `CreateInv(p)`. What was imported is above the page
  that is read and above the link it carries, so no later page can bring it again.
  While no two Creates of a post were checked before a mark and its dedup did not
  fail, at most one of them is between the check and `on_create`, not yet marked
  before the mark and marked after it, and none once `on_create` was called.
- `NoGhostHolds`: with `GhostInv`. For every removed post the Delete is still to come, or a
  copy was on its way when it was handled, or a letter of it or its dedup failed, or
  no copy is left anywhere. What makes
  it inductive is that a Create is broadcast only of a post that is there.

That a page has an oldest post (`LeastExists`) follows from the well-founded order of
the natural numbers, which needs no induction over the size of a set.

`BoostsProofs` proves, for any bounds, TTL and timeout (`ActorsAssumption` types the
last two):

- `TypeCorrect`: the types, with `KeysKnown` and `LettersTyped`: a call that sends holds a
  key its build left, and a letter has the number of an operation.
- `SignedWithServedKeyHolds`: with `OneKey`. While no keypair was saved over
  another, every actor that is built holds the stored key, every letter is signed
  with it, and none was refused. The property alone does not say which keys the
  builds and letters under way hold.
- `CacheFreshEnoughHolds`: an action property, from `FreshInv`: the peer never waits
  longer for an actor than the timeout of its request, so no row is older than
  that when it is stored, and no time passes between the end of a re-fetch and
  the second reading of the row.
- `BoostsAgreeHolds`: with `Numbered` and `AgreeInv`. While no letter was lost, the first
  Announce and the last Undo are handled or on their way; and while a boost that was
  taken back counts, its Undo was not handled, unless an Announce was handled after
  an Undo sent later. `Numbered` says that operations alternate and that a letter past
  the check, a twin included, has an id that is marked. The property is about
  states with no letter under way and cannot be inductive.

`CollectionsProofs` proves, for any users, requests and sizes of a page
(`LocalFollowsAssumption`: finitely many users, at first a row each at most, and every
request a follow or an unfollow; `CollectionsAssumption`: the rows and a page fit
the type of the offset):

- `TypeCorrect`: the types, with `Rows`: a table has no more rows than there are users, and
  its operations keep one row per user.
- `SidesAgreeHolds`: with `AloneInv`. Of a user whose last request runs alone at most one
  request is under way, and the two tables hold what the calls it has made leave
  behind; without a request they agree. The property does not speak of a request
  that is half done.
- `WalkCompleteHolds`: with `StillThere`. A row that stays where it is and was not listed is
  behind the offset of the page to come, and was among the rows counted for it,
  so that `has_next` leads to it. `RowsMove` says once what every change does to the
  places of rows.
- `NoneListedTwiceHolds`: with `ListedAbove`. A row that was listed and not added anew is
  before the offset: removals move rows up, nothing moves one down.

`MigrationProofs` proves, for any users, Moves, deliveries and failures
(`MigrationAssumption` says that a delivery is of a Move):

- `RefollowedOnceHolds`: with `OnceInv`. A user whose row is yet to be moved was sent
  no re-follow and awaits none; one who awaits one awaits it from a single task.
- `MoveTakesEffectHolds`: with `EffectInv`. Where the application moves follows, a
  delivery answered Ok was a duplicate, found its domain blocked or has moved every
  row; and a marked Move of which none failed or was dropped is past the guards of
  some delivery until every row is moved.
- `FollowersAgreeHolds`: with `AgreeInv(u)`, which says for each user what is under
  way while the two sides differ: a Follow, an unfollow that has yet to remove its
  row, an Undo or a Reject, and that nothing that undoes a follow meets a Follow.
  The property is about states at rest only and cannot be inductive.
- `TypeCorrect`: the types.

Every safety invariant and action property that a passing run checks is stated by a
theorem. Only model-checked: that the delivery settles every letter, and all
liveness (`EventuallyAcknowledged`, `FollowIsAccepted`, `WalksEnd`, the fairness of
`DeliveryPromise`), which is out of reach of the provers used here. Of the refinement
of `DeliveryPromise` the initial states and the steps are proved.

## Where code and documentation disagree

1. `already_processed` marks an activity before it is handled. A handler error is
   answered with a 500, and the retry that `content.rs:54-55` relies on is answered
   Ok as a duplicate without being handled (`inbox_retry`). A restart after the
   mark has the same effect, which `NothingLostWithoutIncident` names.
2. Every Undo(Follow) reports the actor as removed, while `content.rs:89` speaks of an
   actor who "has unfollowed all local users" (`actor_removed`). The run follows an
   actor who has two recorded follows of users of a server and takes one back.
3. `unblock_actor` removes the block before it sends the Undo(Block);
   `CHANGELOG.md:104` has it the other way round (`unblock_order`). The run lifts a
   block that `block_actor` has set.

`content.rs:58-59` agrees with the code: `on_create` may be called twice under a race of
duplicate deliveries. `AtMostOnce` and `OnceEach` say that such a race, or a failure of
the check or the mark, is the only way.

Places where a comment says something else than the code, met while modelling, that
no run is spent on because one reading of the two lines shows it:

- `service/backfill.rs:160` says "oldest-to-newest"; the batches and the posts in
  them are sent newest first. `SendItem` follows the code.
- `repository/types.rs:31` says that an actor without `fetched_at` is "treated as
  always-fresh"; `service/fetch.rs` takes it for stale, as `CHANGELOG.md:76` says.
  `IsFresh` follows the code, and its mutant the comment.
- `service/fetch.rs:26` says "Returns `None` if the actor has never been seen"; such
  an actor is fetched, and `None` is the answer only when that fails.
- `content.rs:28` asks of a page "no duplicates, no gaps"; a cursor that is a
  timestamp leaves a gap where posts share one (`skipped`, `hidden`).
- `activities/undo.rs:133` wants "announce counts [to] stay accurate"; a boost that is
  repeated after its Undo is not counted again, because its id is known to the
  dedup (`operations > 1` in `BoostsAgree`).

## Not modelled, and why

Discovery endpoints, URL and address validation, construction and type
definitions have no state of their own; the test doubles are not part of a running
server. Of the modelled parts, the wording of `to` and `cc`, mentions, likes,
updates and the featured collection are left out or are calls without content:
no property here tells their data apart. HTTP, JSON, signatures and the storage
itself belong to other crates or to the application.

Three hazards have no property. `reject_follower` may remove a Follow that arrives
between its two calls, and an Undo(Follow) may remove a newer Follow: both leave a
follow pending for ever, and nothing in the repository promises otherwise. An
Undo(Block) clears a block the local user may have set: the repository keeps one
entry for both and records no owner a property could name. An Add that is sent again
after its Undo is dropped, because its receivers know its id, as a repeated boost is;
only the boost is modelled.

## Plan

No invariant of a run is left to prove. What could follow: a property for the reject
and undo hazards, once the repository says what it promises about a follow that
meets its own end; and likes and the featured collection, when a property tells their
data apart.
