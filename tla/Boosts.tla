------------------------------- MODULE Boosts -------------------------------
(***************************************************************************)
(* A user boosts a post of the peer server and takes the boost back, again *)
(* and again: broadcast_announce_to_followers and its undo build the       *)
(* actor, sign and hand the letter to a delivery of its own, so that the   *)
(* letters arrive in any order; the peer's inbox fetches the actor,        *)
(* verifies the signature and handles the activity.  Every Announce of the *)
(* post has the same, deterministic id, which the peer's dedup knows for   *)
(* ever; every Undo has an id of its own and names the Announce.           *)
(***************************************************************************)
EXTENDS Actors

CONSTANTS
  Budgets,     \* the bounds of a behaviour: records of boosts, edits and ticks
  MaxMishaps   \* letters lost or delivered again

VARIABLES
  budget,
  operations,  \* boosts and undone boosts so far
  calling,     \* the one being sent: "none", "Announce" or "Undo"
  boosted,     \* the user's application: the post is boosted
  net,         \* letters on their way: kind, number and signing key
  handling,    \* the letter whose actor the peer's inbox fetches
  doubled,     \* letters past the peer's dedup beside another one of their id
  processed,   \* ids the peer's dedup knows: "announce" and the numbers of Undos
  counted,     \* the peer has a row for the boost
  refused,     \* letters refused for their signature (history)
  overtaken,   \* an Announce was handled after an Undo sent later (history)
  lost,        \* a letter was lost (history)
  mishaps

letters == <<net, handling, doubled, processed, counted, refused, overtaken, lost, mishaps>>
user == <<budget, operations, calling, boosted>>
vars == <<actors, user, letters>>

InitBoosts ==
  /\ budget \in Budgets
  /\ operations = 0 /\ calling = "none" /\ boosted = FALSE
  /\ net = {} /\ handling = {} /\ doubled = {} /\ processed = {} /\ counted = FALSE
  /\ refused = {} /\ overtaken = FALSE /\ lost = FALSE
  /\ mishaps = 0

Init == InitActors /\ InitBoosts

Mishap == mishaps < MaxMishaps /\ mishaps' = mishaps + 1

-----------------------------------------------------------------------------
(* The user's server.                                                      *)

\* The application boosts the post or takes the boost back, one call at a time.
Boost ==
  /\ calling = "none"
  /\ operations < budget.boosts
  /\ operations' = operations + 1
  /\ boosted' = ~boosted
  /\ calling' = IF boosted' THEN "Announce" ELSE "Undo"
  /\ ReadKeypair("sign")
  /\ UNCHANGED <<profile, clock, cache, lookup, held, budget, letters>>

\* Mutant: the call goes on after the hand-over.
SendActivityGoesOn ==
  /\ build["sign"].stage = "built"
  /\ net' = net \cup {[kind |-> calling, n |-> operations, key |-> build["sign"].key]}
  /\ EndBuild("sign")
  /\ UNCHANGED <<keypair, profile, clock, cache, lookup, held, raced, user, handling, doubled,
                 processed, counted, refused, overtaken, lost, mishaps>>

\* The actor is built: the letter is signed with the key it holds and handed over.
SendActivity ==
  /\ build["sign"].stage = "built"
  /\ net' = net \cup {[kind |-> calling, n |-> operations, key |-> build["sign"].key]}
  /\ calling' = "none"
  /\ EndBuild("sign")
  /\ UNCHANGED <<keypair, profile, clock, cache, lookup, held, raced, budget,
                 operations, boosted, handling, doubled, processed, counted, refused, overtaken, lost,
                 mishaps>>

-----------------------------------------------------------------------------
(* The peer.                                                               *)

\* The inbox receives a letter and fetches its actor.
Receive(l) ==
  /\ handling = {}
  /\ handling' = {l}
  /\ ReadKeypair("inbox")
  /\ UNCHANGED <<profile, clock, cache, lookup, held, user, net, doubled, processed, counted, refused,
                 overtaken, lost, mishaps>>

\* deterministic_activity_id of an Announce; the activity_url of an Undo.
ActivityId(l) == IF l.kind = "Announce" THEN 0 ELSE l.n

\* The row of the boost is there once, for the id of the Announce, ...
AddAnnounce == counted' = TRUE

\* Mutant: remove_announce finds no row.
RemoveAnnounceNot == UNCHANGED counted

\* ... and the Undo names that id.
RemoveAnnounce == counted' = FALSE

\* An Announce is handled after an Undo that was sent later.
Overtaken(l) == l.kind = "Announce" /\ \E n \in processed : n > l.n

\* The activity takes effect.
Handle(l) ==
  /\ IF l.kind = "Announce" THEN AddAnnounce ELSE RemoveAnnounce
  /\ overtaken' = (overtaken \/ Overtaken(l))

\* Letters that pass the check of already_processed together with this one, before
\* either of them is marked: those of its id, a repetition of its own included.
Twins(l) ==
  IF ActivityId(l) \in processed
  THEN {} ELSE {x \in net : ActivityId(x) = ActivityId(l) /\ x.key = l.key}

\* The actor has arrived and is stored: the letter is verified against its key
\* and handled, unless its id is known.  The answer may be lost or late: the sender
\* sends the letter again, as it does when it is refused.
FinishReceive(l) ==
  /\ build["inbox"].stage = "built"
  /\ UpsertRemoteActor("inbox")
  /\ EndBuild("inbox")
  /\ handling' = {}
  /\ IF l.key # Document("inbox").key
     THEN /\ refused' = refused \cup {l}
          /\ UNCHANGED <<net, doubled, processed, counted, overtaken, mishaps>>
     ELSE /\ \E again \in SUBSET Twins(l) :
               /\ doubled' = doubled \cup again
               /\ \/ l \notin again /\ net' = net \ (again \cup {l}) /\ UNCHANGED mishaps
                  \/ Mishap /\ net' = net \ again
          /\ UNCHANGED refused
          /\ processed' = processed \cup {ActivityId(l)}
          /\ IF ActivityId(l) \in processed THEN UNCHANGED <<counted, overtaken>> ELSE Handle(l)
  /\ UNCHANGED <<keypair, profile, clock, lookup, held, raced, user, lost>>

\* A letter past the check is handled, whatever was handled since.
HandleDoubled(l) ==
  /\ doubled' = doubled \ {l}
  /\ Handle(l)
  /\ UNCHANGED <<actors, user, net, handling, processed, refused, lost, mishaps>>

\* The request for the actor fails: the letter is refused and sent again.
FetchForInboxFails ==
  /\ handling # {}
  /\ EndBuild("inbox")
  /\ handling' = {}
  /\ UNCHANGED <<keypair, profile, clock, cache, lookup, held, raced, user, net, doubled,
                 processed, counted, refused, overtaken, lost, mishaps>>

\* The delivery gives up on a letter: on one that is refused again and again, or
\* for a mishap.
GiveUp(l) ==
  /\ l \notin handling
  /\ \/ l \in refused /\ UNCHANGED mishaps
     \/ Mishap
  /\ net' = net \ {l}
  /\ lost' = TRUE
  /\ UNCHANGED <<actors, user, handling, doubled, processed, counted, refused, overtaken>>

-----------------------------------------------------------------------------
ActorsStep ==
  \/ \E c \in Callers : SaveKeypair(c)
  \/ ReadCache \/ DecideFresh \/ FetchActor \/ StoreFetched \/ ReadAgain \/ FetchFails
  \/ (profile <= budget.edits /\ EditProfile)
  \/ (clock < budget.ticks /\ Tick)

Next ==
  \/ (ActorsStep /\ UNCHANGED <<user, letters>>)
  \/ Boost
  \/ SendActivity
  \/ \E l \in net : Receive(l) \/ GiveUp(l)
  \/ \E l \in handling : FinishReceive(l)
  \/ \E l \in doubled : HandleDoubled(l)
  \/ FetchForInboxFails

Spec == Init /\ [][Next]_vars

-----------------------------------------------------------------------------
(* Properties.                                                             *)

\* Type correctness of the keypairs, the cache and the letters: a built
\* actor has a key, and only a call that is under way builds one to sign with.
TypeOK ==
  /\ keypair \in {"none"} \cup Callers
  /\ {profile, clock, operations, mishaps} \subseteq Nat
  /\ \A c \in Callers : build[c].stage \in {"save", "built"} => build[c].key \in Callers
  /\ Cardinality(cache) <= 1 /\ Cardinality(held) <= 1 /\ Cardinality(handling) <= 1
  /\ calling \in {"none", "Announce", "Undo"}
  /\ calling = "none" <=> ~Building("sign")
  /\ net \cup handling \cup doubled \cup refused \subseteq
       [kind : {"Announce", "Undo"}, n : 1..operations, key : Callers]
  /\ processed \subseteq 0..operations
  /\ {boosted, counted, overtaken, lost, raced} \subseteq BOOLEAN

\* A signature is refused only when two callers of build_local_actor found no
\* keypair and one saved its own over the other's, either of which may be the
\* serving of the actor to the very server that verifies.
SignedWithServedKey == refused # {} => raced

\* When all letters have arrived and are handled, the peer counts the boost as the
\* user left it: a boost taken back is not counted unless its Announce was handled
\* after an Undo sent later, as letters overtake one another on their way or, when
\* they have one id, between the peer's dedup and its handler; and a boost is counted
\* unless it was taken back before: the dedup drops the Announce of a boost that is
\* repeated.
BoostsAgree ==
  (calling = "none" /\ net = {} /\ doubled = {} /\ ~lost) =>
    /\ counted => boosted \/ overtaken
    /\ boosted => counted \/ operations > 1

\* The property of Actors for the steps of this module.
CacheFreshEnough == [][FreshEnough]_vars
=============================================================================
