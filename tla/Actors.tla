------------------------------- MODULE Actors -------------------------------
(***************************************************************************)
(* A user's actor at two servers: at home build_local_actor builds it,     *)
(* creating its keypair on first need, to sign activities and to serve     *)
(* actor_handler; a peer fetches it, to verify a signature or because      *)
(* get_or_refresh_remote_actor finds its cached copy stale, and from_json  *)
(* stores every copy in the cache.  A caller is a place where one such     *)
(* build is under way: "sign" at home, "inbox" and "app" for the two       *)
(* fetches of the peer, each of which has actor_handler build the actor.   *)
(*                                                                         *)
(* A keypair is named for the caller that generated it: it generates none  *)
(* once one is stored.  Profiles are numbered as they are edited; a copy   *)
(* says when its profile was read.  Module Boosts drives these actions     *)
(* with the activities the user sends.                                     *)
(***************************************************************************)
EXTENDS Naturals, FiniteSets

CONSTANTS
  Ttl,         \* actor_cache_ttl
  Timeout      \* of an HTTP request

ASSUME ActorsAssumption == Ttl \in Nat /\ Timeout \in Nat

Callers == {"sign", "inbox", "app"}

VARIABLES
  keypair,     \* the stored keypair: the caller it was generated for, or "none"
  profile,     \* the user's profile, as find_by_id returns it
  clock,
  build,       \* build_local_actor for each caller: stage, key, profile, time it was read
  cache,       \* the peer's row of the actor, if any
  lookup,      \* stage of get_or_refresh_remote_actor, or how the last one ended
  held,        \* the row it holds or returned
  raced        \* a keypair was saved over another one (history)

actors == <<keypair, profile, clock, build, cache, lookup, held, raced>>

Idle == [stage |-> "idle", key |-> "none", profile |-> 0, read |-> 0]

Building(c) == build[c].stage # "idle"

\* The first copy the peer may hold has no time of fetching, as follow_local's
\* rows and the placeholders have none.
InitActors ==
  /\ keypair = "none" /\ profile = 1 /\ clock = 0
  /\ build = [c \in Callers |-> Idle]
  /\ cache \in {{}, {[profile |-> 1, read |-> 0, fetched |-> {}]}}
  /\ lookup = "none" /\ held = {}
  /\ raced = FALSE

-----------------------------------------------------------------------------
(* build_local_actor.                                                      *)

\* The user and the stored keypair are read: without one, one is generated.
ReadKeypair(c) ==
  /\ ~Building(c)
  /\ build' = [build EXCEPT ![c] =
       [stage |-> IF keypair = "none" THEN "save" ELSE "built",
        key |-> IF keypair = "none" THEN c ELSE keypair,
        profile |-> profile, read |-> clock]]
  /\ UNCHANGED <<keypair, raced>>

\* Mutant: the generated keypair is used and not saved.
SaveKeypairNot(c) ==
  /\ build[c].stage = "save"
  /\ build' = [build EXCEPT ![c].stage = "built"]
  /\ UNCHANGED <<keypair, profile, clock, cache, lookup, held, raced>>

SaveKeypair(c) ==
  /\ build[c].stage = "save"
  /\ keypair' = build[c].key
  /\ raced' = (raced \/ keypair # "none")
  /\ build' = [build EXCEPT ![c].stage = "built"]
  /\ UNCHANGED <<profile, clock, cache, lookup, held>>

EndBuild(c) == build' = [build EXCEPT ![c] = Idle]

-----------------------------------------------------------------------------
(* The peer.                                                               *)

\* The document actor_handler answers with.
Document(c) == [key |-> build[c].key, profile |-> build[c].profile, read |-> build[c].read]

\* The row of a document that arrives now.
FromApPerson(doc) == [profile |-> doc.profile, read |-> doc.read, fetched |-> {clock}]

\* from_json stores it.
UpsertRemoteActor(c) == cache' = {FromApPerson(Document(c))}

\* Mutant: a row whose time of fetching is unknown is fresh,
\* as the comment on RemoteActor::fetched_at has it.
IsFreshIfUnknown(row) == \A t \in row.fetched : clock - t < Ttl

\* A row whose time of fetching is unknown is stale.
IsFresh(row) == \E t \in row.fetched : clock - t < Ttl

LookingUp == lookup \in {"decide", "fetch", "again"}

\* get_or_refresh_remote_actor reads the row, ...
ReadCache ==
  /\ ~LookingUp
  /\ lookup' = "decide"
  /\ held' = cache
  /\ UNCHANGED <<keypair, profile, clock, build, cache, raced>>

\* ... returns it while it is fresh, ...
DecideFresh ==
  /\ lookup = "decide"
  /\ lookup' = IF \E row \in held : IsFresh(row) THEN "fresh" ELSE "fetch"
  /\ UNCHANGED <<keypair, profile, clock, build, cache, held, raced>>

\* ... fetches the actor otherwise, which the home server builds, ...
FetchActor ==
  /\ lookup = "fetch"
  /\ ReadKeypair("app")
  /\ UNCHANGED <<profile, clock, cache, lookup, held>>

\* ... and reads the row again when the copy is stored, ...
StoreFetched ==
  /\ lookup = "fetch" /\ build["app"].stage = "built"
  /\ UpsertRemoteActor("app")
  /\ EndBuild("app")
  /\ lookup' = "again"
  /\ UNCHANGED <<keypair, profile, clock, held, raced>>

ReadAgain ==
  /\ lookup = "again"
  /\ lookup' = "refetched"
  /\ held' = cache
  /\ UNCHANGED <<keypair, profile, clock, build, cache, raced>>

\* ... or falls back on the row it read, when the request fails or times out.
FetchFails ==
  /\ lookup = "fetch"
  /\ EndBuild("app")
  /\ lookup' = "stale"
  /\ UNCHANGED <<keypair, profile, clock, cache, held, raced>>

-----------------------------------------------------------------------------
EditProfile ==
  /\ profile' = profile + 1
  /\ UNCHANGED <<keypair, clock, build, cache, lookup, held, raced>>

\* Time passes: not beyond the timeout of a request, and the reads of the
\* database take none.
Tick ==
  /\ lookup \notin {"decide", "again"}
  /\ \A c \in {"inbox", "app"} : Building(c) => clock - build[c].read < Timeout
  /\ clock' = clock + 1
  /\ UNCHANGED <<keypair, profile, build, cache, lookup, held, raced>>

-----------------------------------------------------------------------------
(* Properties.                                                             *)

\* What get_or_refresh_remote_actor returns is not too old: a row taken for fresh
\* was the actor's less than the TTL and a request's time ago, and one returned
\* after a re-fetch at most a request's time ago, even when another fetch stored
\* an older answer in between; only a failed re-fetch returns anything older.
FreshEnough ==
  /\ \A row \in held' : lookup = "decide" /\ lookup' = "fresh" => clock - row.read < Ttl + Timeout
  /\ \A row \in held' : lookup = "again" /\ lookup' = "refetched" => clock - row.read <= Timeout
=============================================================================
