---------------------------- MODULE BoostsProofs ----------------------------
(***************************************************************************)
(* Proofs about Actors under the steps of Boosts, for any bounds, TTL and  *)
(* timeout: a signature is refused only after two keypairs raced, and what *)
(* the cache returns is fresh enough.                                      *)
(***************************************************************************)
EXTENDS Boosts, FiniteSetTheorems, TLAPS

Rows == [profile : Nat, read : Nat, fetched : SUBSET Nat]

Builds == [stage : {"idle", "save", "built"}, key : {"none"} \cup Callers,
           profile : Nat, read : Nat]

BuildTypes ==
  /\ build \in [Callers -> Builds]
  /\ \A c \in Callers : build[c].stage = "save" => build[c].key = c

\* The types the proofs need.
Types ==
  /\ keypair \in {"none"} \cup Callers
  /\ profile \in Nat /\ clock \in Nat
  /\ BuildTypes
  /\ cache \subseteq Rows /\ held \subseteq Rows

LEMMA CallersNamed == "sign" \in Callers /\ "inbox" \in Callers /\ "app" \in Callers
BY DEF Callers

-----------------------------------------------------------------------------
(* Types.  First what the operators shared by the actions do.              *)

LEMMA ReadKeypairTypes ==
  ASSUME Types, NEW c \in Callers, ReadKeypair(c)
  PROVE  BuildTypes' /\ keypair' = keypair
BY DEF Types, BuildTypes, ReadKeypair, Builds, Callers

LEMMA EndBuildTypes ==
  ASSUME Types, NEW c \in Callers, EndBuild(c)
  PROVE  BuildTypes'
BY DEF Types, BuildTypes, EndBuild, Builds, Idle

LEMMA UpsertTypes ==
  ASSUME Types, NEW c \in Callers, UpsertRemoteActor(c)
  PROVE  cache' \subseteq Rows
BY DEF Types, BuildTypes, UpsertRemoteActor, FromApPerson, Document, Rows, Builds

LEMMA TypesInitially == Init => Types
BY DEF Init, InitActors, Types, BuildTypes, Idle, Builds, Rows

LEMMA TypesKept == Types /\ [Next]_vars => Types'
<1>. SUFFICES ASSUME Types, [Next]_vars PROVE Types'
  OBVIOUS
<1>. USE CallersNamed
<1>1. ASSUME NEW c \in Callers, SaveKeypair(c) PROVE Types'
  <2>1. build' = [build EXCEPT ![c].stage = "built"]
    BY <1>1 DEF SaveKeypair
  <2>2. BuildTypes'
    BY <2>1 DEF Types, BuildTypes, Builds
  <2>3. keypair' \in Callers
    BY <1>1 DEF SaveKeypair, Types, BuildTypes, Builds
  <2>. QED
    BY <1>1, <2>2, <2>3 DEF SaveKeypair, Types, BuildTypes
<1>2. CASE ReadCache \/ DecideFresh \/ ReadAgain \/ EditProfile \/ Tick
  BY <1>2 DEF ReadCache, DecideFresh, ReadAgain, EditProfile, Tick, Types, BuildTypes
<1>3. CASE FetchActor
  BY <1>3, ReadKeypairTypes DEF FetchActor, Types, BuildTypes
<1>4. CASE StoreFetched
  BY <1>4, EndBuildTypes, UpsertTypes DEF StoreFetched, Types, BuildTypes
<1>5. CASE FetchFails
  BY <1>5, EndBuildTypes DEF FetchFails, Types, BuildTypes
<1>6. CASE Boost
  BY <1>6, ReadKeypairTypes DEF Boost, Types, BuildTypes
<1>7. CASE SendActivity
  BY <1>7, EndBuildTypes DEF SendActivity, Types, BuildTypes
<1>8. ASSUME NEW l \in net, Receive(l) PROVE Types'
  BY <1>8, ReadKeypairTypes DEF Receive, Types, BuildTypes
<1>9. ASSUME NEW l \in net, GiveUp(l) PROVE Types'
  BY <1>9 DEF GiveUp, Types, BuildTypes, actors
<1>10. ASSUME NEW l \in handling, FinishReceive(l) PROVE Types'
  BY <1>10, EndBuildTypes, UpsertTypes DEF FinishReceive, Types, BuildTypes
<1>11. CASE FetchForInboxFails
  BY <1>11, EndBuildTypes DEF FetchForInboxFails, Types, BuildTypes
<1>12. CASE UNCHANGED vars
  BY <1>12 DEF vars, actors, Types, BuildTypes
<1>13. ASSUME NEW l \in doubled, HandleDoubled(l) PROVE Types'
  BY <1>13 DEF HandleDoubled, actors, Types, BuildTypes
<1>. QED
  BY <1>1, <1>2, <1>3, <1>4, <1>5, <1>6, <1>7, <1>8, <1>9, <1>10, <1>11, <1>12, <1>13
  DEF Next, ActorsStep

-----------------------------------------------------------------------------
(* SignedWithServedKey.                                                    *)

\* As long as no keypair was saved over another, there is one key: every actor that
\* is built holds it and every letter is signed with it.
OneKey ==
  /\ \A c \in Callers : build[c].stage = "built" => build[c].key = keypair /\ keypair # "none"
  /\ \A l \in net \cup handling : l.key = keypair /\ keypair # "none"
  /\ refused = {}

KeyInv == ~raced => OneKey

LEMMA KeyKept == Types /\ KeyInv /\ [Next]_vars => KeyInv'
<1>. SUFFICES ASSUME Types, OneKey, ~raced, ~raced', [Next]_vars PROVE OneKey'
  <2>1. [Next]_vars /\ raced => raced'
    BY DEF Next, ActorsStep, vars, actors, SaveKeypair, ReadCache, DecideFresh, FetchActor,
           StoreFetched, ReadAgain, FetchFails, EditProfile, Tick, Boost, SendActivity,
           Receive, GiveUp, FinishReceive, HandleDoubled, FetchForInboxFails, ReadKeypair
  <2>. QED
    BY <2>1 DEF KeyInv
<1>. USE CallersNamed
<1>a. ASSUME NEW c \in Callers, ReadKeypair(c)
      PROVE  \A x \in Callers : build'[x].stage = "built" => build'[x].key = keypair /\ keypair # "none"
  BY <1>a DEF ReadKeypair, OneKey, Types, BuildTypes
<1>b. ASSUME NEW c \in Callers, EndBuild(c)
      PROVE  \A x \in Callers : build'[x].stage = "built" => build'[x].key = keypair /\ keypair # "none"
  BY <1>b DEF EndBuild, Idle, OneKey, Types, BuildTypes
<1>1. ASSUME NEW c \in Callers, SaveKeypair(c), UNCHANGED letters PROVE OneKey'
  <2>1. keypair = "none"
    BY <1>1 DEF SaveKeypair
  <2>2. /\ \A x \in Callers : build[x].stage # "built"
        /\ net \cup handling = {}
    BY <2>1 DEF OneKey
  <2>3. /\ build'[c].key = build[c].key
        /\ \A x \in Callers \ {c} : build'[x] = build[x]
    BY <1>1 DEF SaveKeypair, Types, BuildTypes, Builds
  <2>4. keypair' = build[c].key /\ build[c].key = c /\ c # "none"
    BY <1>1 DEF SaveKeypair, Types, BuildTypes, Callers
  <2>. QED
    BY <1>1, <2>2, <2>3, <2>4 DEF OneKey, letters
<1>2. CASE (ReadCache \/ DecideFresh \/ ReadAgain \/ EditProfile \/ Tick) /\ UNCHANGED letters
  BY <1>2 DEF ReadCache, DecideFresh, ReadAgain, EditProfile, Tick, letters, OneKey
<1>3. CASE FetchActor /\ UNCHANGED letters
  BY <1>3, <1>a, ReadKeypairTypes DEF FetchActor, letters, OneKey
<1>4. CASE (StoreFetched \/ FetchFails) /\ UNCHANGED letters
  BY <1>4, <1>b DEF StoreFetched, FetchFails, letters, OneKey
<1>5. CASE Boost
  BY <1>5, <1>a, ReadKeypairTypes DEF Boost, letters, OneKey
<1>6. CASE SendActivity
  <2>1. net' = net \cup {[kind |-> calling, n |-> operations, key |-> build["sign"].key]}
    BY <1>6 DEF SendActivity
  <2>2. build["sign"].key = keypair /\ keypair # "none"
    BY <1>6 DEF SendActivity, OneKey
  <2>3. \A l \in net' \cup handling : l.key = keypair /\ keypair # "none"
    BY <2>1, <2>2 DEF OneKey
  <2>. QED
    BY <1>6, <1>b, <2>3 DEF SendActivity, OneKey
<1>7. ASSUME NEW l \in net, Receive(l) PROVE OneKey'
  BY <1>7, <1>a, ReadKeypairTypes DEF Receive, OneKey
<1>8. ASSUME NEW l \in net, GiveUp(l) PROVE OneKey'
  BY <1>8 DEF GiveUp, actors, OneKey
<1>9. ASSUME NEW l \in handling, FinishReceive(l) PROVE OneKey'
  <2>1. l.key = Document("inbox").key
    BY <1>9 DEF FinishReceive, OneKey, Document
  <2>2. refused' = refused /\ handling' = {} /\ net' \subseteq net /\ keypair' = keypair
    BY <1>9, <2>1 DEF FinishReceive
  <2>. QED
    BY <1>9, <1>b, <2>2 DEF FinishReceive, OneKey
<1>10. CASE FetchForInboxFails
  BY <1>10, <1>b DEF FetchForInboxFails, OneKey
<1>11. CASE UNCHANGED vars
  BY <1>11 DEF vars, actors, letters, OneKey
<1>12. ASSUME NEW l \in doubled, HandleDoubled(l) PROVE OneKey'
  BY <1>12 DEF HandleDoubled, actors, OneKey
<1>. QED
  BY <1>1, <1>2, <1>3, <1>4, <1>5, <1>6, <1>7, <1>8, <1>9, <1>10, <1>11, <1>12 DEF Next, ActorsStep

\* A signature is refused only when one of two concurrent builds of the actor saved
\* its keypair over the other's.
THEOREM SignedWithServedKeyHolds == Spec => []SignedWithServedKey
<1>1. Init => KeyInv
  BY DEF Init, InitActors, InitBoosts, KeyInv, OneKey, Idle
<1>2. KeyInv => SignedWithServedKey
  BY DEF KeyInv, OneKey, SignedWithServedKey
<1>. QED
  BY <1>1, <1>2, TypesInitially, TypesKept, KeyKept, PTL DEF Spec

-----------------------------------------------------------------------------
(* CacheFreshEnough.                                                       *)

Peer == {"inbox", "app"}

\* The row was read at the home server at most a request's time before t.
ReadBy(row, t) == t <= row.read + Timeout

\* The peer never waits longer than Timeout for an actor, so that no row was older
\* when it was stored; and no time passes between the end of a re-fetch and the
\* second reading of the row.
FreshInv ==
  /\ \A c \in Peer : Building(c) => ReadBy(build[c], clock)
  /\ \A row \in cache \cup held : \A t \in row.fetched : ReadBy(row, t)
  /\ lookup = "again" => \A row \in cache : ReadBy(row, clock)
  /\ \A row, other \in cache : row = other
  /\ \A row, other \in held : row = other

\* Storing an actor that was built in time keeps what FreshInv says of the cache.
LEMMA UpsertFresh ==
  ASSUME Types, FreshInv, NEW c \in Peer, Building(c), UpsertRemoteActor(c)
  PROVE  /\ \A row \in cache' : ReadBy(row, clock) /\ \A t \in row.fetched : ReadBy(row, t)
         /\ \A row, other \in cache' : row = other
BY DEF FreshInv, UpsertRemoteActor, FromApPerson, Document, ReadBy

\* No build of the peer's lasts longer when one ends or begins.
LEMMA BuildsFresh ==
  ASSUME Types, FreshInv, UNCHANGED clock, NEW c \in Callers, ReadKeypair(c) \/ EndBuild(c)
  PROVE  \A x \in Peer : Building(x)' => ReadBy(build'[x], clock')
<1>1. \A x \in Callers \ {c} : build'[x] = build[x]
  BY DEF ReadKeypair, EndBuild, Types, BuildTypes
<1>2. Building(c)' => build'[c].read = clock
  BY DEF ReadKeypair, EndBuild, Types, BuildTypes, Building, Idle
<1>3. \A x \in Peer \ {c} : Building(x)' => ReadBy(build'[x], clock')
  BY <1>1 DEF FreshInv, Building, Peer, Callers
<1>4. Building(c)' => ReadBy(build'[c], clock')
  BY <1>2, ActorsAssumption DEF ReadBy, Types
<1>. QED
  BY <1>3, <1>4

\* A step that leaves the peer's rows and the clock alone.
LEMMA CacheAlone ==
  ASSUME FreshInv, UNCHANGED <<clock, cache, held>>, lookup' = "again" => lookup = "again",
         \A x \in Peer : Building(x)' => ReadBy(build'[x], clock')
  PROVE  FreshInv'
BY DEF FreshInv, ReadBy

LEMMA FreshKept == Types /\ FreshInv /\ [Next]_vars => FreshInv'
<1>. SUFFICES ASSUME Types, FreshInv, [Next]_vars PROVE FreshInv'
  OBVIOUS
<1>. USE CallersNamed
<1>1. ASSUME NEW c \in Callers, SaveKeypair(c) PROVE FreshInv'
  <2>1. \A x \in Callers : Building(x)' => Building(x) /\ build'[x].read = build[x].read
    BY <1>1 DEF SaveKeypair, Building, Types, BuildTypes, Builds
  <2>2. \A x \in Peer : Building(x)' => ReadBy(build'[x], clock')
    BY <1>1, <2>1 DEF SaveKeypair, FreshInv, ReadBy, Peer, Callers
  <2>. QED
    BY <1>1, <2>2, CacheAlone DEF SaveKeypair
<1>2. CASE ReadCache
  BY <1>2 DEF ReadCache, FreshInv, Building, ReadBy
<1>3. CASE DecideFresh \/ EditProfile
  BY <1>3 DEF DecideFresh, EditProfile, FreshInv, Building, ReadBy
<1>4. CASE FetchActor
  BY <1>4, BuildsFresh, CacheAlone DEF FetchActor
<1>5. CASE StoreFetched
  <2>1. Building("app") /\ "app" \in Peer
    BY <1>5 DEF StoreFetched, Building, Peer
  <2>2. \A x \in Peer : Building(x)' => ReadBy(build'[x], clock')
    BY <1>5, BuildsFresh DEF StoreFetched
  <2>3. /\ \A row \in cache' : ReadBy(row, clock) /\ \A t \in row.fetched : ReadBy(row, t)
        /\ \A row, other \in cache' : row = other
    BY <1>5, <2>1, UpsertFresh DEF StoreFetched
  <2>. QED
    BY <1>5, <2>2, <2>3 DEF StoreFetched, FreshInv, ReadBy
<1>6. CASE ReadAgain
  BY <1>6 DEF ReadAgain, FreshInv, Building, ReadBy
<1>7. CASE FetchFails
  BY <1>7, BuildsFresh, CacheAlone DEF FetchFails
<1>8. CASE Tick
  <2>1. \A x \in Peer : Building(x) => clock - build[x].read < Timeout
    BY <1>8 DEF Tick, Peer
  <2>2. \A x \in Peer : build[x].read \in Nat
    BY DEF Types, BuildTypes, Builds, Peer, Callers
  <2>3. \A x \in Peer : Building(x)' => ReadBy(build'[x], clock')
    BY <1>8, <2>1, <2>2, ActorsAssumption DEF Tick, Building, ReadBy, Types
  <2>. QED
    BY <1>8, <2>3 DEF Tick, FreshInv, ReadBy
<1>9. CASE Boost
  BY <1>9, BuildsFresh, CacheAlone DEF Boost
<1>10. CASE SendActivity
  BY <1>10, BuildsFresh, CacheAlone DEF SendActivity
<1>11. ASSUME NEW l \in net, Receive(l) PROVE FreshInv'
  BY <1>11, BuildsFresh, CacheAlone DEF Receive
<1>12. ASSUME NEW l \in net, GiveUp(l) PROVE FreshInv'
  BY <1>12 DEF GiveUp, actors, FreshInv, Building, ReadBy
<1>13. ASSUME NEW l \in handling, FinishReceive(l) PROVE FreshInv'
  <2>1. Building("inbox") /\ "inbox" \in Peer
    BY <1>13 DEF FinishReceive, Building, Peer
  <2>2. \A x \in Peer : Building(x)' => ReadBy(build'[x], clock')
    BY <1>13, BuildsFresh DEF FinishReceive
  <2>3. /\ \A row \in cache' : ReadBy(row, clock) /\ \A t \in row.fetched : ReadBy(row, t)
        /\ \A row, other \in cache' : row = other
    BY <1>13, <2>1, UpsertFresh DEF FinishReceive
  <2>. QED
    BY <1>13, <2>2, <2>3 DEF FinishReceive, FreshInv, ReadBy
<1>14. CASE FetchForInboxFails
  BY <1>14, BuildsFresh, CacheAlone DEF FetchForInboxFails
<1>15. CASE UNCHANGED vars
  BY <1>15 DEF vars, actors, FreshInv, Building, ReadBy
<1>16. ASSUME NEW l \in doubled, HandleDoubled(l) PROVE FreshInv'
  BY <1>16 DEF HandleDoubled, actors, FreshInv, Building, ReadBy
<1>. QED
  BY <1>1, <1>2, <1>3, <1>4, <1>5, <1>6, <1>7, <1>8, <1>9, <1>10, <1>11, <1>12, <1>13, <1>14, <1>15, <1>16
  DEF Next, ActorsStep

LEMMA FreshStep == Types /\ FreshInv /\ [Next]_vars => [FreshEnough]_vars
<1>. SUFFICES ASSUME Types, FreshInv, [Next]_vars PROVE FreshEnough
  OBVIOUS
<1>1. CASE DecideFresh
  <2>. SUFFICES ASSUME NEW row \in held', lookup' = "fresh" PROVE clock - row.read < Ttl + Timeout
    BY <1>1 DEF DecideFresh, FreshEnough
  <2>1. row \in held /\ IsFresh(row)
    BY <1>1 DEF DecideFresh, FreshInv
  <2>2. PICK t \in row.fetched : clock - t < Ttl
    BY <2>1 DEF IsFresh
  <2>3. t \in Nat /\ row.read \in Nat /\ t <= row.read + Timeout
    BY <2>1, <2>2 DEF FreshInv, ReadBy, Types, Rows
  <2>. QED
    BY <2>2, <2>3, ActorsAssumption DEF Types
<1>2. CASE ReadAgain
  <2>. SUFFICES ASSUME NEW row \in held' PROVE clock - row.read <= Timeout
    BY <1>2 DEF ReadAgain, FreshEnough
  <2>1. row.read \in Nat /\ clock <= row.read + Timeout
    BY <1>2 DEF ReadAgain, FreshInv, ReadBy, Types, Rows
  <2>. QED
    BY <2>1, ActorsAssumption DEF Types
<1>3. ASSUME ~DecideFresh, ~ReadAgain
      PROVE  /\ ~(lookup = "decide" /\ lookup' = "fresh")
             /\ ~(lookup = "again" /\ lookup' = "refetched")
  BY <1>3 DEF Next, ActorsStep, vars, actors, SaveKeypair, ReadCache, FetchActor, StoreFetched,
     FetchFails, EditProfile, Tick, Boost, SendActivity, Receive, GiveUp, FinishReceive,
     HandleDoubled, FetchForInboxFails, LookingUp
<1>. QED
  BY <1>1, <1>2, <1>3 DEF FreshEnough

\* A row returned as fresh was read less than the TTL and a request's time ago, one
\* returned after a re-fetch at most a request's time ago.
THEOREM CacheFreshEnoughHolds == Spec => CacheFreshEnough
<1>1. Init => FreshInv
  BY DEF Init, InitActors, FreshInv, Building, Idle, Peer, Callers, ReadBy
<1>. QED
  BY <1>1, TypesInitially, TypesKept, FreshKept, FreshStep, PTL DEF Spec, CacheFreshEnough

-----------------------------------------------------------------------------
(* TypeOK.                                                                 *)

Letters == [kind : {"Announce", "Undo"}, n : 1..operations, key : Callers]

LEMMA SmallSets ==
  /\ Cardinality({}) <= 1
  /\ \A x : Cardinality({x}) <= 1
BY FS_EmptySet, FS_Singleton

\* Of the state of Actors, TypeOK needs the keys of the builds.
KeysKnown ==
  /\ \A c \in Callers : build[c].stage \in {"save", "built"} => build[c].key \in Callers
  /\ keypair \in {"none"} \cup Callers

\* What TypeOK says of the letters and the user.
LettersTyped ==
  /\ {operations, mishaps} \subseteq Nat
  /\ Cardinality(handling) <= 1
  /\ calling \in {"none", "Announce", "Undo"}
  /\ net \cup handling \cup doubled \cup refused \subseteq Letters
  /\ processed \subseteq 0..operations
  /\ {boosted, counted, overtaken, lost} \subseteq BOOLEAN
  /\ calling # "none" => operations >= 1

\* An actor is built to sign with while a call of an operation is under way, with a key
\* once it is built.
TypeInv ==
  /\ KeysKnown /\ {profile, clock} \subseteq Nat
  /\ Cardinality(cache) <= 1 /\ Cardinality(held) <= 1
  /\ raced \in BOOLEAN
  /\ calling = "none" <=> ~ Building("sign")
  /\ LettersTyped

LEMMA ReadKeypairKeys ==
  ASSUME Types, KeysKnown, NEW c \in Callers, ReadKeypair(c)
  PROVE  KeysKnown' /\ Building(c)' /\ ~ Building(c)
         /\ \A x \in Callers \ {c} : Building(x)' = Building(x)
<1>1. /\ \A x \in Callers \ {c} : build'[x] = build[x]
      /\ build'[c].stage = (IF keypair = "none" THEN "save" ELSE "built")
      /\ build'[c].key = (IF keypair = "none" THEN c ELSE keypair)
      /\ keypair' = keypair
  BY DEF ReadKeypair, Types, BuildTypes
<1>2. ~ Building(c)
  BY DEF ReadKeypair
<1>3. KeysKnown'
  BY <1>1 DEF KeysKnown
<1>. QED
  BY <1>1, <1>2, <1>3 DEF Building

LEMMA EndBuildKeys ==
  ASSUME Types, KeysKnown, NEW c \in Callers, EndBuild(c), UNCHANGED keypair
  PROVE  KeysKnown' /\ ~ Building(c)'
         /\ \A x \in Callers \ {c} : Building(x)' = Building(x)
<1>1. /\ \A x \in Callers \ {c} : build'[x] = build[x]
      /\ build'[c] = Idle
  BY DEF EndBuild, Types, BuildTypes
<1>. QED
  BY <1>1 DEF KeysKnown, Building, Idle

\* The steps of Actors leave the letters alone, and whether an actor is built to sign with.
LEMMA ActorsTypes ==
  ASSUME Types, TypeInv, ActorsStep
  PROVE  /\ KeysKnown' /\ {profile', clock'} \subseteq Nat
         /\ Cardinality(cache') <= 1 /\ Cardinality(held') <= 1
         /\ raced' \in BOOLEAN
         /\ Building("sign")' = Building("sign")
<1>. USE CallersNamed
<1>k. KeysKnown /\ Cardinality(cache) <= 1 /\ Cardinality(held) <= 1
      /\ {profile, clock} \subseteq Nat /\ raced \in BOOLEAN
  BY DEF TypeInv
<1>1. ASSUME NEW c \in Callers, SaveKeypair(c)
      PROVE  KeysKnown' /\ Building("sign")' = Building("sign")
  <2>1. /\ \A x \in Callers \ {c} : build'[x] = build[x]
        /\ build[c].stage = "save" /\ build'[c].stage = "built" /\ build'[c].key = build[c].key
        /\ keypair' = build[c].key
    BY <1>1 DEF SaveKeypair, Types, BuildTypes, Builds
  <2>. QED
    BY <1>k, <2>1 DEF KeysKnown, Building
<1>2. CASE \E c \in Callers : SaveKeypair(c)
  BY <1>k, <1>1, <1>2 DEF SaveKeypair
<1>3. CASE ReadCache \/ DecideFresh \/ ReadAgain \/ EditProfile \/ Tick
  BY <1>k, <1>3 DEF ReadCache, DecideFresh, ReadAgain, EditProfile, Tick, KeysKnown, Building
<1>4. CASE FetchActor
  BY <1>k, <1>4, ReadKeypairKeys DEF FetchActor, ReadKeypair
<1>5. CASE StoreFetched
  BY <1>k, <1>5, EndBuildKeys, SmallSets DEF StoreFetched, UpsertRemoteActor
<1>6. CASE FetchFails
  BY <1>k, <1>6, EndBuildKeys DEF FetchFails
<1>. QED
  BY <1>2, <1>3, <1>4, <1>5, <1>6 DEF ActorsStep

LEMMA TypeInvInitially == Init => TypeInv
<1>. SUFFICES ASSUME Init PROVE TypeInv
  OBVIOUS
<1>1. Cardinality(cache) <= 1 /\ Cardinality(held) <= 1 /\ Cardinality(handling) <= 1
  BY SmallSets DEF Init, InitActors, InitBoosts
<1>2. KeysKnown /\ ~ Building("sign")
  BY CallersNamed DEF Init, InitActors, KeysKnown, Building, Idle
<1>3. /\ operations = 0 /\ mishaps = 0 /\ profile = 1 /\ clock = 0
      /\ calling = "none" /\ net = {} /\ handling = {} /\ doubled = {} /\ refused = {} /\ processed = {}
      /\ {boosted, counted, overtaken, lost, raced} \subseteq BOOLEAN
  BY DEF Init, InitActors, InitBoosts
<1>4. LettersTyped
  BY <1>1, <1>3 DEF LettersTyped
<1>. QED
  BY <1>1, <1>2, <1>3, <1>4 DEF TypeInv

LEMMA TypeInvKept == Types /\ TypeInv /\ [Next]_vars => TypeInv'
<1>. SUFFICES ASSUME Types, TypeInv, [Next]_vars PROVE TypeInv'
  OBVIOUS
<1>. USE CallersNamed
<1>t. /\ KeysKnown /\ {profile, clock} \subseteq Nat
      /\ Cardinality(cache) <= 1 /\ Cardinality(held) <= 1
      /\ raced \in BOOLEAN
      /\ (calling = "none" <=> ~ Building("sign"))
      /\ LettersTyped
  BY DEF TypeInv
<1>1. CASE ActorsStep /\ UNCHANGED <<user, letters>>
  BY <1>1, <1>t, ActorsTypes DEF user, letters, TypeInv, LettersTyped, Letters
<1>2. CASE Boost
  <2>1. KeysKnown' /\ Building("sign")' /\ raced' = raced
    BY <1>2, <1>t, ReadKeypairKeys DEF Boost, ReadKeypair
  <2>2. operations \in Nat /\ operations' = operations + 1 /\ Letters \subseteq Letters'
    BY <1>2, <1>t DEF Boost, LettersTyped, Letters
  <2>. QED
    BY <1>2, <1>t, <2>1, <2>2 DEF Boost, letters, TypeInv, LettersTyped
<1>3. CASE SendActivity
  <2>1. KeysKnown' /\ ~ Building("sign")' /\ Building("sign")
    BY <1>3, <1>t, EndBuildKeys DEF SendActivity, Building
  <2>2. [kind |-> calling, n |-> operations, key |-> build["sign"].key] \in Letters
    BY <1>3, <1>t, <2>1 DEF SendActivity, TypeInv, LettersTyped, Letters, KeysKnown
  <2>. QED
    BY <1>3, <1>t, <2>1, <2>2 DEF SendActivity, TypeInv, LettersTyped, Letters
<1>4. ASSUME NEW l \in net, Receive(l) PROVE TypeInv'
  <2>1. KeysKnown' /\ Building("sign")' = Building("sign") /\ raced' = raced
    BY <1>4, <1>t, ReadKeypairKeys DEF Receive, ReadKeypair
  <2>2. Cardinality(handling') <= 1
    BY <1>4, SmallSets DEF Receive
  <2>. QED
    BY <1>4, <1>t, <2>1, <2>2 DEF Receive, user, TypeInv, LettersTyped, Letters
<1>5. ASSUME NEW l \in net, GiveUp(l) PROVE TypeInv'
  BY <1>5, <1>t DEF GiveUp, Mishap, actors, user, TypeInv, LettersTyped, Letters, KeysKnown, Building
<1>6. ASSUME NEW l \in handling, FinishReceive(l) PROVE TypeInv'
  <2>1. KeysKnown' /\ Building("sign")' = Building("sign")
    BY <1>6, <1>t, EndBuildKeys DEF FinishReceive
  <2>2. Cardinality(cache') <= 1 /\ Cardinality(handling') <= 1
    BY <1>6, SmallSets DEF FinishReceive, UpsertRemoteActor
  <2>3. l \in Letters /\ ActivityId(l) \in 0..operations
    BY <1>t DEF TypeInv, LettersTyped, Letters, ActivityId
  <2>4. Overtaken(l) \in BOOLEAN
    BY DEF Overtaken
  <2>5. /\ handling' = {} /\ net' \subseteq net /\ doubled' \subseteq doubled \cup net /\ refused' \subseteq refused \cup {l}
        /\ processed' \subseteq processed \cup {ActivityId(l)}
        /\ mishaps' \in {mishaps, mishaps + 1}
        /\ counted' \in {counted, TRUE, FALSE}
        /\ overtaken' \in BOOLEAN
        /\ UNCHANGED <<profile, clock, held, raced, user, lost>>
    BY <1>6, <1>t, <2>4
    DEF FinishReceive, Twins, Handle, Mishap, AddAnnounce, RemoveAnnounce, TypeInv, LettersTyped
  <2>6. LettersTyped'
    <3>1. Letters' = Letters
      BY <2>5 DEF user, Letters
    <3>2. net' \cup handling' \cup doubled' \cup refused' \subseteq Letters'
      BY <1>t, <2>3, <2>5, <3>1 DEF LettersTyped
    <3>3. processed' \subseteq 0..operations' /\ {operations', mishaps'} \subseteq Nat
      BY <1>t, <2>3, <2>5 DEF user, LettersTyped
    <3>. QED
      BY <1>t, <2>2, <2>5, <3>2, <3>3 DEF user, LettersTyped
  <2>. QED
    BY <1>t, <2>1, <2>2, <2>5, <2>6 DEF user, TypeInv
<1>7. CASE FetchForInboxFails
  <2>1. KeysKnown' /\ Building("sign")' = Building("sign")
    BY <1>7, <1>t, EndBuildKeys DEF FetchForInboxFails
  <2>. QED
    BY <1>7, <1>t, <2>1, SmallSets DEF FetchForInboxFails, user, TypeInv, LettersTyped, Letters
<1>8. CASE UNCHANGED vars
  BY <1>8, <1>t DEF vars, actors, user, letters, TypeInv, LettersTyped, Letters, KeysKnown, Building
<1>9. ASSUME NEW l \in doubled, HandleDoubled(l) PROVE TypeInv'
  <2>1. Overtaken(l) \in BOOLEAN
    BY DEF Overtaken
  <2>2. LettersTyped'
    BY <1>9, <1>t, <2>1 DEF HandleDoubled, Handle, AddAnnounce, RemoveAnnounce, user, LettersTyped, Letters
  <2>. QED
    BY <1>9, <1>t, <2>2 DEF HandleDoubled, actors, user, TypeInv, KeysKnown, Building
<1>. QED
  BY <1>1, <1>2, <1>3, <1>4, <1>5, <1>6, <1>7, <1>8, <1>9 DEF Next

\* The keypairs, the cache and the letters have their types: only a call that is under
\* way builds an actor to sign with, and a letter has the number of an operation.
THEOREM TypeCorrect == Spec => []TypeOK
<1>1. TypeInv => TypeOK
  BY DEF TypeInv, TypeOK, KeysKnown, LettersTyped, Letters
<1>. QED
  BY <1>1, TypesInitially, TypesKept, TypeInvInitially, TypeInvKept, PTL DEF Spec

-----------------------------------------------------------------------------
(* BoostsAgree.                                                            *)

\* Operations alternate, beginning with a boost; the last one tells whether the post
\* is boosted; and a letter past the check has an id that is marked.
Numbered ==
  /\ calling # "none" => operations >= 1
  /\ calling = "Announce" => boosted
  /\ calling = "Undo" => operations >= 2
  /\ \A l \in net \cup handling \cup doubled :
       /\ l.kind = "Undo" => l.n >= 2
       /\ l.kind = "Announce" /\ l.n = operations => boosted
  /\ \A l \in doubled : ActivityId(l) \in processed
  /\ operations = 0 => ~ boosted /\ ~ counted /\ processed = {}
  /\ operations = 1 => boosted /\ (counted <=> 0 \in processed)

OnItsWay(kind, n) ==
  \/ \E l \in net : l.kind = kind /\ l.n = n
  \/ calling = kind /\ operations = n

\* Unless a letter was lost, the Announce of the first boost is handled or on its way, and
\* so is the Undo of the last operation; and while a boost taken back counts, that Undo
\* was not handled, unless an Announce was handled after a later Undo.
AgreeInv ==
  /\ ~ lost =>
       /\ operations >= 1 /\ 0 \notin processed => OnItsWay("Announce", 1)
       /\ operations >= 1 /\ ~ boosted /\ operations \notin processed => OnItsWay("Undo", operations)
  /\ counted /\ ~ boosted /\ ~ overtaken => operations \notin processed

\* How the peer handles a letter that passes the check.
LEMMA HandleIs ==
  ASSUME NEW l, Handle(l)
  PROVE  counted' = (l.kind = "Announce") /\ overtaken' = (overtaken \/ Overtaken(l))
BY DEF Handle, AddAnnounce, RemoveAnnounce

\* A letter the peer refuses stays in the network; of the letters it takes, all that
\* leave the network have one id, which is marked.
Taken(l) ==
  /\ net' \subseteq net
  /\ \A x \in net \ net' : x = l \/ ActivityId(x) = ActivityId(l)
  /\ doubled' \subseteq doubled \cup net
  /\ \A x \in doubled' \ doubled : ActivityId(x) = ActivityId(l)
  /\ processed' = processed \cup {ActivityId(l)}

LEMMA FinishReceiveCases ==
  ASSUME NEW l \in handling, FinishReceive(l)
  PROVE  /\ handling' = {} /\ UNCHANGED <<user, lost>>
         /\ \/ UNCHANGED <<net, doubled, processed, counted, overtaken>>
            \/ /\ Taken(l)
               /\ IF ActivityId(l) \in processed THEN UNCHANGED <<counted, overtaken>> ELSE Handle(l)
<1>1. CASE l.key # Document("inbox").key
  BY <1>1 DEF FinishReceive
<1>2. CASE l.key = Document("inbox").key
  <2>1. PICK again \in SUBSET Twins(l) :
          /\ doubled' = doubled \cup again
          /\ \/ l \notin again /\ net' = net \ (again \cup {l}) /\ UNCHANGED mishaps
             \/ Mishap /\ net' = net \ again
    BY <1>2 DEF FinishReceive
  <2>2. \A x \in again : x \in net /\ ActivityId(x) = ActivityId(l)
    BY DEF Twins
  <2>3. Taken(l)
    BY <1>2, <2>1, <2>2 DEF FinishReceive, Taken
  <2>. QED
    BY <1>2, <2>3 DEF FinishReceive
<1>. QED
  BY <1>1, <1>2

\* What Numbered and AgreeInv need of the types.
LEMMA NumberTypes ==
  TypeInv =>
    /\ operations \in Nat /\ processed \subseteq 0..operations
    /\ \A l \in net \cup handling \cup doubled :
         l.kind \in {"Announce", "Undo"} /\ l.n \in 1..operations
    /\ counted \in BOOLEAN /\ boosted \in BOOLEAN /\ overtaken \in BOOLEAN
    /\ calling \in {"none", "Announce", "Undo"}
BY DEF TypeInv, LettersTyped, Letters

\* A letter that takes effect, with its id marked: the boost of an Announce that is
\* taken back counts only when the Undo of that is yet to come.
LEMMA HandleAgrees ==
  ASSUME TypeInv, Numbered, NEW l \in handling \cup doubled, Handle(l),
         UNCHANGED <<operations, boosted>>, processed' = processed \cup {ActivityId(l)},
         counted', ~ boosted, ~ overtaken'
  PROVE  operations \notin processed'
<1>t. operations \in Nat /\ processed \subseteq 0..operations /\ l.n \in 1..operations
  BY NumberTypes
<1>1. l.kind = "Announce" /\ ~ Overtaken(l)
  BY HandleIs
<1>2. l.n # operations /\ ActivityId(l) = 0
  BY <1>1 DEF Numbered, ActivityId
<1>3. operations > l.n /\ operations # 0
  BY <1>t, <1>2
<1>4. operations \notin processed
  BY <1>1, <1>3 DEF Overtaken
<1>. QED
  BY <1>2, <1>3, <1>4

LEMMA AgreeKept ==
  Types /\ TypeInv /\ Numbered /\ AgreeInv /\ [Next]_vars => Numbered' /\ AgreeInv'
<1>. SUFFICES ASSUME Types, TypeInv, Numbered, AgreeInv, [Next]_vars PROVE Numbered' /\ AgreeInv'
  OBVIOUS
<1>t. /\ operations \in Nat /\ processed \subseteq 0..operations
      /\ \A l \in net \cup handling \cup doubled :
           l.kind \in {"Announce", "Undo"} /\ l.n \in 1..operations
      /\ counted \in BOOLEAN /\ boosted \in BOOLEAN /\ overtaken \in BOOLEAN
      /\ calling \in {"none", "Announce", "Undo"}
  BY NumberTypes
<1>1. ASSUME UNCHANGED <<user, letters>> PROVE Numbered' /\ AgreeInv'
  BY <1>1 DEF user, letters, Numbered, ActivityId, AgreeInv, OnItsWay
<1>2. CASE Boost
  <2>1. /\ calling = "none" /\ operations' = operations + 1 /\ boosted' = ~ boosted
        /\ calling' = (IF boosted' THEN "Announce" ELSE "Undo")
        /\ UNCHANGED <<net, handling, doubled, processed, counted, overtaken, lost>>
    BY <1>2 DEF Boost, letters
  <2>2. operations = 0 => calling' = "Announce" /\ boosted'
    BY <2>1 DEF Numbered
  <2>3. calling' \in {"Announce", "Undo"} /\ (calling' = "Announce" <=> boosted')
    BY <2>1
  <2>4. Numbered'
    <3>1. \A l \in net' \cup handling' \cup doubled' :
            (l.kind = "Undo" => l.n >= 2) /\ l.n # operations'
      BY <1>t, <2>1 DEF Numbered
    <3>2. operations = 0 => ~ counted' /\ processed' = {}
      BY <2>1 DEF Numbered
    <3>3. operations' >= 1 /\ (operations' = 1 => operations = 0) /\ (operations # 0 => operations' >= 2)
      BY <1>t, <2>1
    <3>4. \A l \in doubled' : ActivityId(l)' \in processed'
      BY <2>1 DEF Numbered, ActivityId
    <3>. QED
      BY <2>1, <2>2, <2>3, <3>1, <3>2, <3>3, <3>4 DEF Numbered
  <2>5. ASSUME operations' >= 1, 0 \notin processed', ~ lost PROVE OnItsWay("Announce", 1)'
    <3>1. CASE operations = 0
      BY <2>1, <2>2, <3>1 DEF OnItsWay
    <3>2. CASE operations # 0
      <4>1. OnItsWay("Announce", 1)
        BY <1>t, <2>1, <2>5, <3>2 DEF AgreeInv
      <4>. QED
        BY <2>1, <4>1 DEF OnItsWay
    <3>. QED
      BY <3>1, <3>2
  <2>6. ASSUME ~ boosted' PROVE OnItsWay("Undo", operations)'
    BY <1>t, <2>1, <2>6 DEF OnItsWay
  <2>7. operations' \notin processed'
    BY <1>t, <2>1
  <2>. QED
    BY <2>1, <2>4, <2>5, <2>6, <2>7 DEF AgreeInv
<1>3. CASE SendActivity
  <2>. DEFINE new == [kind |-> calling, n |-> operations, key |-> build["sign"].key]
  <2>1. /\ net' = net \cup {new} /\ calling' = "none"
        /\ UNCHANGED <<operations, boosted, handling, doubled, processed, counted, overtaken, lost>>
    BY <1>3 DEF SendActivity
  <2>2. new.kind = calling /\ new.n = operations
    OBVIOUS
  <2>. HIDE DEF new
  <2>3. Numbered'
    BY <1>t, <2>1, <2>2 DEF Numbered, ActivityId
  <2>4. ASSUME NEW kind \in {"Announce", "Undo"}, NEW n, OnItsWay(kind, n) PROVE OnItsWay(kind, n)'
    BY <2>1, <2>2, <2>4 DEF OnItsWay
  <2>5. AgreeInv'
    BY <2>1, <2>4 DEF AgreeInv
  <2>. QED
    BY <2>3, <2>5
<1>4. ASSUME NEW l \in net, Receive(l) PROVE Numbered' /\ AgreeInv'
  <2>1. handling' = {l} /\ UNCHANGED <<user, net, doubled, processed, counted, overtaken, lost>>
    BY <1>4 DEF Receive
  <2>. QED
    BY <1>t, <2>1 DEF user, Numbered, ActivityId, AgreeInv, OnItsWay
<1>5. ASSUME NEW l \in net, GiveUp(l) PROVE Numbered' /\ AgreeInv'
  BY <1>5 DEF GiveUp, user, Numbered, ActivityId, AgreeInv
<1>6. ASSUME NEW l \in handling, FinishReceive(l) PROVE Numbered' /\ AgreeInv'
  <2>1. /\ handling' = {} /\ UNCHANGED <<operations, calling, boosted, lost>>
        /\ \/ UNCHANGED <<net, doubled, processed, counted, overtaken>>
           \/ /\ Taken(l)
              /\ IF ActivityId(l) \in processed THEN UNCHANGED <<counted, overtaken>> ELSE Handle(l)
    BY <1>6, FinishReceiveCases DEF user
  <2>2. CASE UNCHANGED <<net, doubled, processed, counted, overtaken>>
    BY <2>1, <2>2 DEF Numbered, ActivityId, AgreeInv, OnItsWay
  <2>3. CASE /\ Taken(l)
             /\ IF ActivityId(l) \in processed THEN UNCHANGED <<counted, overtaken>> ELSE Handle(l)
    <3>1. /\ l.kind \in {"Announce", "Undo"} /\ l.n \in 1..operations
          /\ l.kind = "Announce" => ActivityId(l) = 0
          /\ l.kind = "Undo" => ActivityId(l) = l.n /\ l.n >= 2
      BY <1>t DEF ActivityId, Numbered
    <3>2. Numbered'
      <4>1. \A x \in net' \cup handling' \cup doubled' : x \in net \cup handling \cup doubled
        BY <2>1, <2>3 DEF Taken
      <4>2. operations # 0
        BY <3>1
      <4>3. operations = 1 => (counted' <=> 0 \in processed')
        <5>1. SUFFICES ASSUME operations = 1 PROVE counted' <=> 0 \in processed'
          OBVIOUS
        <5>2. l.kind = "Announce" /\ ActivityId(l) = 0
          BY <3>1, <5>1
        <5>3. 0 \in processed'
          BY <2>3, <5>2 DEF Taken
        <5>4. CASE 0 \in processed
          BY <2>3, <5>1, <5>2, <5>3, <5>4 DEF Numbered
        <5>5. CASE 0 \notin processed
          BY <2>3, <5>2, <5>3, <5>5, HandleIs
        <5>. QED
          BY <5>4, <5>5
      <4>4. \A x \in doubled' : ActivityId(x) \in processed'
        BY <2>3 DEF Taken, Numbered
      <4>5. \A x \in doubled' : ActivityId(x)' = ActivityId(x)
        BY DEF ActivityId
      <4>. QED
        BY <1>t, <2>1, <4>1, <4>2, <4>3, <4>4, <4>5 DEF Numbered
    <3>3. ASSUME NEW kind \in {"Announce", "Undo"}, NEW n, OnItsWay(kind, n),
                 \A x \in net : x.kind = kind /\ x.n = n => x # l /\ ActivityId(x) # ActivityId(l)
          PROVE  OnItsWay(kind, n)'
      BY <2>1, <2>3, <3>3 DEF OnItsWay, Taken
    <3>4. ASSUME ~ lost, 0 \notin processed' PROVE OnItsWay("Announce", 1)'
      <4>1. ActivityId(l) # 0 /\ 0 \notin processed /\ operations >= 1
        BY <1>t, <2>3, <3>1, <3>4 DEF Taken
      <4>2. \A x \in net : x.kind = "Announce" => ActivityId(x) = 0
        BY DEF ActivityId
      <4>3. \A x \in net : x.kind = "Announce" => x # l /\ ActivityId(x) # ActivityId(l)
        BY <4>1, <4>2
      <4>4. OnItsWay("Announce", 1)
        BY <3>4, <4>1 DEF AgreeInv
      <4>. QED
        BY <3>3, <4>3, <4>4
    <3>5. ASSUME ~ lost, ~ boosted, operations \notin processed' PROVE OnItsWay("Undo", operations)'
      <4>1. operations >= 1 /\ operations \notin processed /\ ActivityId(l) # operations
        BY <1>t, <2>3, <3>1, <3>5 DEF Taken
      <4>2. \A x \in net : x.kind = "Undo" => ActivityId(x) = x.n
        BY DEF ActivityId
      <4>3. \A x \in net : x.kind = "Undo" /\ x.n = operations => x # l /\ ActivityId(x) # ActivityId(l)
        BY <4>1, <4>2
      <4>4. OnItsWay("Undo", operations)
        BY <3>5, <4>1 DEF AgreeInv
      <4>5. (\E x \in net : x.kind = "Undo" /\ x.n = operations) \/ calling = "Undo"
        BY <4>4 DEF OnItsWay
      <4>. QED
        BY <2>1, <2>3, <4>3, <4>5 DEF OnItsWay, Taken
    <3>6. ASSUME counted', ~ boosted, ~ overtaken' PROVE operations \notin processed'
      <4>1. CASE ActivityId(l) \in processed
        BY <2>3, <3>6, <4>1 DEF AgreeInv, Taken
      <4>2. CASE ActivityId(l) \notin processed
        BY <2>1, <2>3, <3>6, <4>2, HandleAgrees DEF Taken
      <4>. QED
        BY <4>1, <4>2
    <3>. QED
      BY <2>1, <3>2, <3>4, <3>5, <3>6 DEF AgreeInv
  <2>. QED
    BY <2>1, <2>2, <2>3
<1>9. ASSUME NEW l \in doubled, HandleDoubled(l) PROVE Numbered' /\ AgreeInv'
  <2>1. /\ doubled' = doubled \ {l} /\ Handle(l)
        /\ UNCHANGED <<operations, calling, boosted, net, handling, processed, lost>>
    BY <1>9 DEF HandleDoubled, user
  <2>2. ActivityId(l) \in processed
    BY DEF Numbered
  <2>3. operations = 1 => (counted' <=> 0 \in processed')
    <3>1. SUFFICES ASSUME operations = 1 PROVE counted' <=> 0 \in processed'
      OBVIOUS
    <3>2. l.kind = "Announce"
      BY <1>t, <3>1 DEF Numbered
    <3>. QED
      BY <2>1, <2>2, <3>2, HandleIs DEF ActivityId
  <2>4. operations # 0
    BY <1>t
  <2>5. Numbered'
    BY <2>1, <2>3, <2>4 DEF Numbered, ActivityId
  <2>6. processed' = processed \cup {ActivityId(l)}
    BY <2>1, <2>2
  <2>7. counted' /\ ~ boosted /\ ~ overtaken' => operations \notin processed'
    BY <2>1, <2>6, HandleAgrees
  <2>. QED
    BY <2>1, <2>5, <2>7 DEF AgreeInv, OnItsWay
<1>7. CASE FetchForInboxFails
  BY <1>7 DEF FetchForInboxFails, user, Numbered, ActivityId, AgreeInv, OnItsWay
<1>8. CASE UNCHANGED vars
  BY <1>1, <1>8 DEF vars
<1>. QED
  BY <1>1, <1>2, <1>3, <1>4, <1>5, <1>6, <1>7, <1>8, <1>9 DEF Next

\* When every letter has arrived and is handled, the peer counts the boost as the user left
\* it, unless an Announce was handled after a later Undo or the boost was taken back
\* before.
THEOREM BoostsAgreeHolds == Spec => []BoostsAgree
<1>1. Init => Numbered /\ AgreeInv
  BY DEF Init, InitBoosts, Numbered, AgreeInv
<1>2. TypeInv /\ Numbered /\ AgreeInv => BoostsAgree
  <2>. SUFFICES ASSUME TypeInv, Numbered, AgreeInv, calling = "none", net = {}, ~ lost
                PROVE  (counted => boosted \/ overtaken) /\ (boosted => counted \/ operations > 1)
    BY DEF BoostsAgree
  <2>t. operations \in Nat
    BY NumberTypes
  <2>1. \A kind, n : kind \in {"Announce", "Undo"} => ~ OnItsWay(kind, n)
    BY DEF OnItsWay
  <2>2. ASSUME counted, ~ boosted, ~ overtaken PROVE FALSE
    <3>1. operations >= 1
      BY <2>t, <2>2 DEF Numbered
    <3>2. operations \in processed
      BY <2>1, <2>2, <3>1 DEF AgreeInv
    <3>. QED
      BY <2>2, <3>2 DEF AgreeInv
  <2>3. ASSUME boosted, operations <= 1 PROVE counted
    <3>1. operations = 1
      BY <2>t, <2>3 DEF Numbered
    <3>2. 0 \in processed
      BY <2>1, <3>1 DEF AgreeInv
    <3>. QED
      BY <3>1, <3>2 DEF Numbered
  <2>. QED
    BY <2>t, <2>2, <2>3
<1>. QED
  BY <1>1, <1>2, TypesInitially, TypesKept, TypeInvInitially, TypeInvKept, AgreeKept, PTL DEF Spec

=============================================================================
