------------------------------ MODULE CacheAside ------------------------------
(***************************************************************************)
(* One answer of the public API and its entry in Redis: withCache of       *)
(* packages/cache/src/cache-aside.ts, used by                              *)
(* apps/api/src/public-api/public-api.service.ts, and the purge at the end *)
(* of an automatic update (packages/auto-update/src/cli.ts).               *)
(*                                                                         *)
(* A request gets the entry; if there is none it loads the tool from the   *)
(* database and sets the entry, in three awaits.  Nobody who writes the    *)
(* tool touches the entry: it expires, or the purge lists the keys of the  *)
(* public API and deletes them.  A key longer than 200 characters is       *)
(* hashed and not on that list.  An entry of null, a tool that is not      *)
(* published, is read as no entry.                                         *)
(*                                                                         *)
(* A tool is its version.  From its load to its set a request takes at     *)
(* most Patience ticks.  A process without Redis loads every time and is   *)
(* left out; a purge without Redis does nothing.                           *)
(***************************************************************************)
EXTENDS Naturals, FiniteSetsExt

CONSTANTS
  Getters,       \* requests that may overlap
  Unpublished,   \* versions for which the loader returns null
  MaxToolWrites, \* bound: versions of the tool
  Ttl,           \* ttlSeconds, in ticks
  Patience,      \* ticks from the load of a request to its set
  MaxRedisFaults \* bound: calls of Redis that reject, and crashes

ASSUME CacheAssumption ==
  /\ MaxToolWrites \in Nat \ {0} /\ Unpublished \subseteq Nat
  /\ Ttl \in Nat \ {0} /\ Patience \in Nat /\ MaxRedisFaults \in Nat

VARIABLES
  stored,        \* the version of the tool in the database
  cached,        \* the version in the entry, 0 if there is none
  cachedTtl,     \* ticks until it expires
  hashed,        \* the key of the entry is hashed
  gpc,           \* of each request: the await executed next
  gValue,        \* of each request: the version it has loaded
  gHeld,         \* of each request: ticks since it loaded it
  purging,       \* 0, or the version stored when a purge listed the key
  redisFaults,   \* calls that rejected
  \* History:
  ages,          \* of each version: ticks since it was replaced
  oldest,        \* the greatest age of a version when it was answered
  purgedTo,      \* the version stored when the last complete purge listed the keys
  acrossPurge    \* a request held an older version when a purge listed the keys

getters    == <<gpc, gValue, gHeld>>
cacheAside == <<stored, cached, cachedTtl, hashed, getters, purging, redisFaults, ages,
                oldest, purgedTo, acrossPurge>>

ToolWrites == 1..MaxToolWrites
MaxAge == Ttl + Patience

CacheInit ==
  /\ stored = 1
  /\ cached = 0 /\ cachedTtl = 0
  /\ hashed \in BOOLEAN
  /\ gpc = [g \in Getters |-> "idle"]
  /\ gValue = [g \in Getters |-> 0]
  /\ gHeld = [g \in Getters |-> 0]
  /\ purging = 0 /\ redisFaults = 0
  /\ ages = [v \in ToolWrites |-> 0]
  /\ oldest = 0 /\ purgedTo = 0 /\ acrossPurge = FALSE

\* A growth job, an editor or an automatic update.
WriteTool ==
  /\ stored < MaxToolWrites
  /\ stored' = stored + 1
  /\ UNCHANGED <<cached, cachedTtl, hashed, getters, purging, redisFaults, ages, oldest,
                 purgedTo, acrossPurge>>

-----------------------------------------------------------------------------
(* withCache *)

GetterGoto(g, p) == gpc' = [gpc EXCEPT ![g] = p]
GetterLeave(g) ==
  /\ GetterGoto(g, "idle")
  /\ gValue' = [gValue EXCEPT ![g] = 0]
  /\ gHeld' = [gHeld EXCEPT ![g] = 0]
Answers(v) == oldest' = Max({oldest, ages[v]})

GetRequest(g) ==
  /\ gpc[g] = "idle"
  /\ GetterGoto(g, "get")
  /\ UNCHANGED <<stored, cached, cachedTtl, hashed, gValue, gHeld, purging, redisFaults,
                 ages, oldest, purgedTo, acrossPurge>>

Hit == cached \notin {0} \union Unpublished

\* The time to live of an entry that is read.  (Mutant: it begins anew.)
Renewed == Ttl
Unrenewed == cachedTtl

GetHit(g) ==
  /\ gpc[g] = "get" /\ Hit
  /\ cachedTtl' = Unrenewed
  /\ Answers(cached)
  /\ GetterLeave(g)
  /\ UNCHANGED <<stored, cached, hashed, purging, redisFaults, ages, purgedTo,
                 acrossPurge>>

GetMiss(g) ==
  /\ gpc[g] = "get" /\ ~Hit
  /\ GetterGoto(g, "load")
  /\ UNCHANGED <<stored, cached, cachedTtl, hashed, gValue, gHeld, purging, redisFaults,
                 ages, oldest, purgedTo, acrossPurge>>

Load(g) ==
  /\ gpc[g] = "load"
  /\ gValue' = [gValue EXCEPT ![g] = stored]
  /\ GetterGoto(g, "set")
  /\ UNCHANGED <<stored, cached, cachedTtl, hashed, gHeld, purging, redisFaults, ages,
                 oldest, purgedTo, acrossPurge>>

SetEntry(g) ==
  /\ gpc[g] = "set"
  /\ cached' = gValue[g] /\ cachedTtl' = Ttl
  /\ Answers(gValue[g])
  /\ GetterLeave(g)
  /\ UNCHANGED <<stored, hashed, purging, redisFaults, ages, purgedTo, acrossPurge>>

\* A call rejects, the set perhaps after it took effect, or the API dies.
GetFault(g) ==
  /\ gpc[g] # "idle"
  /\ redisFaults < MaxRedisFaults
  /\ redisFaults' = redisFaults + 1
  /\ \/ UNCHANGED <<cached, cachedTtl>>
     \/ gpc[g] = "set" /\ cached' = gValue[g] /\ cachedTtl' = Ttl
  /\ GetterLeave(g)
  /\ UNCHANGED <<stored, hashed, purging, ages, oldest, purgedTo, acrossPurge>>

-----------------------------------------------------------------------------
(* invalidatePublicCaches: keys, and then del of those it listed *)

PurgeList ==
  /\ purging = 0
  /\ IF cached # 0 /\ ~hashed
     THEN purging' = stored /\ UNCHANGED purgedTo
     ELSE purgedTo' = stored /\ UNCHANGED purging
  /\ acrossPurge' = (acrossPurge \/ \E g \in Getters : gValue[g] \notin {0, stored})
  /\ UNCHANGED <<stored, cached, cachedTtl, hashed, getters, redisFaults, ages, oldest>>

PurgeDelete ==
  /\ purging # 0
  /\ cached' = 0 /\ cachedTtl' = 0
  /\ purgedTo' = purging
  /\ purging' = 0
  /\ UNCHANGED <<stored, hashed, getters, redisFaults, ages, oldest, acrossPurge>>

\* A rejection is caught and logged: the entry stays.
PurgeFault ==
  /\ purging # 0
  /\ redisFaults < MaxRedisFaults
  /\ redisFaults' = redisFaults + 1
  /\ purging' = 0
  /\ UNCHANGED <<stored, cached, cachedTtl, hashed, getters, ages, oldest, purgedTo,
                 acrossPurge>>

-----------------------------------------------------------------------------
CacheTick ==
  /\ \A g \in Getters : gHeld[g] < Patience
  /\ gHeld' = [g \in Getters |-> IF gValue[g] = 0 THEN 0 ELSE gHeld[g] + 1]
  /\ cachedTtl' = IF cachedTtl > 0 THEN cachedTtl - 1 ELSE 0
  /\ cached' = IF cachedTtl > 1 THEN cached ELSE 0
  /\ ages' = [v \in ToolWrites |->
                IF v < stored /\ ages[v] < MaxAge THEN ages[v] + 1 ELSE ages[v]]
  /\ UNCHANGED <<stored, hashed, gpc, gValue, purging, redisFaults, oldest, purgedTo,
                 acrossPurge>>

CacheNext ==
  \/ WriteTool \/ PurgeList \/ PurgeDelete \/ PurgeFault \/ CacheTick
  \/ \E g \in Getters : GetRequest(g) \/ GetHit(g) \/ GetMiss(g) \/ Load(g)
                        \/ SetEntry(g) \/ GetFault(g)

CacheSpec == CacheInit /\ [][CacheNext]_cacheAside

-----------------------------------------------------------------------------
(* Properties *)

CacheTypeOK ==
  /\ stored \in ToolWrites
  /\ cached \in 0..stored /\ cachedTtl \in 0..Ttl
  /\ cached = 0 <=> cachedTtl = 0
  /\ hashed \in BOOLEAN
  /\ gpc \in [Getters -> {"idle", "get", "load", "set"}]
  /\ gValue \in [Getters -> 0..stored] /\ gHeld \in [Getters -> 0..Patience]
  /\ purging \in 0..stored /\ purgedTo \in 0..stored
  /\ redisFaults \in 0..MaxRedisFaults
  /\ ages \in [ToolWrites -> 0..MaxAge] /\ oldest \in 0..MaxAge
  /\ acrossPurge \in BOOLEAN

\* No answer is older than the time to live and the time of one request, although
\* nobody invalidates an entry and a request may set what it loaded before a
\* write; and a complete purge leaves no older version in the entry, unless a
\* request held one meanwhile or the key is hashed.
StaleBounded ==
  /\ oldest < MaxAge
  /\ ~acrossPurge /\ ~hashed => cached = 0 \/ cached >= purgedTo
=============================================================================
