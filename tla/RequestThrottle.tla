---------------------------- MODULE RequestThrottle ----------------------------
(***************************************************************************)
(* The limit of requests of one client: increment of                       *)
(* apps/api/src/common/throttler/redis-throttler.storage.ts.               *)
(*                                                                         *)
(* A counter key counts the requests of a window; the request that creates *)
(* it gives it its time to live, in a Redis call of its own.  A request    *)
(* over the limit creates a block key in the same way: while it lives the  *)
(* client is refused without being counted.  Requests of the client        *)
(* overlap, and the process may die between any two calls: a key that has  *)
(* not got its time to live then lives for ever.                           *)
(*                                                                         *)
(* Redis counts whole seconds of Second ticks, Window and BlockTime are in *)
(* ticks.  The counts a client is told, and the reads for them, are left   *)
(* out, and so is an API without Redis, which refuses nobody.              *)
(***************************************************************************)
EXTENDS Naturals

CONSTANTS
  Requests,      \* requests of the client that may overlap
  Limit,         \* requests admitted in a window
  Window,        \* ttl
  BlockTime,     \* blockDuration
  Second,        \* ticks of a second
  MaxHits,       \* bound: value of the counter
  MaxDrops       \* bound: requests that die or are rejected by Redis

ASSUME ThrottleAssumption ==
  /\ Limit \in Nat /\ MaxHits \in Nat /\ MaxDrops \in Nat
  /\ Window \in Nat \ {0} /\ BlockTime \in Nat \ {0} /\ Second \in Nat \ {0}

VARIABLES
  counter,       \* the counter key, 0 if there is none
  counterTtl,    \* its time to live, 0 if it has none
  block,         \* there is a block key
  blockTtl,      \* its time to live, 0 if it has none
  qpc,           \* of each request: the Redis call executed next
  hits,          \* of each request: totalHits
  drops,         \* requests that died
  \* History:
  recent         \* requests admitted in the last i ticks, for each i in 1..Window

throttle == <<counter, counterTtl, block, blockTtl, qpc, hits, drops, recent>>

QGoto(q, p) == qpc' = [qpc EXCEPT ![q] = p]
Answered(q) == QGoto(q, "idle") /\ hits' = [hits EXCEPT ![q] = 0]

ThrottleInit ==
  /\ counter = 0 /\ counterTtl = 0
  /\ block = FALSE /\ blockTtl = 0
  /\ qpc = [q \in Requests |-> "idle"]
  /\ hits = [q \in Requests |-> 0]
  /\ drops = 0
  /\ recent = [i \in 1..Window |-> 0]

-----------------------------------------------------------------------------
\* Milliseconds to seconds: Math.max(1, Math.ceil(ms / 1000)).
InSeconds(t) == IF t % Second = 0 THEN t ELSE t + Second - (t % Second)

\* The request is refused.  (Mutant: one too late.)
ExceedsLate(h) == h > Limit + 1
Exceeds(h) == h > Limit

\* A request arrives and asks whether the client is blocked: pttl > 0.
Arrive(q) ==
  /\ qpc[q] = "idle"
  /\ counter < MaxHits
  /\ QGoto(q, IF block /\ blockTtl > 0 THEN "idle" ELSE "incr")
  /\ UNCHANGED <<counter, counterTtl, block, blockTtl, hits, drops, recent>>

\* INCR keeps the time to live the key has.
Increment(q) ==
  /\ qpc[q] = "incr"
  /\ counter' = counter + 1
  /\ hits' = [hits EXCEPT ![q] = counter']
  /\ QGoto(q, IF counter' = 1 THEN "expire" ELSE "limit")
  /\ recent' = IF Exceeds(counter') THEN recent ELSE [i \in 1..Window |-> recent[i] + 1]
  /\ UNCHANGED <<counterTtl, block, blockTtl, drops>>

\* The time to live of a new counter.  (Mutant: none.)
NoTtl == counterTtl
NewTtl == InSeconds(Window)

ExpireCounter(q) ==
  /\ qpc[q] = "expire"
  /\ counterTtl' = NewTtl
  /\ QGoto(q, "limit")
  /\ UNCHANGED <<counter, block, blockTtl, hits, drops, recent>>

Admit(q) ==
  /\ qpc[q] = "limit"
  /\ ~Exceeds(hits[q])
  /\ Answered(q)
  /\ UNCHANGED <<counter, counterTtl, block, blockTtl, drops, recent>>

SetBlock(q) ==
  /\ qpc[q] = "limit"
  /\ Exceeds(hits[q])
  /\ block' = TRUE
  /\ QGoto(q, "block")
  /\ UNCHANGED <<counter, counterTtl, blockTtl, hits, drops, recent>>

\* EXPIRE of a key that has expired since does nothing.
ExpireBlock(q) ==
  /\ qpc[q] = "block"
  /\ blockTtl' = IF block THEN InSeconds(BlockTime) ELSE blockTtl
  /\ Answered(q)
  /\ UNCHANGED <<counter, counterTtl, block, drops, recent>>

\* A call of Redis rejects or the API dies: the request has no further calls.
Drop(q) ==
  /\ qpc[q] # "idle"
  /\ drops < MaxDrops
  /\ drops' = drops + 1
  /\ Answered(q)
  /\ UNCHANGED <<counter, counterTtl, block, blockTtl, recent>>

Tick ==
  /\ counterTtl' = IF counterTtl > 0 THEN counterTtl - 1 ELSE 0
  /\ counter' = IF counterTtl = 1 THEN 0 ELSE counter
  /\ blockTtl' = IF blockTtl > 0 THEN blockTtl - 1 ELSE 0
  /\ block' = (block /\ blockTtl # 1)
  /\ recent' = [i \in 1..Window |-> IF i = 1 THEN 0 ELSE recent[i - 1]]
  /\ UNCHANGED <<qpc, hits, drops>>

-----------------------------------------------------------------------------
QWork(q) ==
  Increment(q) \/ ExpireCounter(q) \/ Admit(q) \/ SetBlock(q) \/ ExpireBlock(q)

ThrottleNext ==
  \/ \E q \in Requests : Arrive(q) \/ QWork(q) \/ Drop(q)
  \/ Tick

\* Time passes and Redis answers.
ThrottleFair == WF_throttle(Tick) /\ \A q \in Requests : WF_throttle(QWork(q))
ThrottleSpec == ThrottleInit /\ [][ThrottleNext]_throttle /\ ThrottleFair

-----------------------------------------------------------------------------
(* Properties *)

ThrottleTypeOK ==
  /\ counter \in Nat /\ counterTtl \in 0..(Window + Second)
  /\ block \in BOOLEAN /\ blockTtl \in 0..(BlockTime + Second)
  /\ qpc \in [Requests -> {"idle", "incr", "expire", "limit", "block"}]
  /\ hits \in [Requests -> Nat]
  /\ drops \in 0..MaxDrops
  /\ recent \in [1..Window -> Nat]

\* In any span of a window's length a client is admitted at most twice the limit,
\* at the end of one window and the beginning of the next, whatever overlaps or
\* dies in the middle of its calls.
BurstBounded == recent[Window] <= 2 * Limit

\* The counter of a client expires, and with it the refusals: a counter lives for
\* ever only if a request died before it gave it its time to live.
CounterExpires == (counter > 0) ~> (counter = 0 \/ drops > 0)
=============================================================================
