--------------------------- MODULE WebhookDelivery ---------------------------
(***************************************************************************)
(* One webhook event: packages/api-platform and the webhook worker of      *)
(* apps/worker/src/platform-worker.ts.                                     *)
(*                                                                         *)
(* emitWebhookEvent creates one delivery row per subscribed webhook and    *)
(* then enqueues all of them at once: Promise.all rejects with the first   *)
(* rejection while the other enqueues go on.  The emitter is a queue task  *)
(* itself (a growth job, an AI stage), so it is executed again, with new   *)
(* rows.  A worker posts a delivery, records the answer in the row, and    *)
(* throws if the receiver did not accept it, so that BullMQ retries.       *)
(*                                                                         *)
(* The receiver may accept a post whose answer is lost (15 s timeout).     *)
(* Signature, payload and response body are left out.  A crash and a       *)
(* rejection both cost a try.                                              *)
(***************************************************************************)
EXTENDS Naturals, FiniteSets, Sequences

CONSTANTS
  Hooks,         \* active webhooks subscribed to the event
  Concurrency,   \* deliveries that workers execute at the same time
  MaxSends,      \* executions of a task before BullMQ gives it up
  MaxRows,       \* bound: delivery rows
  MaxLosses      \* bound: rejected awaits and crashes

ASSUME WebhookAssumption ==
  /\ IsFiniteSet(Hooks)
  /\ Concurrency \in Nat \ {0}
  /\ MaxSends \in Nat \ {0} /\ MaxLosses \in Nat
  /\ MaxRows \in Nat /\ MaxRows >= MaxSends * Cardinality(Hooks)

VARIABLES
  deliveries,    \* the webhook_deliveries rows of the event
  emitter,       \* the emitter: the await executed next, or how it ended
  emits,         \* failed executions of the emitter
  uncreated,     \* webhooks it has found and not created a row for
  created,       \* rows of the emitter's current execution
  inFlight,      \* rows whose enqueue has been called and has not settled
  sendState,     \* of each row: its task in the queue
  spc,           \* of each row: the await its worker executes next
  sAttempts,     \* of each row: the attempts its worker has read
  accepted,      \* rows the receiver accepted a post of
  sends,         \* failed executions of each row's task
  losses,        \* rejected awaits and crashes
  posts          \* history: posts of each row

webhook == <<deliveries, emitter, emits, uncreated, created, inFlight, sendState,
             spc, sAttempts, accepted, sends, losses, posts>>

RowIds == 1..MaxRows
Delivery == [hook : Hooks, status : {"PENDING", "DELIVERED", "FAILED"}, attempts : Nat]

WebhookInit ==
  /\ deliveries = << >>
  /\ emitter = "idle" /\ emits = 0
  /\ uncreated = {} /\ created = {} /\ inFlight = {}
  /\ sendState = [d \in RowIds |-> "none"]
  /\ spc = [d \in RowIds |-> "idle"]
  /\ sAttempts = [d \in RowIds |-> 0]
  /\ accepted = {}
  /\ sends = [d \in RowIds |-> 0]
  /\ losses = 0
  /\ posts = [d \in RowIds |-> 0]

worker == <<sendState, spc, sAttempts, accepted, sends, posts>>

Lose == losses < MaxLosses /\ losses' = losses + 1

-----------------------------------------------------------------------------
(* emitWebhookEvent *)

DispatchFind ==
  /\ emitter = "idle"
  /\ uncreated' = Hooks
  /\ created' = {}
  /\ emitter' = "create"
  /\ UNCHANGED <<deliveries, emits, inFlight, worker, losses>>

NewDelivery(h) == [hook |-> h, status |-> "PENDING", attempts |-> 0]

\* In the order of findMany, which does not matter.
DispatchCreate ==
  /\ emitter = "create" /\ uncreated # {}
  /\ LET h == CHOOSE h \in uncreated : TRUE
     IN /\ deliveries' = Append(deliveries, NewDelivery(h))
        /\ uncreated' = uncreated \ {h}
  /\ created' = created \union {Len(deliveries')}
  /\ UNCHANGED <<emitter, emits, inFlight, worker, losses>>

\* Promise.all calls every enqueue.  (Mutant: it takes the last row only.)
LastCreated == {d \in created : \A e \in created : e <= d}
Dispatched == created

EnqueueAll ==
  /\ emitter = "create" /\ uncreated = {}
  /\ inFlight' = inFlight \union Dispatched
  /\ emitter' = "enqueue"
  /\ UNCHANGED <<deliveries, emits, uncreated, created, worker, losses>>

EnqueueDelivery(d) ==
  /\ d \in inFlight
  /\ inFlight' = inFlight \ {d}
  /\ sendState' = [sendState EXCEPT ![d] = "waiting"]
  /\ UNCHANGED <<deliveries, emitter, emits, uncreated, created, spc, sAttempts,
                 accepted, sends, losses, posts>>

Emitted ==
  /\ emitter = "enqueue"
  /\ created \intersect inFlight = {}
  /\ emitter' = "done"
  /\ created' = {}
  /\ UNCHANGED <<deliveries, emits, uncreated, inFlight, worker, losses>>

\* The emitter's task is executed again, or given up.
EmitterFails ==
  /\ emits' = emits + 1
  /\ emitter' = IF emits' < MaxSends THEN "idle" ELSE "failed"
  /\ uncreated' = {} /\ created' = {}
  /\ UNCHANGED <<deliveries, worker>>

\* An enqueue rejects, and with it the emitter if it still waits for it; the
\* other enqueues go on.
EnqueueReject(d) ==
  /\ Lose
  /\ d \in inFlight
  /\ inFlight' = inFlight \ {d}
  /\ IF d \in created
     THEN EmitterFails
     ELSE UNCHANGED <<deliveries, emitter, emits, uncreated, created, worker>>

DispatchReject ==
  /\ Lose
  /\ emitter = "create"
  /\ EmitterFails
  /\ UNCHANGED inFlight

EmitterCrash ==
  /\ Lose
  /\ emitter \in {"create", "enqueue"}
  /\ inFlight' = {}
  /\ EmitterFails

-----------------------------------------------------------------------------
(* deliverWebhook *)

sending == <<deliveries, emitter, emits, uncreated, created, inFlight>>

SendAt(d, p) == sendState[d] = "active" /\ spc[d] = p

SendTake(d) ==
  /\ sendState[d] = "waiting"
  /\ Cardinality({e \in RowIds : sendState[e] = "active"}) < Concurrency
  /\ sendState' = [sendState EXCEPT ![d] = "active"]
  /\ spc' = [spc EXCEPT ![d] = "read"]
  /\ UNCHANGED <<sending, sAttempts, accepted, sends, losses, posts>>

SendLeave(d, s) ==
  /\ sendState' = [sendState EXCEPT ![d] = s]
  /\ spc' = [spc EXCEPT ![d] = "idle"]
  /\ sAttempts' = [sAttempts EXCEPT ![d] = 0]

\* The execution throws: BullMQ retries the task or gives it up.  (Mutants: the
\* handler does not look at result.ok; the task is retried for ever.)
AfterIgnored(d) == "done"
AfterForever(d) == "waiting"
AfterThrow(d) == IF sends[d] + 1 < MaxSends THEN "waiting" ELSE "dead"

SendThrow(d) ==
  /\ SendLeave(d, AfterThrow(d))
  /\ sends' = [sends EXCEPT ![d] = @ + 1]

SendRead(d) ==
  /\ SendAt(d, "read")
  /\ deliveries[d].status # "DELIVERED"
  /\ sAttempts' = [sAttempts EXCEPT ![d] = deliveries[d].attempts]
  /\ spc' = [spc EXCEPT ![d] = "post"]
  /\ UNCHANGED <<sending, sendState, accepted, sends, losses, posts>>

SendNothing(d) ==
  /\ SendAt(d, "read")
  /\ deliveries[d].status = "DELIVERED"
  /\ SendLeave(d, "done")
  /\ UNCHANGED <<sending, accepted, sends, losses, posts>>

\* The receiver accepts or not, and the answer arrives or not.
Post(d) ==
  /\ SendAt(d, "post")
  /\ posts' = [posts EXCEPT ![d] = @ + 1]
  /\ \E takes, answers \in BOOLEAN :
       /\ accepted' = IF takes THEN accepted \union {d} ELSE accepted
       /\ spc' = [spc EXCEPT ![d] =
                    IF ~answers THEN "catch" ELSE IF takes THEN "ok" ELSE "refused"]
  /\ UNCHANGED <<sending, sendState, sAttempts, sends, losses>>

\* (Mutant: the counter of the row, not the one read, is incremented.)
RecordedAgain(d, s) == [deliveries EXCEPT ![d].status = s, ![d].attempts = @ + 1]
Recorded(d, s) == [deliveries EXCEPT ![d].status = s, ![d].attempts = sAttempts[d] + 1]

SendOk(d) ==
  /\ SendAt(d, "ok")
  /\ deliveries' = Recorded(d, "DELIVERED")
  /\ SendLeave(d, "done")
  /\ UNCHANGED <<emitter, emits, uncreated, created, inFlight, accepted, sends,
                 losses, posts>>

\* An answer that is not ok, or none: FAILED either way, and the handler throws.
SendFailed(d) ==
  /\ SendAt(d, "refused") \/ SendAt(d, "catch")
  /\ deliveries' = Recorded(d, "FAILED")
  /\ SendThrow(d)
  /\ UNCHANGED <<emitter, emits, uncreated, created, inFlight, accepted, losses, posts>>

\* The update in the try block rejects, whether or not it took effect.
UpdateReject(d) ==
  /\ Lose
  /\ SendAt(d, "ok") \/ SendAt(d, "refused")
  /\ \/ deliveries' = Recorded(d, IF spc[d] = "ok" THEN "DELIVERED" ELSE "FAILED")
     \/ UNCHANGED deliveries
  /\ spc' = [spc EXCEPT ![d] = "catch"]
  /\ UNCHANGED <<emitter, emits, uncreated, created, inFlight, sendState, sAttempts,
                 accepted, sends, posts>>

\* An await outside the try block rejects, or the worker dies.
SendFault(d) ==
  /\ Lose
  /\ sendState[d] = "active"
  /\ SendThrow(d)
  /\ UNCHANGED <<sending, accepted, posts>>

-----------------------------------------------------------------------------
WebhookQuiet ==
  /\ emitter \in {"done", "failed"} /\ inFlight = {}
  /\ \A d \in RowIds : sendState[d] \notin {"waiting", "active"}
WebhookRest == WebhookQuiet /\ UNCHANGED webhook

EmitWork == DispatchFind \/ DispatchCreate \/ EnqueueAll \/ Emitted
            \/ \E d \in RowIds : EnqueueDelivery(d)
SendWork(d) == SendTake(d) \/ SendRead(d) \/ SendNothing(d) \/ Post(d) \/ SendOk(d)
               \/ SendFailed(d)

WebhookNext ==
  \/ EmitWork \/ DispatchReject \/ EmitterCrash
  \/ \E d \in RowIds : SendWork(d) \/ EnqueueReject(d) \/ UpdateReject(d) \/ SendFault(d)
  \/ WebhookRest

\* Workers poll for ever and awaits settle.
WebhookFair ==
  /\ WF_webhook(EmitWork)
  /\ \A d \in RowIds : WF_webhook(SendWork(d))
WebhookSpec == WebhookInit /\ [][WebhookNext]_webhook /\ WebhookFair

-----------------------------------------------------------------------------
(* Properties *)

WebhookTypeOK ==
  /\ deliveries \in Seq(Delivery) /\ Len(deliveries) <= MaxRows
  /\ emitter \in {"idle", "create", "enqueue", "done", "failed"}
  /\ emits \in 0..MaxSends
  /\ uncreated \subseteq Hooks
  /\ created \subseteq DOMAIN deliveries
  /\ inFlight \subseteq DOMAIN deliveries
  /\ sendState \in [RowIds -> {"none", "waiting", "active", "done", "dead"}]
  /\ \A d \in RowIds : sendState[d] # "none" => d \in DOMAIN deliveries
  /\ spc \in [RowIds -> {"idle", "read", "post", "ok", "refused", "catch"}]
  /\ sAttempts \in [RowIds -> Nat]
  /\ accepted \subseteq DOMAIN deliveries
  /\ sends \in [RowIds -> 0..MaxSends]
  /\ losses \in 0..MaxLosses
  /\ posts \in [RowIds -> Nat]

\* The attempts a row shows were all made, also when the update that recorded
\* one of them was repeated by the catch block; and only a fault hides a post.
AttemptsBacked ==
  \A d \in DOMAIN deliveries :
    /\ deliveries[d].attempts <= posts[d]
    /\ posts[d] <= deliveries[d].attempts + losses
                     + (IF spc[d] \in {"ok", "refused", "catch"} THEN 1 ELSE 0)

\* When nothing is left to do, a delivery was accepted and is DELIVERED, or its
\* task was given up, or a fault kept it from being enqueued: no row says FAILED
\* or PENDING while everybody believes it is done.
EveryDeliverySettles ==
  WebhookQuiet => \A d \in DOMAIN deliveries :
    \/ deliveries[d].status = "DELIVERED" /\ d \in accepted
    \/ sendState[d] = "dead"
    \/ deliveries[d].status = "PENDING" /\ sendState[d] = "none" /\ losses > 0

\* Once emitWebhookEvent has returned, every webhook accepts the event at least
\* once or has a delivery that was given up.
ReachedOrGivenUp(h) ==
  \E d \in DOMAIN deliveries :
    deliveries[d].hook = h /\ (d \in accepted \/ sendState[d] = "dead")
EventReaches == \A h \in Hooks : (emitter = "done") ~> ReachedOrGivenUp(h)
=============================================================================
