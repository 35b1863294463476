--------------------------- MODULE PlatformProofs ---------------------------
(***************************************************************************)
(* Proofs about what the API platform does for its clients: the delivery   *)
(* of webhooks and the limit of requests, for every set of webhooks and    *)
(* requests, every limit, and any number of workers, executions and faults.*)
(***************************************************************************)
EXTENDS WebhookDelivery, RequestThrottle, FiniteSetTheorems, TLAPS

-----------------------------------------------------------------------------
(* WebhookDelivery: its inductive invariants *)

\* Each execution of the emitter creates at most one row per webhook.
RowsBounded ==
  LET hooks == Cardinality(Hooks)
  IN /\ emitter \in {"idle", "create", "enqueue"} => emits < MaxSends
     /\ emitter = "idle" => Len(deliveries) <= emits * hooks
     /\ emitter = "create" =>
          Len(deliveries) + Cardinality(uncreated) <= emits * hooks + hooks
     /\ emitter = "enqueue" => Len(deliveries) <= emits * hooks + hooks

\* A task that can still run has an execution left, and only an active one is at
\* an await.
Budgeted ==
  \A d \in RowIds :
    /\ sendState[d] \in {"none", "waiting", "active"} => sends[d] < MaxSends
    /\ sendState[d] # "active" => spc[d] = "idle"

\* Rows that no enqueue has reached have no task.
Unqueued ==
  /\ \A d \in inFlight : sendState[d] = "none"
  /\ created # {} => emitter \in {"create", "enqueue"}
  /\ emitter = "create" =>
       \A d \in created : sendState[d] = "none" /\ d \notin inFlight

DeliveriesTypeInv == WebhookTypeOK /\ RowsBounded /\ Budgeted /\ Unqueued

\* The attempts that the handler of d has read, and the posts since.
Counted(d) ==
  /\ deliveries[d].attempts <= posts[d]
  /\ posts[d] <= deliveries[d].attempts + losses
                   + (IF spc[d] \in {"ok", "refused", "catch"} THEN 1 ELSE 0)
  /\ spc[d] = "post" =>
       sAttempts[d] <= posts[d] /\ posts[d] <= sAttempts[d] + losses
  /\ spc[d] \in {"ok", "refused", "catch"} =>
       sAttempts[d] + 1 <= posts[d] /\ posts[d] <= sAttempts[d] + 1 + losses

CountInv ==
  \A d \in RowIds : IF d \in DOMAIN deliveries THEN Counted(d) ELSE posts[d] = 0

\* Where a row is on its way to the receiver.
Placed(d) ==
  /\ deliveries[d].status = "DELIVERED" \/ spc[d] = "ok" => d \in accepted
  /\ sendState[d] = "done" => deliveries[d].status = "DELIVERED"
  /\ sendState[d] = "none" =>
       /\ deliveries[d].status = "PENDING"
       /\ \/ d \in inFlight \/ losses > 0
          \/ emitter = "create" /\ d \in created

SettleInv == \A d \in DOMAIN deliveries : Placed(d)

-----------------------------------------------------------------------------
(* Lemmas about the operators of WebhookDelivery *)

LEMMA HooksCounted == IsFiniteSet(Hooks) /\ Cardinality(Hooks) \in Nat
BY WebhookAssumption, FS_CardinalityType

LEMMA RowsTyped ==
  ASSUME WebhookTypeOK
  PROVE  /\ Len(deliveries) \in Nat
         /\ DOMAIN deliveries = 1..Len(deliveries)
         /\ DOMAIN deliveries \subseteq RowIds
         /\ \A d \in DOMAIN deliveries : deliveries[d] \in Delivery
<1>1. deliveries \in Seq(Delivery) /\ Len(deliveries) <= MaxRows
  BY DEF WebhookTypeOK
<1>2. Len(deliveries) \in Nat /\ DOMAIN deliveries = 1..Len(deliveries)
  BY <1>1
<1>3. 1..Len(deliveries) \subseteq 1..MaxRows
  BY <1>1, <1>2, WebhookAssumption
<1> QED
  BY <1>1, <1>2, <1>3 DEF RowIds

\* While the emitter creates rows there is room for one more.
LEMMA RoomLeft ==
  ASSUME DeliveriesTypeInv, emitter = "create", uncreated # {}
  PROVE  /\ Len(deliveries) + 1 <= MaxRows
         /\ \A h \in uncreated : Cardinality(uncreated \ {h}) = Cardinality(uncreated) - 1
<1> DEFINE n == Cardinality(Hooks)  u == Cardinality(uncreated)
<1>1. IsFiniteSet(uncreated) /\ u \in Nat /\ u <= n /\ n \in Nat
  BY HooksCounted, FS_Subset, FS_CardinalityType DEF DeliveriesTypeInv, WebhookTypeOK
<1>2. u # 0
  BY <1>1, FS_EmptySet
<1>3. \A h \in uncreated : Cardinality(uncreated \ {h}) = u - 1
  BY <1>1, FS_RemoveElement
<1>4. Len(deliveries) \in Nat /\ emits \in Nat
  BY RowsTyped DEF DeliveriesTypeInv, WebhookTypeOK
<1>5. /\ Len(deliveries) + u <= emits * n + n /\ emits < MaxSends
      /\ MaxSends \in Nat /\ MaxRows \in Nat /\ MaxRows >= MaxSends * n
  BY WebhookAssumption DEF DeliveriesTypeInv, RowsBounded
<1> HIDE DEF n, u
<1>6. emits * n + n <= MaxSends * n
  <2>1. PICK k \in Nat : MaxSends = emits + 1 + k
    <3>1. MaxSends - (emits + 1) \in Nat /\ MaxSends = emits + 1 + (MaxSends - (emits + 1))
      BY <1>4, <1>5
    <3> QED
      BY <3>1
  <2>2. MaxSends * n = emits * n + n + k * n
    BY <1>1, <1>4, <2>1
  <2>3. k * n \in Nat /\ emits * n \in Nat
    BY <1>1, <1>4, <2>1
  <2> QED
    BY <1>1, <2>2, <2>3
<1>7. emits * n \in Nat /\ MaxSends * n \in Nat
  BY <1>1, <1>4, <1>5
<1> QED
  BY <1>1, <1>2, <1>3, <1>4, <1>5, <1>6, <1>7 DEF u

LEMMA RowAppended ==
  ASSUME WebhookTypeOK, NEW new \in Delivery, deliveries' = Append(deliveries, new)
  PROVE  /\ deliveries' \in Seq(Delivery)
         /\ Len(deliveries') = Len(deliveries) + 1
         /\ DOMAIN deliveries' = DOMAIN deliveries \union {Len(deliveries')}
         /\ Len(deliveries') \notin DOMAIN deliveries
         /\ \A d \in DOMAIN deliveries : deliveries'[d] = deliveries[d]
         /\ deliveries'[Len(deliveries')] = new
<1>1. deliveries \in Seq(Delivery)
  BY DEF WebhookTypeOK
<1> QED
  BY <1>1

\* What recording an answer of row r does to the rows.
LEMMA RowRecorded ==
  ASSUME WebhookTypeOK, NEW r \in DOMAIN deliveries,
         NEW s \in {"PENDING", "DELIVERED", "FAILED"}, deliveries' = Recorded(r, s)
  PROVE  /\ deliveries' \in Seq(Delivery)
         /\ Len(deliveries') = Len(deliveries)
         /\ DOMAIN deliveries' = DOMAIN deliveries
         /\ \A d \in DOMAIN deliveries : d # r => deliveries'[d] = deliveries[d]
         /\ deliveries'[r].status = s
         /\ deliveries'[r].attempts = sAttempts[r] + 1
<1>1. /\ deliveries \in Seq(Delivery) /\ r \in RowIds /\ deliveries[r] \in Delivery
      /\ sAttempts[r] \in Nat
  BY RowsTyped DEF WebhookTypeOK
<1> DEFINE new == [deliveries[r] EXCEPT !.status = s, !.attempts = sAttempts[r] + 1]
<1>2. sAttempts[r] + 1 \in Nat
  BY <1>1
<1>3. new \in Delivery /\ new.status = s /\ new.attempts = sAttempts[r] + 1
  <2>1. new = [deliveries[r] EXCEPT !.status = s, !.attempts = sAttempts[r] + 1]
    OBVIOUS
  <2> HIDE DEF new
  <2> QED
    BY <1>1, <1>2, <2>1 DEF Delivery
<1>4. deliveries' = [deliveries EXCEPT ![r] = new]
  BY DEF Recorded
<1> HIDE DEF new
<1> QED
  BY <1>1, <1>3, <1>4

-----------------------------------------------------------------------------
(* The types of the deliveries *)

LEMMA DeliveriesTypeInit == WebhookInit => DeliveriesTypeInv
<1> SUFFICES ASSUME WebhookInit PROVE DeliveriesTypeInv
  OBVIOUS
<1> USE WebhookAssumption DEF WebhookInit
<1>1. /\ deliveries \in Seq(Delivery) /\ Len(deliveries) = 0
      /\ Cardinality(Hooks) \in Nat
  BY HooksCounted
<1>2. WebhookTypeOK
  BY <1>1 DEF WebhookTypeOK
<1>3. RowsBounded
  BY <1>1 DEF RowsBounded
<1>4. Budgeted
  BY DEF Budgeted
<1>5. Unqueued
  BY DEF Unqueued
<1> QED
  BY <1>2, <1>3, <1>4, <1>5 DEF DeliveriesTypeInv

\* A failure of the emitter.
LEMMA EmitterFailsTyped ==
  ASSUME DeliveriesTypeInv, emitter \in {"create", "enqueue"}, EmitterFails,
         inFlight' \subseteq inFlight, losses' \in 0..MaxLosses
  PROVE  DeliveriesTypeInv'
<1> DEFINE n == Cardinality(Hooks)
<1>1. /\ n \in Nat /\ Len(deliveries) \in Nat /\ emits \in Nat /\ MaxSends \in Nat
      /\ emits < MaxSends
  BY HooksCounted, RowsTyped, WebhookAssumption DEF DeliveriesTypeInv, WebhookTypeOK,
     RowsBounded
<1>2. Len(deliveries) <= emits * n + n
  <2>1. CASE emitter = "create"
    <3>1. IsFiniteSet(uncreated) /\ Cardinality(uncreated) \in Nat
      BY HooksCounted, FS_Subset, FS_CardinalityType DEF DeliveriesTypeInv, WebhookTypeOK
    <3>2. emits * n \in Nat
      BY <1>1
    <3> QED
      BY <1>1, <2>1, <3>1, <3>2 DEF DeliveriesTypeInv, RowsBounded
  <2> QED
    BY <2>1 DEF DeliveriesTypeInv, RowsBounded
<1>3. (emits + 1) * n = emits * n + n
  BY <1>1
<1> HIDE DEF n
<1>4. WebhookTypeOK'
  BY <1>1 DEF EmitterFails, worker, DeliveriesTypeInv, WebhookTypeOK
<1>5. RowsBounded'
  BY <1>1, <1>2, <1>3 DEF EmitterFails, worker, RowsBounded, n
<1>6. Budgeted'
  BY DEF EmitterFails, worker, Budgeted, DeliveriesTypeInv
<1>7. Unqueued'
  BY DEF EmitterFails, worker, Unqueued, DeliveriesTypeInv
<1> QED
  BY <1>4, <1>5, <1>6, <1>7 DEF DeliveriesTypeInv

\* An execution of a delivery ends in state s.
LEMMA SendLeaves ==
  ASSUME DeliveriesTypeInv, NEW d \in RowIds, sendState[d] = "active",
         deliveries' \in Seq(Delivery), Len(deliveries') = Len(deliveries),
         DOMAIN deliveries' = DOMAIN deliveries,
         UNCHANGED <<emitter, emits, uncreated, created, inFlight, accepted, posts>>,
         losses' \in 0..MaxLosses,
         \/ SendLeave(d, "done") /\ UNCHANGED sends
         \/ SendThrow(d)
  PROVE  DeliveriesTypeInv'
<1>1. /\ sends \in [RowIds -> 0..MaxSends] /\ sends[d] < MaxSends /\ MaxSends \in Nat
      /\ d \in DOMAIN deliveries
  BY WebhookAssumption DEF DeliveriesTypeInv, WebhookTypeOK, Budgeted
<1>2. /\ \E s \in {"waiting", "done", "dead"} :
           /\ sendState' = [sendState EXCEPT ![d] = s]
           /\ s = "waiting" => sends'[d] < MaxSends
      /\ spc' = [spc EXCEPT ![d] = "idle"]
      /\ sAttempts' = [sAttempts EXCEPT ![d] = 0]
      /\ sends' \in [RowIds -> 0..MaxSends]
      /\ \A e \in RowIds \ {d} : sends'[e] = sends[e]
  BY <1>1 DEF SendThrow, SendLeave, AfterThrow
<1>3. WebhookTypeOK'
  BY <1>1, <1>2 DEF DeliveriesTypeInv, WebhookTypeOK
<1>4. RowsBounded'
  BY DEF DeliveriesTypeInv, RowsBounded
<1>5. Budgeted'
  BY <1>2 DEF DeliveriesTypeInv, Budgeted, WebhookTypeOK
<1>6. Unqueued'
  BY <1>1, <1>2 DEF DeliveriesTypeInv, Unqueued, WebhookTypeOK
<1> QED
  BY <1>3, <1>4, <1>5, <1>6 DEF DeliveriesTypeInv

LEMMA DeliveriesTypeStep ==
  ASSUME DeliveriesTypeInv, [WebhookNext]_webhook
  PROVE  DeliveriesTypeInv'
<1>0. /\ WebhookTypeOK /\ RowsBounded /\ Budgeted /\ Unqueued
      /\ MaxLosses \in Nat /\ MaxSends \in Nat
  BY WebhookAssumption DEF DeliveriesTypeInv
<1>1. CASE DispatchFind
  <2>1. WebhookTypeOK'
    BY <1>0, <1>1 DEF DispatchFind, worker, WebhookTypeOK
  <2>2. RowsBounded'
    <3>1. Len(deliveries) \in Nat /\ emits * Cardinality(Hooks) \in Int
      BY <1>0, RowsTyped, HooksCounted DEF WebhookTypeOK
    <3> QED
      BY <1>0, <1>1, <3>1, HooksCounted DEF DispatchFind, RowsBounded
  <2>3. Budgeted' /\ Unqueued'
    BY <1>0, <1>1 DEF DispatchFind, worker, Budgeted, Unqueued
  <2> QED
    BY <2>1, <2>2, <2>3 DEF DeliveriesTypeInv
<1>2. CASE DispatchCreate
  <2>1. PICK h \in uncreated :
          /\ deliveries' = Append(deliveries, NewDelivery(h))
          /\ uncreated' = uncreated \ {h}
    BY <1>2 DEF DispatchCreate
  <2>2. NewDelivery(h) \in Delivery
    BY <1>0 DEF NewDelivery, Delivery, WebhookTypeOK
  <2>3. /\ deliveries' \in Seq(Delivery) /\ Len(deliveries') = Len(deliveries) + 1
        /\ DOMAIN deliveries' = DOMAIN deliveries \union {Len(deliveries')}
        /\ Len(deliveries') \notin DOMAIN deliveries
    BY <1>0, <2>1, <2>2, RowAppended
  <2>4. /\ Len(deliveries) + 1 <= MaxRows
        /\ Cardinality(uncreated') = Cardinality(uncreated) - 1
        /\ Cardinality(uncreated) \in Nat
    BY <1>0, <1>2, <2>1, RoomLeft, HooksCounted, FS_Subset, FS_CardinalityType
       DEF DispatchCreate, WebhookTypeOK, DeliveriesTypeInv
  <2>5. WebhookTypeOK'
    BY <1>0, <1>2, <2>1, <2>3, <2>4 DEF DispatchCreate, worker, WebhookTypeOK
  <2>6. RowsBounded'
    <3>1. Len(deliveries) \in Nat /\ emits * Cardinality(Hooks) \in Int
      BY <1>0, RowsTyped, HooksCounted DEF WebhookTypeOK
    <3> QED
      BY <1>0, <1>2, <2>3, <2>4, <3>1, HooksCounted DEF DispatchCreate, RowsBounded
  <2>7. Budgeted'
    BY <1>0, <1>2 DEF DispatchCreate, worker, Budgeted
  <2>8. Unqueued'
    <3>1. Len(deliveries') \in RowIds
      BY <1>0, <2>3, <2>4, RowsTyped, WebhookAssumption DEF RowIds
    <3>2. /\ sendState[Len(deliveries')] = "none"
          /\ Len(deliveries') \notin inFlight
      BY <1>0, <2>3, <3>1 DEF WebhookTypeOK
    <3> QED
      BY <1>0, <1>2, <3>2 DEF DispatchCreate, worker, Unqueued
  <2> QED
    BY <2>5, <2>6, <2>7, <2>8 DEF DeliveriesTypeInv
<1>3. CASE EnqueueAll
  <2>1. WebhookTypeOK'
    BY <1>0, <1>3 DEF EnqueueAll, worker, WebhookTypeOK, Dispatched
  <2>2. RowsBounded'
    BY <1>0, <1>3, FS_EmptySet, RowsTyped DEF EnqueueAll, RowsBounded
  <2>3. Budgeted' /\ Unqueued'
    BY <1>0, <1>3 DEF EnqueueAll, worker, Budgeted, Unqueued, Dispatched
  <2> QED
    BY <2>1, <2>2, <2>3 DEF DeliveriesTypeInv
<1>4. CASE Emitted
  BY <1>0, <1>4 DEF Emitted, worker, DeliveriesTypeInv, WebhookTypeOK, RowsBounded,
     Budgeted, Unqueued
<1>5. CASE DispatchReject \/ EmitterCrash
  BY <1>0, <1>5, EmitterFailsTyped DEF DispatchReject, EmitterCrash, Lose, WebhookTypeOK
<1>6. ASSUME NEW d \in RowIds, EnqueueDelivery(d) PROVE DeliveriesTypeInv'
  <2>1. WebhookTypeOK'
    BY <1>0, <1>6 DEF EnqueueDelivery, WebhookTypeOK
  <2>2. RowsBounded'
    BY <1>0, <1>6 DEF EnqueueDelivery, RowsBounded
  <2>3. Budgeted' /\ Unqueued'
    BY <1>0, <1>6 DEF EnqueueDelivery, Budgeted, WebhookTypeOK, Unqueued
  <2> QED
    BY <2>1, <2>2, <2>3 DEF DeliveriesTypeInv
<1>7. ASSUME NEW d \in RowIds, EnqueueReject(d) PROVE DeliveriesTypeInv'
  <2>0. /\ inFlight' \subseteq inFlight /\ losses' \in 0..MaxLosses
    BY <1>0, <1>7 DEF EnqueueReject, Lose, WebhookTypeOK
  <2>1. CASE d \in created
    BY <1>0, <1>7, <2>0, <2>1, EmitterFailsTyped DEF EnqueueReject, Unqueued
  <2>2. CASE d \notin created
    BY <1>0, <1>7, <2>0, <2>2
       DEF EnqueueReject, worker, DeliveriesTypeInv, WebhookTypeOK, RowsBounded,
       Budgeted, Unqueued
  <2> QED
    BY <2>1, <2>2
<1>8. ASSUME NEW d \in RowIds, SendTake(d) PROVE DeliveriesTypeInv'
  <2>1. WebhookTypeOK'
    BY <1>0, <1>8 DEF SendTake, sending, WebhookTypeOK
  <2>2. RowsBounded' /\ Budgeted' /\ Unqueued'
    BY <1>0, <1>8 DEF SendTake, sending, WebhookTypeOK, RowsBounded, Budgeted, Unqueued
  <2> QED
    BY <2>1, <2>2 DEF DeliveriesTypeInv
<1>9. ASSUME NEW d \in RowIds, SendRead(d) \/ Post(d) PROVE DeliveriesTypeInv'
  <2>1. d \in DOMAIN deliveries /\ deliveries[d] \in Delivery
    BY <1>0, <1>9, RowsTyped DEF SendRead, Post, SendAt, WebhookTypeOK
  <2>2. /\ sAttempts' \in [RowIds -> Nat] /\ posts' \in [RowIds -> Nat]
        /\ accepted' \subseteq DOMAIN deliveries
        /\ \E p \in {"post", "ok", "refused", "catch"} : spc' = [spc EXCEPT ![d] = p]
    <3>1. CASE SendRead(d)
      BY <1>0, <2>1, <3>1 DEF SendRead, WebhookTypeOK, Delivery
    <3>2. CASE Post(d)
      <4>1. sAttempts' \in [RowIds -> Nat] /\ posts' \in [RowIds -> Nat]
        BY <1>0, <3>2 DEF Post, WebhookTypeOK
      <4>2. accepted' \subseteq DOMAIN deliveries
        BY <1>0, <2>1, <3>2 DEF Post, WebhookTypeOK
      <4>3. \E p \in {"post", "ok", "refused", "catch"} : spc' = [spc EXCEPT ![d] = p]
        BY <3>2 DEF Post
      <4> QED
        BY <4>1, <4>2, <4>3
    <3> QED
      BY <1>9, <3>1, <3>2
  <2>3. UNCHANGED <<deliveries, emitter, emits, uncreated, created, inFlight, sendState,
                    sends, losses>>
    BY <1>9 DEF SendRead, Post, sending
  <2>4. sendState[d] = "active"
    BY <1>9 DEF SendRead, Post, SendAt
  <2>5. WebhookTypeOK'
    BY <1>0, <2>2, <2>3 DEF WebhookTypeOK
  <2>6. RowsBounded' /\ Budgeted' /\ Unqueued'
    BY <1>0, <2>2, <2>3, <2>4 DEF WebhookTypeOK, RowsBounded, Budgeted, Unqueued
  <2> QED
    BY <2>5, <2>6 DEF DeliveriesTypeInv
<1>10. ASSUME NEW d \in RowIds, SendNothing(d) \/ SendFault(d) PROVE DeliveriesTypeInv'
  <2>1. deliveries \in Seq(Delivery) /\ losses' \in 0..MaxLosses
    BY <1>0, <1>10 DEF SendNothing, SendFault, Lose, WebhookTypeOK
  <2> QED
    BY <1>10, <2>1, SendLeaves DEF SendNothing, SendFault, SendAt, sending
<1>11. ASSUME NEW d \in RowIds, SendOk(d) \/ SendFailed(d) PROVE DeliveriesTypeInv'
  <2>1. /\ d \in DOMAIN deliveries /\ sendState[d] = "active" /\ losses' \in 0..MaxLosses
        /\ \E s \in {"PENDING", "DELIVERED", "FAILED"} : deliveries' = Recorded(d, s)
    BY <1>0, <1>11 DEF SendOk, SendFailed, SendAt, WebhookTypeOK
  <2>2. /\ deliveries' \in Seq(Delivery) /\ Len(deliveries') = Len(deliveries)
        /\ DOMAIN deliveries' = DOMAIN deliveries
    BY <1>0, <2>1, RowRecorded
  <2> QED
    BY <1>11, <2>1, <2>2, SendLeaves DEF SendOk, SendFailed
<1>12. ASSUME NEW d \in RowIds, UpdateReject(d) PROVE DeliveriesTypeInv'
  <2>1. /\ d \in DOMAIN deliveries /\ sendState[d] = "active" /\ losses' \in 0..MaxLosses
        /\ \/ \E s \in {"PENDING", "DELIVERED", "FAILED"} : deliveries' = Recorded(d, s)
           \/ deliveries' = deliveries
    BY <1>0, <1>12 DEF UpdateReject, SendAt, WebhookTypeOK, Lose
  <2>2. /\ deliveries' \in Seq(Delivery) /\ Len(deliveries') = Len(deliveries)
        /\ DOMAIN deliveries' = DOMAIN deliveries
    BY <1>0, <2>1, RowRecorded DEF WebhookTypeOK
  <2>3. WebhookTypeOK'
    BY <1>0, <1>12, <2>1, <2>2 DEF UpdateReject, WebhookTypeOK
  <2>4. RowsBounded' /\ Budgeted' /\ Unqueued'
    BY <1>0, <1>12, <2>1, <2>2
       DEF UpdateReject, WebhookTypeOK, RowsBounded, Budgeted, Unqueued
  <2> QED
    BY <2>3, <2>4 DEF DeliveriesTypeInv
<1>13. CASE UNCHANGED webhook
  BY <1>0, <1>13 DEF webhook, DeliveriesTypeInv, WebhookTypeOK, RowsBounded, Budgeted,
     Unqueued
<1> QED
  BY <1>1, <1>2, <1>3, <1>4, <1>5, <1>6, <1>7, <1>8, <1>9, <1>10, <1>11, <1>12, <1>13
     DEF WebhookNext, EmitWork, SendWork, WebhookRest

\* No fairness is needed.
LEMMA DeliveriesTyped == WebhookInit /\ [][WebhookNext]_webhook => []WebhookTypeOK
<1>1. DeliveriesTypeInv /\ [WebhookNext]_webhook => DeliveriesTypeInv'
  BY DeliveriesTypeStep
<1>2. DeliveriesTypeInv => WebhookTypeOK
  BY DEF DeliveriesTypeInv
<1> QED
  BY DeliveriesTypeInit, <1>1, <1>2, PTL

\* The type invariant of the deliveries of an event, of the task that emits it and of
\* those that deliver it: no more rows than executions times webhooks.
THEOREM DeliveriesTypeCorrect == WebhookSpec => []WebhookTypeOK
BY DeliveriesTyped, PTL DEF WebhookSpec

-----------------------------------------------------------------------------
(* Attempts and posts *)

LEMMA CountStart == WebhookInit => CountInv
BY DEF WebhookInit, CountInv

\* Nothing but the number of losses changes, and that only grows.
LEMMA CountKept ==
  ASSUME DeliveriesTypeInv, CountInv, UNCHANGED <<deliveries, spc, sAttempts, posts>>,
         losses' \in Nat, losses <= losses'
  PROVE  CountInv'
<1>1. /\ losses \in Nat /\ posts \in [RowIds -> Nat] /\ sAttempts \in [RowIds -> Nat]
      /\ \A d \in DOMAIN deliveries : deliveries[d].attempts \in Nat
  BY RowsTyped DEF DeliveriesTypeInv, WebhookTypeOK, Delivery
<1> QED
  BY <1>1 DEF CountInv, Counted

\* A step of the worker of row r leaves the other rows alone.
LEMMA CountOfOthers ==
  ASSUME DeliveriesTypeInv, CountInv, NEW r \in DOMAIN deliveries,
         DOMAIN deliveries' = DOMAIN deliveries,
         losses' \in Nat, losses <= losses',
         \A d \in RowIds \ {r} :
           /\ posts'[d] = posts[d] /\ spc'[d] = spc[d] /\ sAttempts'[d] = sAttempts[d]
           /\ d \in DOMAIN deliveries => deliveries'[d] = deliveries[d],
         Counted(r)'
  PROVE  CountInv'
<1>1. /\ losses \in Nat /\ posts \in [RowIds -> Nat] /\ sAttempts \in [RowIds -> Nat]
      /\ \A d \in DOMAIN deliveries : deliveries[d].attempts \in Nat
  BY RowsTyped DEF DeliveriesTypeInv, WebhookTypeOK, Delivery
<1>2. ASSUME NEW d \in RowIds \ {r}
      PROVE  IF d \in DOMAIN deliveries' THEN Counted(d)' ELSE posts'[d] = 0
  <2>1. CASE d \in DOMAIN deliveries
    BY <1>1, <1>2, <2>1 DEF CountInv, Counted
  <2>2. CASE d \notin DOMAIN deliveries
    BY <1>2, <2>2 DEF CountInv
  <2> QED
    BY <2>1, <2>2
<1> QED
  BY <1>2 DEF CountInv

LEMMA CountStep == ASSUME DeliveriesTypeInv, CountInv, [WebhookNext]_webhook PROVE CountInv'
<1>0. /\ WebhookTypeOK /\ losses \in Nat /\ losses + 1 \in Nat
      /\ posts \in [RowIds -> Nat] /\ sAttempts \in [RowIds -> Nat]
      /\ spc \in [RowIds -> {"idle", "read", "post", "ok", "refused", "catch"}]
      /\ DOMAIN deliveries \subseteq RowIds
      /\ \A d \in DOMAIN deliveries : deliveries[d] \in Delivery /\ Counted(d)
      /\ \A d \in DOMAIN deliveries : deliveries[d].attempts \in Nat
      /\ \A d \in RowIds : sendState[d] = "active" => d \in DOMAIN deliveries
  BY RowsTyped DEF DeliveriesTypeInv, WebhookTypeOK, CountInv, Delivery
<1>1. CASE DispatchCreate
  <2>1. PICK h \in uncreated : deliveries' = Append(deliveries, NewDelivery(h))
    BY <1>1 DEF DispatchCreate
  <2>2. NewDelivery(h) \in Delivery /\ NewDelivery(h).attempts = 0
    BY <1>0 DEF NewDelivery, Delivery, WebhookTypeOK
  <2> DEFINE n == Len(deliveries')
  <2>3. /\ DOMAIN deliveries' = DOMAIN deliveries \union {n} /\ n \notin DOMAIN deliveries
        /\ \A d \in DOMAIN deliveries : deliveries'[d] = deliveries[d]
        /\ deliveries'[n] = NewDelivery(h)
    BY <1>0, <2>1, <2>2, RowAppended
  <2>4. DeliveriesTypeInv'
    BY <1>1, DeliveriesTypeStep DEF WebhookNext, EmitWork
  <2>5. n \in RowIds
    <3>1. deliveries' \in Seq(Delivery) /\ n <= MaxRows
      BY <2>4 DEF DeliveriesTypeInv, WebhookTypeOK
    <3>2. n \in Nat /\ n \in 1..n
      BY <2>3, <3>1
    <3> QED
      BY <3>1, <3>2, WebhookAssumption DEF RowIds
  <2> HIDE DEF n
  <2>6. posts[n] = 0 /\ spc[n] = "idle"
    BY <1>0, <2>3, <2>5 DEF CountInv, DeliveriesTypeInv, Budgeted
  <2>7. UNCHANGED <<posts, spc, sAttempts, losses>>
    BY <1>1 DEF DispatchCreate, worker
  <2>8. ASSUME NEW d \in RowIds
        PROVE  IF d \in DOMAIN deliveries' THEN Counted(d)' ELSE posts'[d] = 0
    <3>1. CASE d = n
      BY <1>0, <2>2, <2>3, <2>5, <2>6, <2>7, <3>1 DEF Counted
    <3>2. CASE d \in DOMAIN deliveries
      BY <1>0, <2>3, <2>7, <3>2 DEF Counted
    <3>3. CASE d # n /\ d \notin DOMAIN deliveries
      BY <2>3, <2>7, <3>3 DEF CountInv
    <3> QED
      BY <3>1, <3>2, <3>3
  <2> QED
    BY <2>8 DEF CountInv
<1>2. CASE DispatchFind \/ EnqueueAll \/ Emitted
           \/ \E d \in RowIds : EnqueueDelivery(d)
  <2>1. UNCHANGED <<deliveries, spc, sAttempts, posts, losses>>
    BY <1>2 DEF DispatchFind, EnqueueAll, Emitted, EnqueueDelivery, worker
  <2> QED
    BY <1>0, <2>1, CountKept
<1>3. CASE DispatchReject \/ EmitterCrash \/ \E d \in RowIds : EnqueueReject(d)
  <2>1. UNCHANGED <<deliveries, spc, sAttempts, posts>> /\ losses' = losses + 1
    BY <1>3 DEF DispatchReject, EmitterCrash, EnqueueReject, EmitterFails, worker, Lose
  <2> QED
    BY <1>0, <2>1, CountKept
<1>4. ASSUME NEW d \in RowIds, SendTake(d) PROVE CountInv'
  <2>1. d \in DOMAIN deliveries
    BY <1>0, <1>4 DEF SendTake, WebhookTypeOK
  <2>2. /\ spc' = [spc EXCEPT ![d] = "read"]
        /\ UNCHANGED <<deliveries, sAttempts, posts, losses>>
        /\ spc[d] = "idle"
    BY <1>0, <1>4 DEF SendTake, sending, DeliveriesTypeInv, Budgeted
  <2>3. Counted(d)'
    BY <1>0, <2>1, <2>2 DEF Counted
  <2> QED
    BY <1>0, <2>1, <2>2, <2>3, CountOfOthers
<1>5. ASSUME NEW d \in RowIds, SendRead(d) PROVE CountInv'
  <2>1. d \in DOMAIN deliveries /\ spc[d] = "read"
    BY <1>0, <1>5 DEF SendRead, SendAt
  <2>2. Counted(d)'
    BY <1>0, <1>5, <2>1 DEF SendRead, sending, Counted
  <2> QED
    BY <1>0, <1>5, <2>1, <2>2, CountOfOthers DEF SendRead, sending
<1>6. ASSUME NEW d \in RowIds, Post(d) PROVE CountInv'
  <2>1. d \in DOMAIN deliveries /\ spc[d] = "post"
    BY <1>0, <1>6 DEF Post, SendAt
  <2>2. /\ \E p \in {"ok", "refused", "catch"} : spc' = [spc EXCEPT ![d] = p]
        /\ posts' = [posts EXCEPT ![d] = @ + 1]
        /\ UNCHANGED <<deliveries, sAttempts, losses>>
    BY <1>6 DEF Post, sending
  <2>3. Counted(d)'
    BY <1>0, <2>1, <2>2 DEF Counted
  <2> QED
    BY <1>0, <2>1, <2>2, <2>3, CountOfOthers
<1>7. ASSUME NEW d \in RowIds, SendNothing(d) \/ SendFault(d) PROVE CountInv'
  <2>1. /\ d \in DOMAIN deliveries /\ UNCHANGED <<deliveries, posts>>
        /\ spc[d] # "read" => losses' = losses + 1
        /\ losses' = losses \/ losses' = losses + 1
        /\ spc' = [spc EXCEPT ![d] = "idle"] /\ sAttempts' = [sAttempts EXCEPT ![d] = 0]
    BY <1>0, <1>7 DEF SendNothing, SendFault, SendThrow, SendLeave, SendAt, sending, Lose
  <2>2. Counted(d)'
    BY <1>0, <2>1 DEF Counted
  <2> QED
    BY <1>0, <2>1, <2>2, CountOfOthers
<1>8. ASSUME NEW d \in RowIds, SendOk(d) \/ SendFailed(d) PROVE CountInv'
  <2>1. /\ d \in DOMAIN deliveries /\ spc[d] \in {"ok", "refused", "catch"}
        /\ \E s \in {"PENDING", "DELIVERED", "FAILED"} : deliveries' = Recorded(d, s)
        /\ spc' = [spc EXCEPT ![d] = "idle"] /\ sAttempts' = [sAttempts EXCEPT ![d] = 0]
        /\ UNCHANGED <<posts, losses>>
    BY <1>0, <1>8 DEF SendOk, SendFailed, SendThrow, SendLeave, SendAt
  <2>2. /\ DOMAIN deliveries' = DOMAIN deliveries
        /\ \A e \in DOMAIN deliveries : e # d => deliveries'[e] = deliveries[e]
        /\ deliveries'[d].attempts = sAttempts[d] + 1
    BY <1>0, <2>1, RowRecorded
  <2>3. Counted(d)'
    BY <1>0, <2>1, <2>2 DEF Counted
  <2> QED
    BY <1>0, <2>1, <2>2, <2>3, CountOfOthers
<1>9. ASSUME NEW d \in RowIds, UpdateReject(d) PROVE CountInv'
  <2>1. /\ d \in DOMAIN deliveries /\ spc[d] \in {"ok", "refused"}
        /\ \/ \E s \in {"PENDING", "DELIVERED", "FAILED"} : deliveries' = Recorded(d, s)
           \/ deliveries' = deliveries
        /\ spc' = [spc EXCEPT ![d] = "catch"]
        /\ UNCHANGED <<posts, sAttempts>> /\ losses' = losses + 1
    BY <1>0, <1>9 DEF UpdateReject, SendAt, Lose
  <2>2. /\ DOMAIN deliveries' = DOMAIN deliveries
        /\ \A e \in DOMAIN deliveries : e # d => deliveries'[e] = deliveries[e]
        /\ \/ deliveries'[d].attempts = sAttempts[d] + 1
           \/ deliveries'[d] = deliveries[d]
    BY <1>0, <2>1, RowRecorded
  <2>3. Counted(d)'
    BY <1>0, <2>1, <2>2 DEF Counted
  <2> QED
    BY <1>0, <2>1, <2>2, <2>3, CountOfOthers
<1>10. CASE UNCHANGED webhook
  BY <1>0, <1>10, CountKept DEF webhook
<1> QED
  BY <1>1, <1>2, <1>3, <1>4, <1>5, <1>6, <1>7, <1>8, <1>9, <1>10
     DEF WebhookNext, EmitWork, SendWork, WebhookRest

\* No fairness is needed.
LEMMA BackedAlways == WebhookInit /\ [][WebhookNext]_webhook => []AttemptsBacked
<1>1. DeliveriesTypeInv /\ CountInv /\ [WebhookNext]_webhook
     => (DeliveriesTypeInv /\ CountInv)'
  BY DeliveriesTypeStep, CountStep
<1>2. DeliveriesTypeInv /\ CountInv => AttemptsBacked
  BY RowsTyped DEF DeliveriesTypeInv, CountInv, Counted, AttemptsBacked
<1> QED
  BY DeliveriesTypeInit, CountStart, <1>1, <1>2, PTL

\* The attempts a row shows were all made, although a worker writes the counter it read
\* before its post, and the catch block writes it again; a post that no row shows is
\* one whose recording a fault prevented.
THEOREM AttemptsAreBacked == WebhookSpec => []AttemptsBacked
BY BackedAlways, PTL DEF WebhookSpec

-----------------------------------------------------------------------------
(* Where the deliveries end *)

LEMMA SettleStart == WebhookInit => SettleInv
BY DEF WebhookInit, SettleInv

\* A step of the worker of row r, whose task has been enqueued.
LEMMA SettleOfOthers ==
  ASSUME DeliveriesTypeInv, SettleInv, NEW r \in DOMAIN deliveries,
         DOMAIN deliveries' = DOMAIN deliveries, accepted \subseteq accepted',
         UNCHANGED <<emitter, created, inFlight>>, losses' = losses \/ losses' = losses + 1,
         \A d \in DOMAIN deliveries \ {r} :
           /\ deliveries'[d] = deliveries[d]
           /\ spc'[d] = spc[d] /\ sendState'[d] = sendState[d],
         Placed(r)'
  PROVE  SettleInv'
<1>1. losses \in Nat
  BY DEF DeliveriesTypeInv, WebhookTypeOK
<1> QED
  BY <1>1 DEF SettleInv, Placed

LEMMA SettleStep ==
  ASSUME DeliveriesTypeInv, SettleInv, [WebhookNext]_webhook
  PROVE  SettleInv'
<1>0. /\ WebhookTypeOK /\ losses \in Nat
      /\ sendState \in [RowIds -> {"none", "waiting", "active", "done", "dead"}]
      /\ spc \in [RowIds -> {"idle", "read", "post", "ok", "refused", "catch"}]
      /\ DOMAIN deliveries \subseteq RowIds
      /\ \A d \in DOMAIN deliveries : deliveries[d] \in Delivery /\ Placed(d)
      /\ \A d \in RowIds : sendState[d] # "none" => d \in DOMAIN deliveries
  BY RowsTyped DEF DeliveriesTypeInv, WebhookTypeOK, SettleInv
<1>1. CASE DispatchCreate
  <2>1. PICK h \in uncreated : deliveries' = Append(deliveries, NewDelivery(h))
    BY <1>1 DEF DispatchCreate
  <2>2. NewDelivery(h) \in Delivery /\ NewDelivery(h).status = "PENDING"
    BY <1>0 DEF NewDelivery, Delivery, WebhookTypeOK
  <2> DEFINE n == Len(deliveries')
  <2>3. /\ DOMAIN deliveries' = DOMAIN deliveries \union {n} /\ n \notin DOMAIN deliveries
        /\ \A d \in DOMAIN deliveries : deliveries'[d] = deliveries[d]
        /\ deliveries'[n] = NewDelivery(h)
    BY <1>0, <2>1, <2>2, RowAppended
  <2>4. DeliveriesTypeInv'
    BY <1>1, DeliveriesTypeStep DEF WebhookNext, EmitWork
  <2>5. n \in RowIds
    <3>1. deliveries' \in Seq(Delivery) /\ n <= MaxRows
      BY <2>4 DEF DeliveriesTypeInv, WebhookTypeOK
    <3>2. n \in Nat /\ n \in 1..n
      BY <2>3, <3>1
    <3> QED
      BY <3>1, <3>2, WebhookAssumption DEF RowIds
  <2>6. /\ emitter' = "create" /\ emitter = "create" /\ created' = created \union {n}
        /\ UNCHANGED <<spc, sendState, accepted, inFlight, losses>>
    BY <1>1 DEF DispatchCreate, worker
  <2> HIDE DEF n
  <2>7. spc[n] = "idle" /\ sendState[n] = "none"
    BY <1>0, <2>3, <2>5 DEF DeliveriesTypeInv, Budgeted
  <2>8. ASSUME NEW d \in DOMAIN deliveries' PROVE Placed(d)'
    <3>1. CASE d = n
      BY <2>2, <2>3, <2>6, <2>7, <3>1 DEF Placed
    <3>2. CASE d \in DOMAIN deliveries
      BY <1>0, <2>3, <2>6, <3>2 DEF Placed
    <3> QED
      BY <2>3, <3>1, <3>2
  <2> QED
    BY <2>8 DEF SettleInv
<1>2. CASE DispatchFind \/ EnqueueAll \/ Emitted
  BY <1>0, <1>2 DEF DispatchFind, EnqueueAll, Emitted, Dispatched, worker, SettleInv, Placed
<1>3. ASSUME NEW d \in RowIds, EnqueueDelivery(d) PROVE SettleInv'
  BY <1>0, <1>3 DEF EnqueueDelivery, SettleInv, Placed, DeliveriesTypeInv, Unqueued
<1>4. CASE DispatchReject \/ EmitterCrash \/ \E d \in RowIds : EnqueueReject(d)
  <2>1. UNCHANGED <<deliveries, spc, sendState, accepted>> /\ losses' = losses + 1
    BY <1>4 DEF DispatchReject, EmitterCrash, EnqueueReject, EmitterFails, worker, Lose
  <2>2. losses' > 0
    BY <1>0, <2>1
  <2> QED
    BY <1>0, <2>1, <2>2 DEF SettleInv, Placed
<1>5. ASSUME NEW d \in RowIds, SendTake(d) PROVE SettleInv'
  <2>1. d \in DOMAIN deliveries
    BY <1>0, <1>5 DEF SendTake
  <2>2. Placed(d)'
    BY <1>0, <1>5, <2>1 DEF SendTake, sending, Placed
  <2> QED
    BY <1>0, <1>5, <2>1, <2>2, SettleOfOthers DEF SendTake, sending
<1>6. ASSUME NEW d \in RowIds, SendRead(d) PROVE SettleInv'
  <2>1. d \in DOMAIN deliveries /\ sendState[d] = "active"
    BY <1>0, <1>6 DEF SendRead, SendAt
  <2>2. Placed(d)'
    BY <1>0, <1>6, <2>1 DEF SendRead, sending, Placed
  <2> QED
    BY <1>0, <1>6, <2>1, <2>2, SettleOfOthers DEF SendRead, sending
<1>7. ASSUME NEW d \in RowIds, Post(d) PROVE SettleInv'
  <2>1. d \in DOMAIN deliveries /\ sendState[d] = "active"
    BY <1>0, <1>7 DEF Post, SendAt
  <2>2. /\ \E p \in {"ok", "refused", "catch"} :
             spc' = [spc EXCEPT ![d] = p] /\ (p = "ok" => d \in accepted')
        /\ accepted \subseteq accepted'
        /\ UNCHANGED <<deliveries, emitter, created, inFlight, sendState, losses>>
    BY <1>7 DEF Post, sending
  <2>3. Placed(d)'
    BY <1>0, <2>1, <2>2 DEF Placed
  <2> QED
    BY <1>0, <2>1, <2>2, <2>3, SettleOfOthers
<1>8. ASSUME NEW d \in RowIds, SendNothing(d) \/ SendFault(d) PROVE SettleInv'
  <2>1. /\ d \in DOMAIN deliveries /\ sendState[d] = "active"
        /\ UNCHANGED <<deliveries, emitter, created, inFlight, accepted>>
        /\ losses' = losses \/ losses' = losses + 1
        /\ spc' = [spc EXCEPT ![d] = "idle"]
        /\ \E s \in {"waiting", "done", "dead"} :
             /\ sendState' = [sendState EXCEPT ![d] = s]
             /\ s = "done" => deliveries[d].status = "DELIVERED"
    BY <1>0, <1>8
       DEF SendNothing, SendFault, SendThrow, SendLeave, SendAt, sending, Lose, AfterThrow
  <2>2. Placed(d)'
    BY <1>0, <2>1 DEF Placed
  <2> QED
    BY <1>0, <2>1, <2>2, SettleOfOthers
<1>9. ASSUME NEW d \in RowIds, SendOk(d) \/ SendFailed(d) PROVE SettleInv'
  <2>1. /\ d \in DOMAIN deliveries
        /\ spc' = [spc EXCEPT ![d] = "idle"]
        /\ UNCHANGED <<emitter, created, inFlight, accepted, losses>>
        /\ \/ /\ deliveries' = Recorded(d, "DELIVERED") /\ spc[d] = "ok"
              /\ sendState' = [sendState EXCEPT ![d] = "done"]
           \/ /\ deliveries' = Recorded(d, "FAILED")
              /\ \E s \in {"waiting", "dead"} : sendState' = [sendState EXCEPT ![d] = s]
    BY <1>0, <1>9 DEF SendOk, SendFailed, SendThrow, SendLeave, SendAt, AfterThrow
  <2>2. /\ DOMAIN deliveries' = DOMAIN deliveries
        /\ \A e \in DOMAIN deliveries : e # d => deliveries'[e] = deliveries[e]
        /\ deliveries' = Recorded(d, "DELIVERED") => deliveries'[d].status = "DELIVERED"
        /\ deliveries' = Recorded(d, "FAILED") => deliveries'[d].status = "FAILED"
    BY <1>0, <2>1, RowRecorded
  <2>3. Placed(d)'
    BY <1>0, <2>1, <2>2 DEF Placed
  <2> QED
    BY <1>0, <2>1, <2>2, <2>3, SettleOfOthers
<1>10. ASSUME NEW d \in RowIds, UpdateReject(d) PROVE SettleInv'
  <2>1. /\ d \in DOMAIN deliveries /\ sendState[d] = "active"
        /\ spc' = [spc EXCEPT ![d] = "catch"]
        /\ UNCHANGED <<emitter, created, inFlight, accepted, sendState>>
        /\ losses' = losses + 1
        /\ \/ deliveries' = Recorded(d, "DELIVERED") /\ spc[d] = "ok"
           \/ deliveries' = Recorded(d, "FAILED")
           \/ deliveries' = deliveries
    BY <1>0, <1>10 DEF UpdateReject, SendAt, Lose
  <2>2. /\ DOMAIN deliveries' = DOMAIN deliveries
        /\ \A e \in DOMAIN deliveries : e # d => deliveries'[e] = deliveries[e]
        /\ deliveries' = Recorded(d, "DELIVERED") => deliveries'[d].status = "DELIVERED"
        /\ deliveries' = Recorded(d, "FAILED") => deliveries'[d].status = "FAILED"
    BY <1>0, <2>1, RowRecorded
  <2>3. Placed(d)'
    BY <1>0, <2>1, <2>2 DEF Placed
  <2> QED
    BY <1>0, <2>1, <2>2, <2>3, SettleOfOthers
<1>11. CASE UNCHANGED webhook
  BY <1>0, <1>11 DEF webhook, SettleInv, Placed
<1> QED
  BY <1>1, <1>2, <1>3, <1>4, <1>5, <1>6, <1>7, <1>8, <1>9, <1>10, <1>11
     DEF WebhookNext, EmitWork, SendWork, WebhookRest

\* No fairness is needed.
LEMMA SettlesAlways == WebhookInit /\ [][WebhookNext]_webhook => []EveryDeliverySettles
<1>1. DeliveriesTypeInv /\ SettleInv /\ [WebhookNext]_webhook
     => (DeliveriesTypeInv /\ SettleInv)'
  BY DeliveriesTypeStep, SettleStep
<1>2. DeliveriesTypeInv /\ SettleInv => EveryDeliverySettles
  <2> SUFFICES ASSUME DeliveriesTypeInv, SettleInv, WebhookQuiet, NEW d \in DOMAIN deliveries
               PROVE  \/ deliveries[d].status = "DELIVERED" /\ d \in accepted
                      \/ sendState[d] = "dead"
                      \/ deliveries[d].status = "PENDING" /\ sendState[d] = "none"
                         /\ losses > 0
    BY DEF EveryDeliverySettles
  <2>1. Placed(d) /\ d \in RowIds
    BY RowsTyped DEF SettleInv, DeliveriesTypeInv
  <2>2. sendState[d] \in {"none", "done", "dead"}
    BY <2>1 DEF WebhookQuiet, DeliveriesTypeInv, WebhookTypeOK
  <2> QED
    BY <2>1, <2>2 DEF Placed, WebhookQuiet
<1> QED
  BY DeliveriesTypeInit, SettleStart, <1>1, <1>2, PTL

\* When the queues are empty, every row is DELIVERED and was accepted, or its task was
\* given up, or a fault kept it from being enqueued.
THEOREM DeliveriesSettle == WebhookSpec => []EveryDeliverySettles
BY SettlesAlways, PTL DEF WebhookSpec

-----------------------------------------------------------------------------
(* RequestThrottle: its inductive invariants *)

\* The request that created the counter is the only one that will give it a time to
\* live, and until then the counter has none.
ExpiryPending ==
  /\ counter = 0 => counterTtl = 0
  /\ \A q \in Requests : qpc[q] = "expire" => counter > 0 /\ counterTtl = 0
  /\ \A q, r \in Requests : qpc[q] = "expire" /\ qpc[r] = "expire" => q = r
ThrottleTypeInv == ThrottleTypeOK /\ ExpiryPending

\* The requests the present counter admitted.
Admitted == IF counter <= Limit THEN counter ELSE Limit

\* Since the present counter was created, a ticks ago, only it admitted requests, and
\* it lives until a whole window has passed.
AloneSince(a) ==
  /\ counterTtl > 0 => a + counterTtl >= Window
  /\ \A i \in 1..Window : i <= a + 1 => recent[i] <= Admitted

\* Before it, one other counter at most admitted requests of the last window.
BurstInv ==
  /\ \A i \in 1..Window : recent[i] <= Limit + Admitted
  /\ counter = 0 => recent[1] = 0
  /\ counter > 0 => \E a \in Nat : AloneSince(a)

\* Seconds are rounded up: a key never lives shorter than asked for, and less than
\* a second longer.
LEMMA RoundedUp ==
  ASSUME NEW t \in Nat
  PROVE  InSeconds(t) \in t..(t + Second)
<1>1. Second \in Nat /\ Second > 0
  BY ThrottleAssumption
<1>2. t % Second \in 0..(Second - 1)
  BY <1>1
<1> QED
  BY <1>1, <1>2 DEF InSeconds

LEMMA ThrottleTypeInit == ThrottleInit => ThrottleTypeInv
<1> SUFFICES ASSUME ThrottleInit PROVE ThrottleTypeInv
  OBVIOUS
<1>1. /\ counter \in Nat /\ counterTtl \in 0..(Window + Second)
      /\ blockTtl \in 0..(BlockTime + Second) /\ drops \in 0..MaxDrops
  <2>1. Window + Second \in Nat /\ BlockTime + Second \in Nat /\ MaxDrops \in Nat
    BY ThrottleAssumption
  <2> QED
    BY <2>1 DEF ThrottleInit
<1>2. /\ block \in BOOLEAN
      /\ qpc \in [Requests -> {"idle", "incr", "expire", "limit", "block"}]
      /\ hits \in [Requests -> Nat] /\ recent \in [1..Window -> Nat]
  BY DEF ThrottleInit
<1>3. ExpiryPending
  BY DEF ThrottleInit, ExpiryPending
<1> QED
  BY <1>1, <1>2, <1>3 DEF ThrottleTypeInv, ThrottleTypeOK

LEMMA ThrottleTypeStep == ThrottleTypeInv /\ [ThrottleNext]_throttle => ThrottleTypeInv'
<1> SUFFICES ASSUME ThrottleTypeInv, [ThrottleNext]_throttle PROVE ThrottleTypeInv'
  OBVIOUS
<1> USE ThrottleAssumption DEF ThrottleTypeInv, ThrottleTypeOK, ExpiryPending, QGoto
<1>1. ASSUME NEW q \in Requests, Arrive(q) PROVE ThrottleTypeInv'
  BY <1>1 DEF Arrive
<1>2. ASSUME NEW q \in Requests, QWork(q) PROVE ThrottleTypeInv'
  <2>1. CASE Increment(q)
    BY <1>2, <2>1 DEF Increment
  <2>2. CASE ExpireCounter(q)
    <3>1. NewTtl \in 0..(Window + Second)
      BY RoundedUp DEF NewTtl
    <3> QED
      BY <1>2, <2>2, <3>1 DEF ExpireCounter
  <2>3. CASE Admit(q)
    BY <1>2, <2>3 DEF Admit, Answered
  <2>4. CASE SetBlock(q)
    BY <1>2, <2>4 DEF SetBlock
  <2>5. CASE ExpireBlock(q)
    <3>1. InSeconds(BlockTime) \in 0..(BlockTime + Second)
      <4>1. BlockTime \in Nat /\ Second \in Nat
        OBVIOUS
      <4>2. InSeconds(BlockTime) \in BlockTime..(BlockTime + Second)
        BY <4>1, RoundedUp
      <4> QED
        BY <4>1, <4>2
    <3> QED
      BY <1>2, <2>5, <3>1 DEF ExpireBlock, Answered
  <2> QED
    BY <1>2, <2>1, <2>2, <2>3, <2>4, <2>5 DEF QWork
<1>3. ASSUME NEW q \in Requests, Drop(q) PROVE ThrottleTypeInv'
  BY <1>3 DEF Drop, Answered
<1>4. CASE Tick
  BY <1>4 DEF Tick
<1>5. CASE UNCHANGED throttle
  BY <1>5 DEF throttle
<1> QED
  BY <1>1, <1>2, <1>3, <1>4, <1>5 DEF ThrottleNext

LEMMA ThrottleTypeInvariant == ThrottleInit /\ [][ThrottleNext]_throttle => []ThrottleTypeInv
<1>1. ThrottleTypeInv /\ [ThrottleNext]_throttle => ThrottleTypeInv'
  BY ThrottleTypeStep
<1> QED
  BY <1>1, ThrottleTypeInit, PTL

\* The type invariant of the throttle, for any number of requests that overlap.
THEOREM ThrottleTypeCorrect == ThrottleSpec => []ThrottleTypeOK
<1>1. ThrottleTypeInv => ThrottleTypeOK
  BY DEF ThrottleTypeInv
<1> QED
  BY <1>1, ThrottleTypeInvariant, PTL DEF ThrottleSpec

-----------------------------------------------------------------------------
(* Admissions in a window *)

LEMMA BurstInit == ThrottleInit => BurstInv
BY ThrottleAssumption DEF ThrottleInit, BurstInv, Admitted

\* A step that leaves the counter alone, and at most gives it its time to live.
LEMMA BurstKept ==
  ASSUME BurstInv, ThrottleTypeInv,
         counter' = counter, recent' = recent,
         counterTtl' = counterTtl \/ counterTtl' >= Window, counterTtl' \in Nat
  PROVE  BurstInv'
<1>1. Admitted' = Admitted
  BY DEF Admitted
<1>2. ASSUME NEW a \in Nat, AloneSince(a) PROVE AloneSince(a)'
  <2>1. \A i \in 1..Window : i <= a + 1 => recent'[i] <= Admitted'
    BY <1>1, <1>2 DEF AloneSince
  <2>2. counterTtl' > 0 => a + counterTtl' >= Window
    <3>1. Window \in Nat /\ counterTtl \in Nat
      BY ThrottleAssumption DEF ThrottleTypeInv, ThrottleTypeOK
    <3>2. CASE counterTtl' = counterTtl
      BY <1>2, <3>2 DEF AloneSince
    <3>3. CASE counterTtl' >= Window
      <4>1. \A t \in Nat : t >= Window => a + t >= Window
        BY <3>1
      <4> QED
        BY <3>3, <4>1
    <3> QED
      BY <3>2, <3>3
  <2> QED
    BY <2>1, <2>2 DEF AloneSince
<1> QED
  BY <1>1, <1>2 DEF BurstInv

LEMMA BurstStep ==
  ThrottleTypeInv /\ ThrottleTypeInv' /\ BurstInv /\ [ThrottleNext]_throttle => BurstInv'
<1> SUFFICES ASSUME ThrottleTypeInv, ThrottleTypeInv', BurstInv, [ThrottleNext]_throttle
             PROVE  BurstInv'
  OBVIOUS
<1> USE ThrottleAssumption
<1>0. /\ counter \in Nat /\ counterTtl \in Nat /\ counterTtl' \in Nat /\ counter' \in Nat
      /\ recent \in [1..Window -> Nat] /\ recent' \in [1..Window -> Nat]
      /\ Limit \in Nat /\ Window \in Nat /\ Window > 0 /\ 1 \in 1..Window
      /\ counter = 0 => counterTtl = 0
  BY DEF ThrottleTypeInv, ThrottleTypeOK, ExpiryPending
<1>1. ASSUME NEW q \in Requests, Increment(q) PROVE BurstInv'
  <2>1. /\ counter' = counter + 1 /\ counterTtl' = counterTtl
        /\ recent' = IF counter' > Limit THEN recent ELSE [i \in 1..Window |-> recent[i] + 1]
    BY <1>1 DEF Increment, Exceeds
  <2>2. \A i \in 1..Window : recent'[i] - Admitted' = recent[i] - Admitted
    BY <1>0, <2>1 DEF Admitted
  <2>3. Admitted \in Nat /\ Admitted' \in Nat
    BY <1>0 DEF Admitted
  <2>4. \A i \in 1..Window : recent'[i] <= Limit + Admitted'
    BY <1>0, <2>2, <2>3 DEF BurstInv
  <2>5. \E a \in Nat : AloneSince(a)'
    <3>1. CASE counter = 0
      <4>1. Admitted = 0 /\ recent[1] = 0
        BY <1>0, <3>1 DEF Admitted, BurstInv
      <4>2. \A i \in 1..Window : i <= 1 => recent'[i] <= Admitted'
        <5>1. recent'[1] - Admitted' = 0
          BY <1>0, <2>2, <4>1
        <5>2. recent'[1] \in Nat
          BY <1>0
        <5>3. recent'[1] <= Admitted'
          BY <2>3, <5>1, <5>2
        <5> QED
          BY <1>0, <5>3
      <4>3. counterTtl' = 0
        BY <1>0, <2>1, <3>1
      <4>4. AloneSince(0)'
        BY <4>2, <4>3 DEF AloneSince
      <4> QED
        BY <4>4
    <3>2. CASE counter # 0
      <4>1. PICK a \in Nat : AloneSince(a)
        BY <1>0, <3>2 DEF BurstInv
      <4>2. ASSUME NEW i \in 1..Window, i <= a + 1 PROVE recent'[i] <= Admitted'
        <5>1. recent[i] <= Admitted /\ recent'[i] - Admitted' = recent[i] - Admitted
          BY <2>2, <4>1, <4>2 DEF AloneSince
        <5> QED
          BY <1>0, <2>3, <5>1
      <4>3. counterTtl' > 0 => a + counterTtl' >= Window
        BY <2>1, <4>1 DEF AloneSince
      <4>4. AloneSince(a)'
        BY <4>2, <4>3 DEF AloneSince
      <4> QED
        BY <4>4
    <3> QED
      BY <3>1, <3>2
  <2> QED
    BY <1>0, <2>1, <2>4, <2>5 DEF BurstInv
<1>2. ASSUME NEW q \in Requests, ExpireCounter(q) PROVE BurstInv'
  <2>1. counterTtl' >= Window
    BY <1>2, <1>0, RoundedUp DEF ExpireCounter, NewTtl
  <2> QED
    BY <1>0, <1>2, <2>1, BurstKept DEF ExpireCounter
<1>3. ASSUME NEW q \in Requests,
             Arrive(q) \/ Admit(q) \/ SetBlock(q) \/ ExpireBlock(q) \/ Drop(q)
      PROVE  BurstInv'
  BY <1>0, <1>3, BurstKept DEF Arrive, Admit, SetBlock, ExpireBlock, Drop
<1>4. CASE Tick
  <2>1. /\ recent'[1] = 0
        /\ \A i \in 1..Window : i # 1 => i - 1 \in 1..Window /\ recent'[i] = recent[i - 1]
    BY <1>0, <1>4 DEF Tick
  <2>2. Admitted \in Nat
    BY <1>0 DEF Admitted
  <2>3. CASE counterTtl = 1
    <3>1. counter' = 0 /\ Admitted' = 0
      BY <1>0, <1>4, <2>3 DEF Tick, Admitted
    <3>2. PICK a \in Nat : AloneSince(a)
      BY <1>0, <2>3 DEF BurstInv
    <3>3. \A i \in 1..Window : recent[i] <= Admitted
      BY <1>0, <2>3, <3>2 DEF AloneSince
    <3>4. Admitted <= Limit
      BY <1>0 DEF Admitted
    <3>5. \A i \in 1..Window : recent'[i] <= Limit
      BY <1>0, <2>1, <2>2, <3>3, <3>4
    <3> QED
      BY <1>0, <2>1, <3>1, <3>5 DEF BurstInv
  <2>4. CASE counterTtl # 1
    <3>1. counter' = counter /\ Admitted' = Admitted
          /\ (counterTtl' > 0 => counterTtl > 0 /\ counterTtl' = counterTtl - 1)
      BY <1>0, <1>4, <2>4 DEF Tick, Admitted
    <3>2. \A i \in 1..Window : recent'[i] <= Limit + Admitted'
      BY <1>0, <2>1, <2>2, <3>1 DEF BurstInv
    <3>3. ASSUME counter > 0 PROVE \E a \in Nat : AloneSince(a)'
      <4>1. PICK a \in Nat : AloneSince(a)
        BY <3>3 DEF BurstInv
      <4>2. counterTtl' > 0 => (a + 1) + counterTtl' >= Window
        BY <1>0, <3>1, <4>1 DEF AloneSince
      <4>3. \A i \in 1..Window : i <= (a + 1) + 1 => recent'[i] <= Admitted'
        BY <1>0, <2>1, <2>2, <3>1, <4>1 DEF AloneSince
      <4>4. AloneSince(a + 1)' /\ a + 1 \in Nat
        BY <4>2, <4>3 DEF AloneSince
      <4> QED
        BY <4>4
    <3> QED
      BY <2>1, <3>1, <3>2, <3>3 DEF BurstInv
  <2> QED
    BY <2>3, <2>4
<1>5. CASE UNCHANGED throttle
  BY <1>0, <1>5, BurstKept DEF throttle
<1> QED
  BY <1>1, <1>2, <1>3, <1>4, <1>5 DEF ThrottleNext, QWork

\* No fairness is needed.
LEMMA BurstsAlways == ThrottleInit /\ [][ThrottleNext]_throttle => []BurstBounded
<1>1. ThrottleTypeInv /\ BurstInv => BurstBounded
  BY ThrottleAssumption
  DEF BurstInv, Admitted, BurstBounded, ThrottleTypeInv, ThrottleTypeOK
<1>2. ThrottleTypeInv /\ ThrottleTypeInv' /\ BurstInv /\ [ThrottleNext]_throttle => BurstInv'
  BY BurstStep
<1> QED
  BY <1>1, <1>2, BurstInit, ThrottleTypeInvariant, PTL

\* In any span of a window's length a client is admitted at most twice the limit,
\* whatever overlaps, and wherever a request dies in the middle of its calls.
THEOREM BurstsAreBounded == ThrottleSpec => []BurstBounded
BY BurstsAlways, PTL DEF ThrottleSpec
=============================================================================
