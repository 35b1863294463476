------------------------- MODULE CrawlJobRefinement -------------------------
(***************************************************************************)
(* CrawlJob implements ItemJourney: the proof of its safety part, for      *)
(* every set of items, every limit and every number of faults.  That every *)
(* item settles needs fairness and is left to TLC.                         *)
(***************************************************************************)
EXTENDS CrawlJobProofs

\* A task about an item exists only after the item was offered, and a normalize
\* task is at the enqueue of the AI pipeline only after it ingested its item.
OrderInv ==
  \A k \in TaskId :
    /\ k.stage \in {"detail", "normalize"} /\ state[k] # "none" => k.item \in offered
    /\ k.stage = "normalize" /\ At(k, "pipeline") => k.item \in tools

-----------------------------------------------------------------------------
\* What a step of task k may do to the others: enqueue unused tasks about items
\* that are offered.
Beside(k) ==
  \A j \in TaskId \ {k} :
    \/ state'[j] = state[j] /\ pc'[j] = pc[j]
    \/ /\ state[j] = "none" /\ state'[j] = "waiting"
       /\ j.stage \in {"detail", "normalize"} => j.item \in offered'

LEMMA OrderMove ==
  ASSUME TypeInv, OrderInv,
         NEW k \in TaskId, state[k] # "none", Beside(k),
         offered \subseteq offered', tools \subseteq tools',
         k.stage = "normalize" /\ At(k, "pipeline")' => k.item \in tools'
  PROVE  OrderInv'
<1> SUFFICES ASSUME NEW j \in TaskId
             PROVE  /\ j.stage \in {"detail", "normalize"} /\ state'[j] # "none"
                         => j.item \in offered'
                    /\ j.stage = "normalize" /\ At(j, "pipeline")' => j.item \in tools'
  BY DEF OrderInv
<1>1. CASE j = k
  BY <1>1 DEF OrderInv
<1>2. CASE j # k
  BY <1>2 DEF OrderInv, Beside, At
<1> QED
  BY <1>1, <1>2

LEMMA OrderStep == TypeInv /\ OrderInv /\ [Next]_vars => OrderInv'
<1> SUFFICES ASSUME TypeInv, OrderInv, [Next]_vars PROVE OrderInv'
  OBVIOUS
<1> USE DEF At, Goto
<1>1. ASSUME NEW k \in TaskId, Work(k) PROVE OrderInv'
  <2>0. /\ state \in [TaskId -> TaskStates] /\ pc \in [TaskId -> Pcs]
        /\ ret[k] # "pipeline" /\ FirstPc(k) # "pipeline"
    BY DEF TypeInv, TypeOK, Returns, FirstPc
  <2>1. CASE Take(k)
    BY <2>0, <2>1, OrderMove DEF Take, Beside, outside, history
  <2>2. CASE LogRead(k)
    BY <2>0, <2>2, OrderMove DEF LogRead, Beside, outside, queue, history
  <2>3. CASE LogWrite(k)
    BY <2>0, <2>3, OrderMove DEF LogWrite, Beside, outside, queue, history
  <2>4. CASE LogWriteLast(k)
    BY <2>0, <2>4, OrderMove DEF LogWriteLast, Leave, Beside, outside, history
  <2>5. CASE OpenOrphan(k)
    BY <2>0, <2>5, OrderMove DEF OpenOrphan, Beside, outside, queue, history
  <2>6. CASE Orphan(k)
    BY <2>0, <2>6, OrderMove DEF Orphan, Leave, Beside, outside, history
  <2>7. CASE ListStart(k)
    BY <2>0, <2>7, OrderMove DEF ListStart, Beside, outside, queue, history
  <2>8. CASE ListOpen(k)
    BY <2>0, <2>8, OrderMove DEF ListOpen, Beside, outside, queue, history
  <2>9. CASE EnqueueCategory(k)
    BY <2>0, <2>9, OrderMove DEF EnqueueCategory, CallLog, IsNext, Unused, Beside,
       outside, history
  <2>10. CASE GetTools(k)
    BY <2>0, <2>10, OrderMove DEF GetTools, CallLog, Beside, outside, queue, history
  <2>11. CASE Expect(k)
    BY <2>0, <2>11, OrderMove DEF Expect, Beside, outside, queue
  <2>12. CASE Spread(k)
    <3>1. PICK i \in todo[k], d \in TaskId : Offer(k, i, d)
      BY <2>12 DEF Spread
    <3>2. /\ d.stage = "detail" /\ d.item = i /\ state[d] = "none" /\ d # k
          /\ offered' = offered \union {i} /\ tools' = tools
      BY <2>12, <3>1 DEF Spread, Offer, IsNext, Unused, outside
    <3>3. Beside(k) /\ k.stage = "list"
      BY <2>0, <2>12, <3>1, <3>2 DEF Spread, Offer, Beside
    <3> QED
      BY <2>12, <3>2, <3>3, OrderMove DEF Spread
  <2>13. CASE CategoryOpen(k)
    BY <2>0, <2>13, OrderMove DEF CategoryOpen, CallLog, Beside, outside, queue, history
  <2>14. CASE GetCategories(k)
    BY <2>0, <2>14, OrderMove DEF GetCategories, CallLog, Beside, outside, queue,
       history
  <2>15. CASE DetailOpen(k)
    BY <2>0, <2>15, OrderMove DEF DetailOpen, Beside, outside, queue, history
  <2>16. CASE Snapshot(k)
    BY <2>0, <2>16, OrderMove DEF Snapshot, CallLog, Beside, outside, queue, history
  <2>17. CASE GetDetail(k)
    BY <2>0, <2>17, OrderMove DEF GetDetail, CallLog, Beside, outside, queue, history
  <2>18. CASE GetDetailNull(k)
    BY <2>0, <2>18, OrderMove DEF GetDetailNull, Beside, outside, queue
  <2>19. CASE EnqueueNormalize(k)
    <3>1. PICK n \in TaskId : IsNext(n, "normalize", k.item)
                              /\ state' = [state EXCEPT ![n] = "waiting"]
      BY <2>19 DEF EnqueueNormalize
    <3>2. k.item \in offered /\ k.stage = "detail" /\ state[k] = "active"
      BY <2>19 DEF EnqueueNormalize, OrderInv
    <3>3. n # k /\ n.item = k.item /\ state[n] = "none"
      BY <3>1, <3>2 DEF IsNext, Unused
    <3>4. offered' = offered /\ tools' = tools
      BY <2>19 DEF EnqueueNormalize, outside, history
    <3>5. Beside(k) /\ pc'[k] = "count"
      BY <2>0, <2>19, <3>1, <3>2, <3>3, <3>4 DEF EnqueueNormalize, Beside
    <3> QED
      BY <3>2, <3>4, <3>5, OrderMove
  <2>20. CASE DetailCount(k)
    BY <2>0, <2>20, OrderMove DEF DetailCount, Leave, Beside, outside
  <2>21. CASE NormalizeOpen(k)
    BY <2>0, <2>21, OrderMove DEF NormalizeOpen, CallLog, Beside, outside, queue,
       history
  <2>22. CASE Ingest(k)
    BY <2>0, <2>22, OrderMove DEF Ingest, Beside, queue, history
  <2>23. CASE IngestNull(k)
    BY <2>0, <2>23, OrderMove DEF IngestNull, CallLog, Beside, outside, queue
  <2>24. CASE StartAiPipeline(k)
    BY <2>0, <2>24, OrderMove DEF StartAiPipeline, CallLog, Beside, queue, history
  <2>25. CASE Reread(k)
    BY <2>0, <2>25, OrderMove DEF Reread, Beside, outside, queue, history
  <2>26. CASE NormalizeCount(k)
    BY <2>0, <2>26, OrderMove DEF NormalizeCount, Leave, Beside, outside
  <2>27. CASE Succeed(k)
    BY <2>0, <2>27, OrderMove DEF Succeed, Beside, outside, queue, history
  <2>28. CASE Announce(k)
    BY <2>0, <2>28, OrderMove DEF Announce, Leave, Beside, history
  <2>29. CASE Fail(k)
    BY <2>0, <2>29, OrderMove DEF Fail, Requeue, AfterRejection, Leave, Beside, outside,
       history
  <2> QED
    BY <1>1, <2>1, <2>2, <2>3, <2>4, <2>5, <2>6, <2>7, <2>8, <2>9, <2>10, <2>11, <2>12,
       <2>13, <2>14, <2>15, <2>16, <2>17, <2>18, <2>19, <2>20, <2>21, <2>22, <2>23,
       <2>24, <2>25, <2>26, <2>27, <2>28, <2>29 DEF Work
<1>2. ASSUME NEW k \in TaskId, Fault(k) PROVE OrderInv'
  <2>0. state \in [TaskId -> TaskStates] /\ pc \in [TaskId -> Pcs]
    BY DEF TypeInv, TypeOK
  <2>1. CASE Throw(k)
    BY <2>0, <2>1, OrderMove DEF Throw, CallLog, Beside, outside, queue, history
  <2>2. CASE ThrowUncaught(k)
    BY <2>0, <2>2, OrderMove DEF ThrowUncaught, Requeue, AfterRejection, Leave, Beside,
       outside, history
  <2>3. CASE Crash(k)
    BY <2>0, <2>3, OrderMove DEF Crash, Leave, Beside, outside, history
  <2> QED
    BY <1>2, <2>1, <2>2, <2>3 DEF Fault
<1>3. CASE DeleteSource
  BY <1>3 DEF DeleteSource, OrderInv, queue, history
<1>4. CASE UNCHANGED vars
  BY <1>4 DEF vars, OrderInv, outside, queue, history
<1> QED
  BY <1>1, <1>2, <1>3, <1>4 DEF Next, Rest

LEMMA OrderInvariant == Spec => []OrderInv
<1>1. Init => OrderInv
  BY DEF Init, OrderInv, At, ListTask
<1> QED
  BY <1>1, OrderStep, TypeInvariant, PTL DEF Spec

-----------------------------------------------------------------------------
(* What a step does to the two mapped variables that CrawlJob has no        *)
(* variable for                                                            *)

Ends == {"dead", "orphaned"}

\* No task is enqueued for normalize, and none is given up.
NoEnd ==
  \A j \in TaskId :
    /\ j.stage = "normalize" => (state'[j] = "none" <=> state[j] = "none")
    /\ state'[j] \in Ends <=> state[j] \in Ends

\* Nothing that the journey looks at changes.
Stutters ==
  /\ NoEnd
  /\ UNCHANGED <<offered, tools, piped, skipped>>

LEMMA Mapped == NoEnd => Detailed' = Detailed /\ GivenUp' = GivenUp
  BY DEF NoEnd, Detailed, GivenUp, Ends

LEMMA StutterStep == Stutters => UNCHANGED Journey!journey
  BY Mapped DEF Stutters, Journey!journey

\* A task that ends for good gives its item up, if it is about one.
LEMMA EndStep ==
  ASSUME TypeInv, OrderInv,
         NEW k \in TaskId, state[k] = "active",
         NEW s \in {"waiting", "dead", "orphaned"},
         state' = [state EXCEPT ![k] = s],
         UNCHANGED <<offered, tools, piped, skipped>>
  PROVE  [Journey!JourneyNext]_Journey!journey
<1>0. state \in [TaskId -> TaskStates]
  BY DEF TypeInv, TypeOK
<1>1. CASE s = "waiting"
  <2>1. Stutters
    BY <1>0, <1>1 DEF Stutters, NoEnd, Ends
  <2> QED
    BY <2>1, StutterStep
<1>2. CASE s # "waiting" /\ k.item \in Items
  <2>1. k.stage \in {"detail", "normalize"}
    BY <1>2, ConstantsAssumption DEF TaskId
  <2>2. k.item \in offered
    BY <2>1 DEF OrderInv
  <2>3. Detailed' = Detailed
    BY <1>0 DEF Detailed
  <2>4. GivenUp' = GivenUp \union {k.item}
    BY <1>0, <1>2 DEF GivenUp
  <2>5. Journey!GiveUp(k.item)
    BY <2>2, <2>3, <2>4 DEF Journey!GiveUp
  <2> QED
    BY <1>2, <2>5 DEF Journey!JourneyNext
<1>3. CASE s # "waiting" /\ k.item \notin Items
  <2>1. Detailed' = Detailed
    BY <1>0 DEF Detailed
  <2>2. GivenUp' = GivenUp
    BY <1>0, <1>3 DEF GivenUp
  <2> QED
    BY <2>1, <2>2 DEF Journey!journey
<1> QED
  BY <1>1, <1>2, <1>3

\* The adapter has nothing for the item of a detail or normalize task.
LEMMA RefuseStep ==
  ASSUME OrderInv,
         NEW k \in TaskId, k.stage \in {"detail", "normalize"}, state[k] # "none",
         skipped' = skipped \union {k.item},
         UNCHANGED <<state, offered, tools, piped>>
  PROVE  [Journey!JourneyNext]_Journey!journey
<1>1. k.item \in offered /\ k.item \in Items
  BY DEF OrderInv, TaskId
<1>2. Detailed' = Detailed /\ GivenUp' = GivenUp
  BY DEF Detailed, GivenUp
<1>3. Journey!Refuse(k.item)
  BY <1>1, <1>2 DEF Journey!Refuse
<1> QED
  BY <1>1, <1>3 DEF Journey!JourneyNext

-----------------------------------------------------------------------------
(* Every step of CrawlJob is a step of the journey of one item, or none *)

LEMMA JourneyStep ==
  TypeInv /\ OrderInv /\ [Next]_vars => [Journey!JourneyNext]_Journey!journey
<1> SUFFICES ASSUME TypeInv, OrderInv, [Next]_vars
             PROVE  [Journey!JourneyNext]_Journey!journey
  OBVIOUS
<1>0. state \in [TaskId -> TaskStates]
  BY DEF TypeInv, TypeOK
<1>1. ASSUME NEW k \in TaskId, Work(k) PROVE [Journey!JourneyNext]_Journey!journey
  <2> USE DEF At, Stutters, NoEnd, Ends, outside, history
  <2>1. CASE Take(k)
    BY <1>0, <2>1, StutterStep DEF Take
  <2>2. CASE LogRead(k)
    BY <1>0, <2>2, StutterStep DEF LogRead, queue
  <2>3. CASE LogWrite(k)
    BY <1>0, <2>3, StutterStep DEF LogWrite, queue
  <2>4. CASE LogWriteLast(k)
    BY <1>0, <2>4, StutterStep DEF LogWriteLast, Leave
  <2>5. CASE OpenOrphan(k)
    BY <1>0, <2>5, StutterStep DEF OpenOrphan, queue
  <2>6. CASE Orphan(k)
    BY <2>6, EndStep DEF Orphan, Leave
  <2>7. CASE ListStart(k)
    BY <1>0, <2>7, StutterStep DEF ListStart, queue
  <2>8. CASE ListOpen(k)
    BY <1>0, <2>8, StutterStep DEF ListOpen, queue
  <2>9. CASE EnqueueCategory(k)
    BY <1>0, <2>9, StutterStep DEF EnqueueCategory, IsNext, Unused
  <2>10. CASE GetTools(k)
    BY <1>0, <2>10, StutterStep DEF GetTools, queue
  <2>11. CASE Expect(k)
    BY <1>0, <2>11, StutterStep DEF Expect, queue
  <2>12. CASE Spread(k)
    <3>1. PICK i \in todo[k], d \in TaskId : Offer(k, i, d)
      BY <2>12 DEF Spread
    <3>2. i \in Items
      BY DEF TypeInv, TypeOK
    <3>3. NoEnd /\ offered' = offered \union {i}
      BY <1>0, <2>12, <3>1 DEF Spread, Offer, IsNext, Unused
    <3>4. Journey!Offer(i)
      BY <2>12, <3>3, Mapped DEF Spread, Journey!Offer
    <3> QED
      BY <3>2, <3>4 DEF Journey!JourneyNext
  <2>13. CASE CategoryOpen(k)
    BY <1>0, <2>13, StutterStep DEF CategoryOpen, queue
  <2>14. CASE GetCategories(k)
    BY <1>0, <2>14, StutterStep DEF GetCategories, queue
  <2>15. CASE DetailOpen(k)
    BY <1>0, <2>15, StutterStep DEF DetailOpen, queue
  <2>16. CASE Snapshot(k)
    BY <1>0, <2>16, StutterStep DEF Snapshot, queue
  <2>17. CASE GetDetail(k)
    BY <1>0, <2>17, StutterStep DEF GetDetail, queue
  <2>18. CASE GetDetailNull(k)
    BY <2>18, RefuseStep DEF GetDetailNull, queue
  <2>19. CASE EnqueueNormalize(k)
    <3>1. PICK n \in TaskId : IsNext(n, "normalize", k.item)
                              /\ state' = [state EXCEPT ![n] = "waiting"]
      BY <2>19 DEF EnqueueNormalize
    <3>2. n.stage = "normalize" /\ n.item = k.item /\ state[n] = "none"
      BY <3>1 DEF IsNext, Unused
    <3>3. k.item \in Items /\ k.item \in offered
      BY <2>19 DEF EnqueueNormalize, OrderInv, TaskId
    <3>4. Detailed' = Detailed \union {k.item}
      BY <1>0, <3>1, <3>2, <3>3 DEF Detailed
    <3>5. GivenUp' = GivenUp
      BY <1>0, <3>1, <3>2 DEF GivenUp
    <3>6. Journey!Detail(k.item)
      BY <2>19, <3>3, <3>4, <3>5 DEF EnqueueNormalize, Journey!Detail
    <3> QED
      BY <3>3, <3>6 DEF Journey!JourneyNext
  <2>20. CASE DetailCount(k)
    BY <1>0, <2>20, StutterStep DEF DetailCount, Leave
  <2>21. CASE NormalizeOpen(k)
    BY <1>0, <2>21, StutterStep DEF NormalizeOpen, queue
  <2>22. CASE Ingest(k)
    <3>1. k.item \in Detailed
      BY <2>22 DEF Ingest, Detailed, TaskId
    <3>2. NoEnd
      BY <2>22 DEF Ingest, queue
    <3>3. Journey!Ingest(k.item)
      BY <2>22, <3>1, <3>2, Mapped DEF Ingest, Journey!Ingest
    <3> QED
      BY <3>1, <3>3 DEF Journey!JourneyNext, Detailed
  <2>23. CASE IngestNull(k)
    BY <2>23, RefuseStep DEF IngestNull, queue
  <2>24. CASE StartAiPipeline(k)
    <3>1. k.item \in tools /\ k.item \in Items
      BY <2>24 DEF StartAiPipeline, OrderInv, TaskId
    <3>2. NoEnd
      BY <2>24 DEF StartAiPipeline, queue
    <3>3. Journey!Pipe(k.item)
      BY <2>24, <3>1, <3>2, Mapped DEF StartAiPipeline, Journey!Pipe
    <3> QED
      BY <3>1, <3>3 DEF Journey!JourneyNext
  <2>25. CASE Reread(k)
    BY <1>0, <2>25, StutterStep DEF Reread, queue
  <2>26. CASE NormalizeCount(k)
    BY <1>0, <2>26, StutterStep DEF NormalizeCount, Leave
  <2>27. CASE Succeed(k)
    BY <1>0, <2>27, StutterStep DEF Succeed, queue
  <2>28. CASE Announce(k)
    BY <1>0, <2>28, StutterStep DEF Announce, Leave
  <2>29. CASE Fail(k)
    BY <2>29, EndStep DEF Fail, Requeue, AfterRejection, Leave
  <2> QED
    BY <1>1, <2>1, <2>2, <2>3, <2>4, <2>5, <2>6, <2>7, <2>8, <2>9, <2>10, <2>11, <2>12,
       <2>13, <2>14, <2>15, <2>16, <2>17, <2>18, <2>19, <2>20, <2>21, <2>22, <2>23,
       <2>24, <2>25, <2>26, <2>27, <2>28, <2>29 DEF Work
<1>2. ASSUME NEW k \in TaskId, Fault(k) PROVE [Journey!JourneyNext]_Journey!journey
  <2> USE DEF outside, history
  <2>1. CASE Throw(k)
    BY <2>1, StutterStep DEF Throw, Stutters, NoEnd, queue
  <2>2. CASE ThrowUncaught(k)
    BY <2>2, EndStep DEF ThrowUncaught, Requeue, AfterRejection, Leave
  <2>3. CASE Crash(k)
    BY <2>3, EndStep DEF Crash, Leave
  <2> QED
    BY <1>2, <2>1, <2>2, <2>3 DEF Fault
<1>3. CASE DeleteSource
  BY <1>3, StutterStep DEF DeleteSource, Stutters, NoEnd, queue, history
<1>4. CASE UNCHANGED vars
  BY <1>4, StutterStep DEF vars, Stutters, NoEnd, outside, queue, history
<1> QED
  BY <1>1, <1>2, <1>3, <1>4 DEF Next, Rest

\* The journey every item makes, whatever is retried, crashes or runs twice: the
\* workers of apps/worker/src/workers.ts implement the abstract specification.
THEOREM JourneyIsKept == Spec => JourneyKept
<1>1. Init => Journey!JourneyInit
  <2> SUFFICES ASSUME Init PROVE Journey!JourneyInit
    OBVIOUS
  <2>1. \A k \in TaskId : /\ k.stage = "normalize" => state[k] = "none"
                          /\ state[k] \notin {"dead", "orphaned"}
    BY DEF Init, ListTask
  <2>2. Detailed = {}
    BY <2>1 DEF Detailed
  <2>3. GivenUp = {}
    BY <2>1 DEF GivenUp
  <2> QED
    BY <2>2, <2>3 DEF Init, Journey!JourneyInit
<1> QED
  BY <1>1, JourneyStep, TypeInvariant, OrderInvariant, PTL
     DEF Spec, JourneyKept, Journey!JourneySpec
=============================================================================
