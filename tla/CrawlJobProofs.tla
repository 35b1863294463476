--------------------------- MODULE CrawlJobProofs ---------------------------
(***************************************************************************)
(* Proofs about CrawlJob, for every set of items, every limit of attempts, *)
(* stalls and copies, and every number of faults.                          *)
(*                                                                         *)
(* TypeInv is the type invariant made inductive.  CountInv adds what the   *)
(* progress counters promise, LossInv what became of every item, StuckInv  *)
(* why a job without faults may be left running.                           *)
(***************************************************************************)
EXTENDS CrawlJob, FiniteSetTheorems, TLAPS

-----------------------------------------------------------------------------
(* The inductive invariants *)

\* Where appendJobStep can return to, by the stage that called it.
Returns(k) ==
  {"idle", "fail"} \union
    (IF k.stage = "list" THEN {"getTools", "expect"}
     ELSE IF k.stage = "category" THEN {"getCategories", "finish"}
     ELSE IF k.stage = "detail" THEN {"getDetail", "enqueue"}
     ELSE {"ingest", "reread"})

\* A task that can still run has an attempt and a stall left.
Budgeted ==
  \A k \in TaskId :
    state[k] \in {"none", "waiting", "active"} =>
      attempt[k] < MaxAttempts /\ stalls[k] <= MaxStalls

TypeInv ==
  /\ TypeOK
  /\ Budgeted
  /\ \A k \in TaskId : ret[k] \in Returns(k)

\* What markJobSucceeded is about to write is backed by finished stages; the
\* crawl-tool handler keeps no metadata, and it reports no items.
SuccessBacked ==
  \A k \in TaskId :
    /\ k.stage = "list" => seen[k] = NoMeta
    /\ At(k, "succeed") => seen[k].expected <= counted

CountInv == CompletedNeverOvercounts /\ FoundBacked /\ SuccessBacked

\* The normalize task k is past the enqueue of the AI pipeline.
Handed(k) ==
  \/ state[k] = "done"
  \/ /\ state[k] = "active"
     /\ \/ pc[k] \in {"reread", "count", "succeed", "announce"}
        \/ pc[k] \in {"logRead", "logWrite"} /\ ret[k] = "reread"

\* Some task of this stage was enqueued for item i.
Enqueued(stage, i) ==
  \E k \in TaskId : k.stage = stage /\ k.item = i /\ state[k] # "none"

\* There is one crawl-tool task, and pc agrees with the stage of its task.
OneList ==
  /\ state[ListTask] # "none"
  /\ \A k \in TaskId : k.stage = "list" /\ state[k] # "none" => k = ListTask
StagePcs(k) ==
  /\ At(k, "spread") => k.stage = "list"
  /\ At(k, "count") => k.stage \in {"detail", "normalize"}
  /\ At(k, "succeed") \/ At(k, "announce") => k.stage \in {"list", "normalize"}

\* How each stage hands its item over to the next one.
NormalizeHands(k) ==
  k.stage = "normalize" /\ Handed(k) => k.item \in piped \union skipped
DetailHands(k) ==
  k.stage = "detail" /\ (state[k] = "done" \/ At(k, "count")) =>
    k.item \in skipped \/ Enqueued("normalize", k.item)
OfferHands == \A i \in offered : Enqueued("detail", i)
ListHands ==
  /\ At(ListTask, "spread") => listed \ todo[ListTask] \subseteq offered
  /\ At(ListTask, "succeed") \/ At(ListTask, "announce") => listed = {}
  /\ state[ListTask] = "done" => listed \subseteq offered

LossInv ==
  /\ OneList /\ OfferHands /\ ListHands
  /\ \A k \in TaskId : StagePcs(k) /\ NormalizeHands(k) /\ DetailHands(k)

-----------------------------------------------------------------------------
(* Lemmas about the operators *)

\* A counter update keeps the expected number and adds one finished stage.
LEMMA CountedAddsOne ==
  ASSUME NEW m \in Meta
  PROVE  /\ Counted(m) \in Meta
         /\ Counted(m).completed = m.completed + 1
         /\ Counted(m).expected = m.expected
BY DEF Counted, Meta

\* The object that crawl-tool writes is well-formed, however long the list is.
LEMMA ExpectedMeta ==
  ASSUME NEW found \in SUBSET Items
  PROVE  [expected |-> Cardinality(found), completed |-> 0] \in Meta
<1>1. IsFiniteSet(found)
  BY ConstantsAssumption, FS_Subset
<1>2. Cardinality(found) \in Nat
  BY <1>1, FS_CardinalityType
<1> QED
  BY <1>2 DEF Meta

LEMMA NoMetaType == NoMeta \in Meta /\ NoMeta.expected = 0 /\ NoMeta.completed = 0
BY DEF NoMeta, Meta

\* The task that starts the job exists, and it is a crawl-tool task.
LEMMA ListTaskType == ListTask \in TaskId /\ ListTask.stage = "list"
BY ConstantsAssumption DEF TaskId, ListTask

LEMMA TaskStage ==
  ASSUME NEW k \in TaskId
  PROVE  k.stage \in {"list", "category", "detail", "normalize"}
BY DEF TaskId

\* A crawl-detail or normalize task is about an item.
LEMMA TaskItem ==
  ASSUME NEW k \in TaskId, k.stage \in {"detail", "normalize"}
  PROVE  k.item \in Items
BY DEF TaskId

\* Whatever appendJobStep returns to is a place in some handler.
LEMMA ReturnsArePcs ==
  ASSUME NEW k \in TaskId
  PROVE  Returns(k) \subseteq Pcs
BY DEF Returns, Pcs, ListPcs, CategoryPcs, DetailPcs, NormalizePcs, CatchPcs

-----------------------------------------------------------------------------
(* Types *)

LEMMA TypeInit == Init => TypeInv
<1> SUFFICES ASSUME Init PROVE TypeInv
  OBVIOUS
<1>1. TypeOK
  BY ConstantsAssumption, NoMetaType
  DEF Init, TypeOK, Statuses, TaskStates, Pcs
<1>2. Budgeted
  BY ConstantsAssumption DEF Init, Budgeted
<1>3. \A k \in TaskId : ret[k] \in Returns(k)
  BY DEF Init, Returns
<1> QED
  BY <1>1, <1>2, <1>3 DEF TypeInv

LEMMA TypeStep == TypeInv /\ [Next]_vars => TypeInv'
<1> SUFFICES ASSUME TypeInv, [Next]_vars PROVE TypeInv'
  OBVIOUS
<1> USE ConstantsAssumption, NoMetaType
<1>1. ASSUME NEW k \in TaskId, Work(k) PROVE TypeInv'
  <2>1. CASE Take(k)
    BY <2>1 DEF Take, TypeInv, TypeOK, Budgeted, FirstPc, Goto, Pcs, ListPcs,
       CategoryPcs, TaskStates, Returns, row, outside, locals, history
  <2>2. CASE LogRead(k)
    BY <2>2 DEF LogRead, At, TypeInv, TypeOK, Budgeted, Goto, Pcs, ListPcs,
       Returns, row, outside, queue, history
  <2>3. CASE LogWrite(k)
    BY <2>3, ReturnsArePcs DEF LogWrite, At, TypeInv, TypeOK, Budgeted, Goto,
       Returns, outside, queue, history
  <2>4. CASE LogWriteLast(k)
    BY <2>4 DEF LogWriteLast, At, Leave, TypeInv, TypeOK, Budgeted, Goto, Pcs,
       TaskStates, Returns, outside, history
  <2>5. CASE OpenOrphan(k)
    BY <2>5 DEF OpenOrphan, At, TypeInv, TypeOK, Budgeted, Goto, Pcs, Returns,
       row, outside, locals, queue, history
  <2>6. CASE Orphan(k)
    BY <2>6 DEF Orphan, At, Leave, TypeInv, TypeOK, Budgeted, Goto, Pcs,
       Statuses, TaskStates, Returns, outside, history
  <2>7. CASE ListStart(k)
    BY <2>7 DEF ListStart, At, TypeInv, TypeOK, Budgeted, Goto, Pcs, ListPcs,
       Statuses, Returns, outside, locals, queue, history
  <2>8. CASE ListOpen(k)
    BY <2>8 DEF ListOpen, At, TypeInv, TypeOK, Budgeted, Goto, Pcs, ListPcs,
       Returns, row, outside, locals, queue, history
  <2>9. CASE EnqueueCategory(k)
    BY <2>9 DEF EnqueueCategory, IsNext, Unused, CallLog, At, TypeInv, TypeOK,
       Budgeted, Goto, Pcs, ListPcs, TaskStates, Returns, row, outside, history
  <2>10. CASE GetTools(k)
    BY <2>10 DEF GetTools, CallLog, At, TypeInv, TypeOK, Budgeted, Goto, Pcs,
       ListPcs, Returns, row, outside, queue, history
  <2>11. CASE Expect(k)
    <3>1. todo[k] \in SUBSET Items
      BY DEF TypeInv, TypeOK
    <3>2. meta' \in Meta
      BY <2>11, <3>1, ExpectedMeta DEF Expect
    <3> QED
      BY <2>11, <3>1, <3>2 DEF Expect, At, TypeInv, TypeOK, Budgeted, Goto, Pcs,
         ListPcs, Returns, outside, locals, queue
  <2>12. CASE Spread(k)
    BY <2>12 DEF Spread, Offer, IsNext, Unused, At, TypeInv, TypeOK, Budgeted,
       Goto, Pcs,
       TaskStates, Returns, row, outside
  <2>13. CASE CategoryOpen(k)
    BY <2>13 DEF CategoryOpen, CallLog, At, TypeInv, TypeOK, Budgeted,
       Goto, Pcs, CategoryPcs, DetailPcs, NormalizePcs, Returns, row, outside,
       queue, history
  <2>14. CASE GetCategories(k)
    BY <2>14 DEF GetCategories, CallLog, At, TypeInv, TypeOK, Budgeted,
       Goto, Pcs, CategoryPcs, DetailPcs, NormalizePcs, Returns, row, outside,
       queue, history
  <2>15. CASE Snapshot(k)
    BY <2>15 DEF Snapshot, CallLog, At, TypeInv, TypeOK, Budgeted,
       Goto, Pcs, CategoryPcs, DetailPcs, NormalizePcs, Returns, row, outside,
       queue, history
  <2>16. CASE GetDetail(k)
    BY <2>16 DEF GetDetail, CallLog, At, TypeInv, TypeOK, Budgeted,
       Goto, Pcs, CategoryPcs, DetailPcs, NormalizePcs, Returns, row, outside,
       queue, history
  <2>17. CASE NormalizeOpen(k)
    BY <2>17 DEF NormalizeOpen, CallLog, At, TypeInv, TypeOK, Budgeted,
       Goto, Pcs, CategoryPcs, DetailPcs, NormalizePcs, Returns, row, outside,
       queue, history
  <2>18. CASE IngestNull(k)
    BY <2>18, TaskItem DEF IngestNull, CallLog, At, TypeInv, TypeOK, Budgeted,
       Goto, Pcs, CategoryPcs, DetailPcs, NormalizePcs, Returns, row, outside,
       queue, history
  <2>19. CASE DetailOpen(k)
    BY <2>19 DEF DetailOpen, At, TypeInv, TypeOK, Budgeted, Goto,
       Pcs, DetailPcs, Returns, row, outside, locals, queue, history
  <2>20. CASE GetDetailNull(k)
    BY <2>20, TaskItem DEF GetDetailNull, At, TypeInv, TypeOK, Budgeted, Goto,
       Pcs, DetailPcs, Returns, row, outside, locals, queue, history
  <2>21. CASE EnqueueNormalize(k)
    BY <2>21 DEF EnqueueNormalize, IsNext, Unused, At, TypeInv, TypeOK,
       Budgeted,
       Goto, Pcs, DetailPcs, TaskStates, Returns, row, outside, locals, history
  <2>22. CASE DetailCount(k)
    BY <2>22, CountedAddsOne DEF DetailCount, At, Leave, TypeInv, TypeOK,
       Budgeted,
       Goto, Pcs, TaskStates, Returns, outside
  <2>23. CASE Ingest(k)
    BY <2>23, TaskItem DEF Ingest, At, TypeInv, TypeOK, Budgeted, Goto,
       Pcs, NormalizePcs, Returns, row, outside, locals, queue, history
  <2>24. CASE StartAiPipeline(k)
    BY <2>24, TaskItem DEF StartAiPipeline, CallLog, At, TypeInv, TypeOK,
       Budgeted, Goto, Pcs, NormalizePcs, Returns, row, outside, queue, history
  <2>25. CASE Reread(k)
    BY <2>25 DEF Reread, At, TypeInv, TypeOK, Budgeted, Goto,
       Pcs, NormalizePcs, Returns, row, outside, locals, queue, history
  <2>26. CASE NormalizeCount(k)
    BY <2>26, CountedAddsOne DEF NormalizeCount, At, Leave, TypeInv, TypeOK,
       Budgeted, Goto, Pcs, NormalizePcs, TaskStates, Returns, outside, locals
  <2>27. CASE Succeed(k)
    BY <2>27 DEF Succeed, At, TypeInv, TypeOK, Budgeted, Goto, Pcs, ListPcs,
       Statuses, Meta, Returns, outside, locals, queue, history
  <2>28. CASE Announce(k)
    BY <2>28 DEF Announce, At, Leave, TypeInv, TypeOK, Budgeted, Goto, Pcs,
       TaskStates, Returns, row, history
  <2>29. CASE Fail(k)
    BY <2>29 DEF Fail, Requeue, AfterRejection, At, Leave, TypeInv, TypeOK,
       Budgeted, Goto, Pcs, Statuses, TaskStates, Returns, outside, history
  <2> QED
    BY <1>1, <2>1, <2>2, <2>3, <2>4, <2>5, <2>6, <2>7, <2>8, <2>9, <2>10,
       <2>11, <2>12, <2>13, <2>14, <2>15, <2>16, <2>17, <2>18, <2>19, <2>20,
       <2>21, <2>22, <2>23, <2>24, <2>25, <2>26, <2>27, <2>28, <2>29 DEF Work
<1>2. ASSUME NEW k \in TaskId, Fault(k) PROVE TypeInv'
  <2>1. CASE Throw(k)
    <3>1. TypeOK'
      BY <2>1 DEF Throw, CallLog, TypeInv, TypeOK, Goto, Pcs, ListPcs, CatchPcs,
         row, outside, queue, history
    <3>2. Budgeted'
      BY <2>1 DEF Throw, TypeInv, Budgeted, queue
    <3>3. \A j \in TaskId : ret'[j] \in Returns(j)
      BY <2>1 DEF Throw, CallLog, TypeInv, TypeOK, Returns
    <3> QED
      BY <3>1, <3>2, <3>3 DEF TypeInv, Returns
  <2>2. CASE ThrowUncaught(k)
    BY <2>2 DEF ThrowUncaught, Requeue, AfterRejection, Leave, TypeInv, TypeOK,
       Budgeted, Goto, Pcs, TaskStates, Returns, row, outside, history
  <2>3. CASE Crash(k)
    BY <2>3 DEF Crash, Leave, TypeInv, TypeOK, Budgeted, Goto, Pcs, TaskStates,
       Returns, row, outside, history
  <2> QED
    BY <1>2, <2>1, <2>2, <2>3 DEF Fault
<1>3. CASE DeleteSource
  <2>1. sourceActive' \in BOOLEAN
    BY <1>3 DEF DeleteSource
  <2>2. faults' \in 0..MaxFaults
    BY <1>3 DEF DeleteSource, TypeInv, TypeOK
  <2> QED
    BY <1>3, <2>1, <2>2 DEF DeleteSource, TypeInv, TypeOK, Budgeted, Returns,
       row,
       locals, queue, history
<1>4. CASE UNCHANGED vars
  BY <1>4 DEF TypeInv, TypeOK, Budgeted, Returns, vars, row, outside, locals,
     queue, history
<1> QED
  BY <1>1, <1>2, <1>3, <1>4 DEF Next, Rest

LEMMA TypeInvariant == Spec => []TypeInv
<1>1. TypeInv /\ [Next]_vars => TypeInv'
  BY TypeStep
<1> QED
  BY <1>1, TypeInit, PTL DEF Spec

\* The type invariant of the crawl job, and with it: no task is attempted more
\* often than the queue allows (queues.ts, defaultJobOptions).
THEOREM TypeCorrect == Spec => []TypeOK
<1>1. TypeInv => TypeOK
  BY DEF TypeInv
<1> QED
  BY <1>1, TypeInvariant, PTL

-----------------------------------------------------------------------------
(* Progress counters *)

LEMMA CountInit == Init => CountInv
BY NoMetaType DEF Init, CountInv, CompletedNeverOvercounts, FoundBacked,
   SuccessBacked, At

\* The handlers that neither count nor succeed: the row keeps its counters or
\* takes those of a copy, and no task comes to "succeed".
LEMMA CountQuiet ==
  ASSUME TypeInv, CountInv,
         NEW k \in TaskId,
         meta' \in {meta, log[k], NoMeta},
         itemsFound' = itemsFound, counted' = counted,
         log' = log \/ \E m \in {meta, NoMeta} : log' = [log EXCEPT ![k] = m],
         seen' = seen \/ seen' = [seen EXCEPT ![k] = NoMeta],
         \A j \in TaskId : At(j, "succeed")' => At(j, "succeed") /\ j # k
  PROVE  CountInv'
<1> USE NoMetaType DEF TypeInv, TypeOK
<1>1. meta'.completed <= counted'
  BY DEF CountInv, CompletedNeverOvercounts
<1>2. ASSUME NEW j \in TaskId
      PROVE  /\ log'[j].completed <= counted'
             /\ seen'[j].completed <= counted'
  BY DEF CountInv, CompletedNeverOvercounts
<1>3. SuccessBacked'
  BY DEF CountInv, SuccessBacked
<1>4. FoundBacked'
  BY DEF CountInv, FoundBacked
<1> QED
  BY <1>1, <1>2, <1>3, <1>4 DEF CountInv, CompletedNeverOvercounts

LEMMA CountStep == TypeInv /\ CountInv /\ [Next]_vars => CountInv'
<1> SUFFICES ASSUME TypeInv, CountInv, [Next]_vars PROVE CountInv'
  OBVIOUS
<1>1. ASSUME NEW k \in TaskId, Work(k) PROVE CountInv'
  <2>1. CASE Take(k)
    BY <2>1, CountQuiet DEF Take, FirstPc, At, Goto, TypeInv, TypeOK, row,
       locals,
       history
  <2>2. CASE LogRead(k)
    BY <2>2, CountQuiet DEF LogRead, At, Goto, TypeInv, TypeOK, row, queue,
       history
  <2>3. CASE LogWrite(k)
    <3>1. ret[k] # "succeed"
      BY DEF TypeInv, Returns
    <3> QED
      BY <2>3, <3>1, CountQuiet DEF LogWrite, At, Goto, TypeInv, TypeOK, queue,
         history
  <2>4. CASE LogWriteLast(k)
    BY <2>4, CountQuiet DEF LogWriteLast, Leave, At, Goto, TypeInv, TypeOK,
       history
  <2>5. CASE OpenOrphan(k)
    BY <2>5, CountQuiet DEF OpenOrphan, At, Goto, TypeInv, TypeOK, row, locals,
       queue, history
  <2>6. CASE Orphan(k)
    BY <2>6, CountQuiet DEF Orphan, Leave, At, Goto, TypeInv, TypeOK, history
  <2>7. CASE ListStart(k)
    BY <2>7, CountQuiet DEF ListStart, At, Goto, TypeInv, TypeOK, locals, queue,
       history
  <2>8. CASE ListOpen(k)
    BY <2>8, CountQuiet DEF ListOpen, At, Goto, TypeInv, TypeOK, row, locals,
       queue, history
  <2>9. CASE EnqueueCategory(k)
    BY <2>9, CountQuiet DEF EnqueueCategory, IsNext, Unused, CallLog, At, Goto,
       TypeInv, TypeOK, row, history
  <2>10. CASE GetTools(k)
    BY <2>10, CountQuiet DEF GetTools, CallLog, At, Goto, TypeInv, TypeOK, row,
       queue, history
  <2>11. CASE Expect(k)
    <3>1. seen[k] = NoMeta
      BY <2>11 DEF Expect, CountInv, SuccessBacked
    <3>2. meta'.completed = 0 /\ counted \in Nat
      BY <2>11 DEF Expect, TypeInv, TypeOK
    <3>3. CompletedNeverOvercounts' /\ FoundBacked'
      BY <2>11, <3>2 DEF Expect, CountInv, CompletedNeverOvercounts,
         FoundBacked,
         locals
    <3>4. SuccessBacked'
      BY <2>11, <3>1, <3>2, NoMetaType DEF Expect, At, Goto, CountInv,
         SuccessBacked, TypeInv, TypeOK, locals, queue
    <3> QED
      BY <3>3, <3>4 DEF CountInv
  <2>12. CASE Spread(k)
    BY <2>12, CountQuiet DEF Spread, Offer, IsNext, Unused, At, Goto, TypeInv,
       TypeOK, row
  <2>13. CASE CategoryOpen(k)
    BY <2>13, CountQuiet DEF CategoryOpen, CallLog, At, Goto, TypeInv, TypeOK,
       row,
       queue, history
  <2>14. CASE GetCategories(k)
    BY <2>14, CountQuiet DEF GetCategories, CallLog, At, Goto, TypeInv, TypeOK,
       row, queue, history
  <2>15. CASE Snapshot(k) \/ Reread(k)
    BY <2>15 DEF Snapshot, Reread, CallLog, At, Goto, CountInv, TypeInv, TypeOK,
       CompletedNeverOvercounts, FoundBacked, SuccessBacked, row, queue, history
  <2>16. CASE DetailOpen(k)
    BY <2>16, CountQuiet DEF DetailOpen, At, Goto, TypeInv, TypeOK, row, locals,
       queue, history
  <2>17. CASE GetDetail(k)
    BY <2>17, CountQuiet DEF GetDetail, CallLog, At, Goto, TypeInv, TypeOK, row,
       queue, history
  <2>18. CASE GetDetailNull(k)
    BY <2>18, CountQuiet DEF GetDetailNull, At, Goto, TypeInv, TypeOK, row,
       locals,
       queue
  <2>19. CASE EnqueueNormalize(k)
    BY <2>19, CountQuiet DEF EnqueueNormalize, IsNext, Unused, At, Goto,
       TypeInv,
       TypeOK, row, locals, history
  <2>20. CASE DetailCount(k)
    <3>1. Counted(seen[k]).completed = seen[k].completed + 1
      BY CountedAddsOne DEF TypeInv, TypeOK
    <3>2. CompletedNeverOvercounts' /\ FoundBacked'
      BY <2>20, <3>1, NoMetaType DEF DetailCount, Leave, CountInv, Meta,
         TypeInv,
         TypeOK, CompletedNeverOvercounts, FoundBacked
    <3>3. SuccessBacked'
      BY <2>20, NoMetaType DEF DetailCount, Leave, At, Goto, CountInv, Meta,
         TypeInv,
         TypeOK, SuccessBacked
    <3> QED
      BY <3>2, <3>3 DEF CountInv
  <2>21. CASE NormalizeOpen(k)
    BY <2>21, CountQuiet DEF NormalizeOpen, CallLog, At, Goto, TypeInv,
       TypeOK, row,
       queue, history
  <2>22. CASE IngestNull(k)
    BY <2>22, CountQuiet DEF IngestNull, CallLog, At, Goto, TypeInv, TypeOK,
       row,
       queue
  <2>23. CASE Ingest(k)
    BY <2>23, CountQuiet DEF Ingest, At, Goto, TypeInv, TypeOK, row, locals,
       queue,
       history
  <2>24. CASE StartAiPipeline(k)
    BY <2>24, CountQuiet DEF StartAiPipeline, CallLog, At, Goto, TypeInv,
       TypeOK,
       row, queue, history
  <2>25. CASE NormalizeCount(k)
    <3>1. Counted(seen[k]).completed = seen[k].completed + 1
      BY CountedAddsOne DEF TypeInv, TypeOK
    <3>2. CompletedNeverOvercounts' /\ FoundBacked'
      BY <2>25, <3>1, NoMetaType DEF NormalizeCount, Leave, CountInv, Meta,
         TypeInv,
         TypeOK, CompletedNeverOvercounts, FoundBacked, locals
    <3>3. CASE ReachesExpected(seen[k])
      <4>1. seen[k].expected <= counted'
        BY <2>25, <3>3 DEF NormalizeCount, ReachesExpected, CountInv, Meta,
           TypeInv,
           TypeOK, CompletedNeverOvercounts
      <4>2. SuccessBacked'
        BY <2>25, <3>3, <4>1 DEF NormalizeCount, At, Goto, CountInv, Meta,
           TypeInv,
           TypeOK, SuccessBacked, locals
      <4> QED
        BY <3>2, <4>2 DEF CountInv
    <3>4. CASE ~ReachesExpected(seen[k])
      <4>1. SuccessBacked'
        BY <2>25, <3>4, NoMetaType DEF NormalizeCount, Leave, At, Goto,
           CountInv,
           Meta, TypeInv, TypeOK, SuccessBacked
      <4> QED
        BY <3>2, <4>1 DEF CountInv
    <3> QED
      BY <3>3, <3>4
  <2>26. CASE Succeed(k)
    BY <2>26 DEF Succeed, At, Goto, CountInv, TypeInv, TypeOK, FoundBacked,
       CompletedNeverOvercounts, SuccessBacked, locals, queue, history
  <2>27. CASE Announce(k)
    BY <2>27, CountQuiet DEF Announce, Leave, At, Goto, TypeInv, TypeOK, row,
       history
  <2>28. CASE Fail(k)
    BY <2>28, CountQuiet DEF Fail, Requeue, AfterRejection, Leave, At, Goto,
       TypeInv,
       TypeOK, history
  <2> QED
    BY <1>1, <2>1, <2>2, <2>3, <2>4, <2>5, <2>6, <2>7, <2>8, <2>9, <2>10,
       <2>11, <2>12, <2>13, <2>14, <2>15, <2>16, <2>17, <2>18, <2>19, <2>20,
       <2>21, <2>22, <2>23, <2>24, <2>25, <2>26, <2>27, <2>28 DEF Work
<1>2. ASSUME NEW k \in TaskId, Fault(k) PROVE CountInv'
  <2>1. CASE Throw(k)
    BY <2>1, CountQuiet DEF Throw, CallLog, At, Goto, TypeInv, TypeOK, row,
       queue,
       history
  <2>2. CASE ThrowUncaught(k)
    BY <2>2, CountQuiet DEF ThrowUncaught, Requeue, AfterRejection, Leave, At,
       Goto,
       TypeInv, TypeOK, row, history
  <2>3. CASE Crash(k)
    BY <2>3, CountQuiet DEF Crash, Leave, At, Goto, TypeInv, TypeOK, row,
       history
  <2> QED
    BY <1>2, <2>1, <2>2, <2>3 DEF Fault
<1>3. CASE DeleteSource \/ UNCHANGED vars
  BY <1>3 DEF DeleteSource, vars, CountInv, CompletedNeverOvercounts,
     FoundBacked,
     SuccessBacked, At, row, locals, queue, history
<1> QED
  BY <1>1, <1>2, <1>3 DEF Next, Rest

LEMMA CountInvariant == Spec => []CountInv
<1>1. TypeInv /\ CountInv /\ [Next]_vars => CountInv'
  BY CountStep
<1> QED
  BY <1>1, CountInit, TypeInvariant, PTL DEF Spec

\* However the stale snapshots of crawl-detail and appendJobStep overwrite each
\* other, completedDetails never exceeds the number of finished stages.
THEOREM NoOvercount == Spec => []CompletedNeverOvercounts
<1>1. CountInv => CompletedNeverOvercounts
  BY DEF CountInv
<1> QED
  BY <1>1, CountInvariant, PTL

\* items_found, overwritten by markJobSucceeded, never exceeds them either.
THEOREM FoundIsBacked == Spec => []FoundBacked
<1>1. CountInv => FoundBacked
  BY DEF CountInv
<1> QED
  BY <1>1, CountInvariant, PTL

-----------------------------------------------------------------------------
(* No item is lost *)

LEMMA LossInit == Init => LossInv
<1> SUFFICES ASSUME Init PROVE LossInv
  OBVIOUS
<1>1. \A k \in TaskId : state[k] \in {"none", "waiting"}
  BY DEF Init
<1>2. OneList
  BY ListTaskType DEF Init, OneList
<1>3. OfferHands /\ ListHands
  BY <1>1, ListTaskType DEF Init, OfferHands, ListHands, At
<1> QED
  BY <1>1, <1>2, <1>3 DEF LossInv, StagePcs, NormalizeHands, DetailHands,
     Handed, At

\* A step of task k that enqueues at most other, unused tasks, and takes nothing
\* back, is safe when what LossInv says of k itself still holds.
LEMMA LossMove ==
  ASSUME LossInv,
         NEW k \in TaskId, state[k] # "none", state'[k] # "none",
         \A j \in TaskId \ {k} :
           /\ \/ state'[j] = state[j]
              \/ state[j] = "none" /\ state'[j] = "waiting" /\ j.stage # "list"
           /\ pc'[j] = pc[j] /\ ret'[j] = ret[j] /\ todo'[j] = todo[j],
         piped \subseteq piped', skipped \subseteq skipped',
         StagePcs(k)', NormalizeHands(k)', DetailHands(k)',
         offered' = offered \/ OfferHands',
         (k.stage # "list" /\ listed' = listed /\ offered' = offered) \/ ListHands'
  PROVE  LossInv'
<1>1. \A j \in TaskId : state[j] # "none" => state'[j] # "none"
  OBVIOUS
<1>2. OneList'
  BY <1>1, ListTaskType DEF LossInv, OneList
<1>3. OfferHands'
  BY <1>1 DEF LossInv, OfferHands, Enqueued
<1>4. ListHands'
  BY ListTaskType DEF LossInv, ListHands, OneList, At
<1>5. ASSUME NEW j \in TaskId, j # k
      PROVE  StagePcs(j)' /\ NormalizeHands(j)' /\ DetailHands(j)'
  <2>1. StagePcs(j) /\ NormalizeHands(j) /\ DetailHands(j)
    BY DEF LossInv
  <2>2. StagePcs(j)'
    BY <2>1, <1>5 DEF StagePcs, At
  <2>3. NormalizeHands(j)'
    BY <2>1, <1>5 DEF NormalizeHands, Handed
  <2>4. DetailHands(j)'
    BY <2>1, <1>1, <1>5 DEF DetailHands, Enqueued, At
  <2> QED
    BY <2>2, <2>3, <2>4
<1> QED
  BY <1>2, <1>3, <1>4, <1>5 DEF LossInv

\* Most steps leave the task where no promise is attached to its place.
LEMMA LossPlain ==
  ASSUME LossInv,
         NEW k \in TaskId, state[k] # "none",
         state'[k] \notin {"none", "done"},
         state'[k] = "active" =>
           /\ pc'[k] \notin {"spread", "count", "succeed", "announce"}
           /\ pc'[k] = "reread" => k.item \in piped' \union skipped'
           /\ pc'[k] \in {"logRead", "logWrite"} /\ ret'[k] = "reread" =>
                k.item \in piped' \union skipped',
         \A j \in TaskId \ {k} :
           /\ \/ state'[j] = state[j]
              \/ state[j] = "none" /\ state'[j] = "waiting" /\ j.stage # "list"
           /\ pc'[j] = pc[j] /\ ret'[j] = ret[j] /\ todo'[j] = todo[j],
         piped \subseteq piped', skipped \subseteq skipped',
         listed' = listed, offered' = offered
  PROVE  LossInv'
<1>1. StagePcs(k)' /\ NormalizeHands(k)' /\ DetailHands(k)'
  BY DEF StagePcs, NormalizeHands, DetailHands, Handed, At
<1>2. CASE k.stage = "list"
  <2>1. k = ListTask
    BY <1>2 DEF LossInv, OneList
  <2>2. ListHands'
    BY <2>1 DEF ListHands, At
  <2> QED
    BY <1>1, <2>2, LossMove
<1>3. CASE k.stage # "list"
  BY <1>1, <1>3, LossMove
<1> QED
  BY <1>2, <1>3

LEMMA LossStep == TypeInv /\ LossInv /\ [Next]_vars => LossInv'
<1> SUFFICES ASSUME TypeInv, LossInv, [Next]_vars PROVE LossInv'
  OBVIOUS
<1>1. ASSUME NEW k \in TaskId, Work(k) PROVE LossInv'
  <2> \A j \in TaskId : StagePcs(j) /\ NormalizeHands(j) /\ DetailHands(j)
    BY DEF LossInv
  <2>1. CASE Take(k)
    BY <2>1, LossPlain DEF Take, FirstPc, At, Goto, TypeInv, TypeOK, outside,
       locals, queue, history
  <2>2. CASE LogRead(k)
    <3>1. ret[k] = "reread" => k.item \in piped \union skipped
      BY <2>2, TaskStage DEF LogRead, NormalizeHands, Handed, At, TypeInv,
         Returns
    <3> QED
      BY <2>2, <3>1, LossPlain DEF LogRead, At, Goto, TypeInv, TypeOK, outside,
         queue, history
  <2>3. CASE LogWrite(k)
    <3>1. /\ ret[k] = "reread" => k.item \in piped \union skipped
          /\ ret[k] \notin {"spread", "count", "succeed", "announce", "logRead",
                            "logWrite"}
      BY <2>3, TaskStage DEF LogWrite, NormalizeHands, Handed, At, TypeInv,
         Returns
    <3> QED
      BY <2>3, <3>1, LossPlain DEF LogWrite, At, Goto, TypeInv, TypeOK, outside,
         queue, history
  <2>4. CASE LogWriteLast(k)
    <3>1. k.stage = "category"
      BY <2>4 DEF LogWriteLast, At, TypeInv, Returns
    <3>2. StagePcs(k)' /\ NormalizeHands(k)' /\ DetailHands(k)'
      BY <2>4, <3>1 DEF LogWriteLast, Leave, StagePcs, NormalizeHands,
         DetailHands,
         At, TypeInv, TypeOK
    <3> QED
      BY <2>4, <3>1, <3>2, LossMove DEF LogWriteLast, Leave, At, Goto, TypeInv,
         TypeOK, outside, history
  <2>5. CASE OpenOrphan(k)
    BY <2>5, LossPlain DEF OpenOrphan, At, Goto, TypeInv, TypeOK, outside,
       locals, queue, history
  <2>6. CASE Orphan(k)
    BY <2>6, LossPlain DEF Orphan, Leave, At, Goto, TypeInv, TypeOK, outside,
       locals, queue, history
  <2>7. CASE ListStart(k)
    BY <2>7, LossPlain DEF ListStart, At, Goto, TypeInv, TypeOK, outside,
       locals, queue, history
  <2>8. CASE ListOpen(k)
    BY <2>8, LossPlain DEF ListOpen, At, Goto, TypeInv, TypeOK, outside,
       locals, queue, history
  <2>9. CASE EnqueueCategory(k)
    BY <2>9, LossPlain DEF EnqueueCategory, IsNext, Unused, CallLog, At, Goto,
       TypeInv, TypeOK, outside, locals, queue, history
  <2>10. CASE GetTools(k)
    BY <2>10, LossPlain DEF GetTools, CallLog, At, Goto, TypeInv, TypeOK,
       outside, locals, queue, history
  <2>11. CASE Expect(k)
    <3>1. k = ListTask
      BY <2>11 DEF Expect, At, LossInv, OneList
    <3>2. ListHands'
      BY <2>11, <3>1 DEF Expect, ListHands, At, Goto, TypeInv, TypeOK, locals,
         queue
    <3>3. StagePcs(k)' /\ NormalizeHands(k)' /\ DetailHands(k)'
      BY <2>11 DEF Expect, StagePcs, NormalizeHands, DetailHands, At, Goto,
         TypeInv,
         TypeOK, queue
    <3> QED
      BY <2>11, <3>2, <3>3, LossMove DEF Expect, At, Goto, TypeInv, TypeOK,
         outside,
         locals, queue
  <2>12. CASE Spread(k)
    <3>1. k = ListTask /\ k.stage = "list"
      BY <2>12 DEF Spread, At, LossInv, OneList
    <3>2. PICK i \in todo[k], d \in TaskId : Offer(k, i, d)
      BY <2>12 DEF Spread
    <3>3. d.stage = "detail" /\ d.item = i /\ state[d] = "none" /\ d # k
      BY <2>12, <3>2 DEF Spread, Offer, IsNext, Unused, At
    <3>4. state'[d] = "waiting"
          /\ \A j \in TaskId : state[j] # "none" => state'[j] # "none"
      BY <3>2, <3>3 DEF Offer, TypeInv, TypeOK
    <3>5. OfferHands'
      <4>1. Enqueued("detail", i)'
        BY <3>3, <3>4 DEF Enqueued
      <4>2. \A x \in offered : Enqueued("detail", x)'
        BY <3>4 DEF LossInv, OfferHands, Enqueued
      <4> QED
        BY <3>2, <4>1, <4>2 DEF Offer, OfferHands
    <3>6. ListHands'
      <4>1. listed' = listed /\ listed \ todo[k] \subseteq offered
        BY <2>12, <3>1 DEF Spread, LossInv, ListHands
      <4>2. CASE todo[k] = {i}
        BY <3>1, <3>2, <3>3, <4>1, <4>2 DEF Offer, ListHands, At, Goto, TypeInv,
             TypeOK
      <4>3. CASE todo[k] # {i}
        <5>1. pc'[k] = "spread" /\ state'[k] = "active" /\ todo'[k] = todo[k] \ {i}
          BY <2>12, <3>2, <3>3, <4>3 DEF Spread, Offer, At, TypeInv, TypeOK
        <5> QED
          BY <3>1, <3>2, <4>1, <5>1 DEF Offer, ListHands, At
      <4> QED
        BY <4>2, <4>3
    <3>7. StagePcs(k)' /\ NormalizeHands(k)' /\ DetailHands(k)'
      BY <2>12, <3>1, <3>2 DEF Spread, Offer, StagePcs, NormalizeHands,
         DetailHands, At,
         Goto,
         TypeInv, TypeOK
    <3>8. \A j \in TaskId \ {k} :
           /\ \/ state'[j] = state[j]
              \/ state[j] = "none" /\ state'[j] = "waiting" /\ j.stage # "list"
           /\ pc'[j] = pc[j] /\ ret'[j] = ret[j] /\ todo'[j] = todo[j]
      BY <2>12, <3>2, <3>3 DEF Spread, Offer, Goto, TypeInv, TypeOK
    <3> QED
      BY <2>12, <3>4, <3>5, <3>6, <3>7, <3>8, LossMove DEF Spread, Offer, At,
         outside
  <2>13. CASE CategoryOpen(k)
    BY <2>13, LossPlain DEF CategoryOpen, CallLog, At, Goto, TypeInv, TypeOK,
       outside, locals, queue, history
  <2>14. CASE GetCategories(k)
    BY <2>14, LossPlain DEF GetCategories, CallLog, At, Goto, TypeInv, TypeOK,
       outside, locals, queue, history
  <2>15. CASE DetailOpen(k)
    BY <2>15, LossPlain DEF DetailOpen, At, Goto, TypeInv, TypeOK, outside,
       locals, queue, history
  <2>16. CASE Snapshot(k)
    BY <2>16, LossPlain DEF Snapshot, CallLog, At, Goto, TypeInv, TypeOK,
       outside, locals, queue, history
  <2>17. CASE GetDetail(k)
    BY <2>17, LossPlain DEF GetDetail, CallLog, At, Goto, TypeInv, TypeOK,
       outside, locals, queue, history
  <2>18. CASE GetDetailNull(k)
    <3>1. StagePcs(k)' /\ NormalizeHands(k)' /\ DetailHands(k)'
      BY <2>18 DEF GetDetailNull, StagePcs, NormalizeHands, DetailHands, At,
         Goto,
         TypeInv, TypeOK, queue
    <3> QED
      BY <2>18, <3>1, LossMove DEF GetDetailNull, At, Goto, TypeInv, TypeOK,
         outside,
         locals, queue
  <2>19. CASE EnqueueNormalize(k)
    <3>1. PICK n \in TaskId :
            /\ IsNext(n, "normalize", k.item)
            /\ state' = [state EXCEPT ![n] = "waiting"]
      BY <2>19 DEF EnqueueNormalize
    <3>2. n.stage = "normalize" /\ n.item = k.item /\ n # k /\ state[n] = "none"
      BY <2>19, <3>1 DEF EnqueueNormalize, IsNext, Unused
    <3>3. Enqueued("normalize", k.item)'
      BY <3>1, <3>2 DEF Enqueued, TypeInv, TypeOK
    <3>4. StagePcs(k)' /\ NormalizeHands(k)' /\ DetailHands(k)'
      BY <2>19, <3>1, <3>2, <3>3 DEF EnqueueNormalize, StagePcs, NormalizeHands,
         DetailHands, At, Goto, TypeInv, TypeOK
    <3>5. \A j \in TaskId \ {k} :
           /\ \/ state'[j] = state[j]
              \/ state[j] = "none" /\ state'[j] = "waiting" /\ j.stage # "list"
           /\ pc'[j] = pc[j] /\ ret'[j] = ret[j] /\ todo'[j] = todo[j]
      BY <2>19, <3>1, <3>2 DEF EnqueueNormalize, Goto, TypeInv, TypeOK, locals
    <3>6. state[k] # "none" /\ state'[k] # "none"
      BY <2>19, <3>1, <3>2 DEF EnqueueNormalize, At, TypeInv, TypeOK
    <3> QED
      BY <2>19, <3>4, <3>5, <3>6, LossMove DEF EnqueueNormalize, outside,
         history
  <2>20. CASE DetailCount(k)
    <3>1. k.item \in skipped' \/ Enqueued("normalize", k.item)'
      BY <2>20 DEF DetailCount, Leave, DetailHands, Enqueued, TypeInv, TypeOK
    <3>2. StagePcs(k)' /\ NormalizeHands(k)' /\ DetailHands(k)'
      BY <2>20, <3>1 DEF DetailCount, Leave, StagePcs, NormalizeHands,
         DetailHands,
         At, TypeInv, TypeOK
    <3> QED
      BY <2>20, <3>2, LossMove DEF DetailCount, Leave, At, Goto, TypeInv,
         TypeOK,
         outside
  <2>21. CASE NormalizeOpen(k)
    BY <2>21, LossPlain DEF NormalizeOpen, CallLog, At, Goto, TypeInv, TypeOK,
       outside, locals, queue, history
  <2>22. CASE Ingest(k)
    BY <2>22, LossPlain DEF Ingest, At, Goto, TypeInv, TypeOK, outside,
       locals, queue, history
  <2>23. CASE IngestNull(k)
    BY <2>23, LossPlain DEF IngestNull, CallLog, At, Goto, TypeInv, TypeOK,
       outside, locals, queue, history
  <2>24. CASE StartAiPipeline(k)
    BY <2>24, LossPlain DEF StartAiPipeline, CallLog, At, Goto, TypeInv,
       TypeOK, outside, locals, queue, history
  <2>25. CASE Reread(k)
    <3>1. StagePcs(k)' /\ NormalizeHands(k)' /\ DetailHands(k)'
      BY <2>25 DEF Reread, StagePcs, NormalizeHands, DetailHands, Handed, At,
         Goto,
         TypeInv, TypeOK, outside, queue, history
    <3> QED
      BY <2>25, <3>1, LossMove DEF Reread, At, Goto, TypeInv, TypeOK, outside,
         locals,
         queue, history
  <2>26. CASE NormalizeCount(k)
    <3>1. k.item \in piped \union skipped
      BY <2>26 DEF NormalizeCount, NormalizeHands, Handed, At
    <3>2. state'[k] # "none" /\ pc'[k] \notin {"spread", "count"}
      BY <2>26 DEF NormalizeCount, Leave, At, Goto, TypeInv, TypeOK, locals
    <3>3. StagePcs(k)' /\ NormalizeHands(k)' /\ DetailHands(k)'
      BY <2>26, <3>1, <3>2 DEF NormalizeCount, StagePcs, NormalizeHands,
         DetailHands,
         At, outside
    <3> QED
      BY <2>26, <3>2, <3>3, LossMove DEF NormalizeCount, Leave, At, Goto,
         TypeInv,
         TypeOK, outside, locals
  <2>27. CASE Succeed(k)
    <3>1. StagePcs(k)' /\ NormalizeHands(k)' /\ DetailHands(k)'
      BY <2>27 DEF Succeed, StagePcs, NormalizeHands, DetailHands, Handed, At,
         Goto,
         TypeInv, TypeOK, outside, queue, history
    <3>2. (k.stage # "list") \/ ListHands'
      BY <2>27 DEF Succeed, LossInv, OneList, ListHands, At, Goto, TypeInv,
         TypeOK,
         locals, queue, history
    <3> QED
      BY <2>27, <3>1, <3>2, LossMove DEF Succeed, At, Goto, TypeInv, TypeOK,
         outside,
         locals, queue, history
  <2>28. CASE Announce(k)
    <3>1. StagePcs(k)' /\ NormalizeHands(k)' /\ DetailHands(k)'
      BY <2>28 DEF Announce, Leave, StagePcs, NormalizeHands, DetailHands,
         Handed, At,
         TypeInv, TypeOK, history
    <3>2. (k.stage # "list") \/ ListHands'
      BY <2>28 DEF Announce, Leave, LossInv, OneList, ListHands, At, TypeInv,
         TypeOK,
         history
    <3> QED
      BY <2>28, <3>1, <3>2, LossMove DEF Announce, Leave, At, Goto, TypeInv,
         TypeOK,
         history
  <2>29. CASE Fail(k)
    BY <2>29, LossPlain DEF Fail, Requeue, AfterRejection, Leave, At, Goto,
       TypeInv, TypeOK, outside, locals, queue, history
  <2> QED
    BY <1>1, <2>1, <2>2, <2>3, <2>4, <2>5, <2>6, <2>7, <2>8, <2>9, <2>10,
       <2>11, <2>12, <2>13, <2>14, <2>15, <2>16, <2>17, <2>18, <2>19, <2>20,
       <2>21, <2>22, <2>23, <2>24, <2>25, <2>26, <2>27, <2>28, <2>29 DEF Work
<1>2. ASSUME NEW k \in TaskId, Fault(k) PROVE LossInv'
  <2>1. CASE Throw(k)
    BY <2>1, LossPlain DEF Throw, CallLog, Goto, TypeInv, TypeOK, outside,
       queue,
       history
  <2>2. CASE ThrowUncaught(k)
    BY <2>2, LossPlain DEF ThrowUncaught, Requeue, AfterRejection, Leave, Goto,
       TypeInv, TypeOK, outside, history
  <2>3. CASE Crash(k)
    BY <2>3, LossPlain DEF Crash, Leave, Goto, TypeInv, TypeOK, outside, history
  <2> QED
    BY <1>2, <2>1, <2>2, <2>3 DEF Fault
<1>3. CASE DeleteSource \/ UNCHANGED vars
  BY <1>3 DEF DeleteSource, vars, LossInv, OneList, OfferHands, ListHands,
     Enqueued,
     StagePcs, NormalizeHands, DetailHands, Handed, At, outside, locals,
     queue, history
<1> QED
  BY <1>1, <1>2, <1>3 DEF Next, Rest

LEMMA LossInvariant == Spec => []LossInv
<1>1. TypeInv /\ LossInv /\ [Next]_vars => LossInv'
  BY LossStep
<1> QED
  BY <1>1, LossInit, TypeInvariant, PTL DEF Spec

\* No listed item is silently lost, with any number of rejected awaits, crashes
\* and retries: the handlers hand an item over before they complete.
THEOREM NoItemLost == Spec => []NothingLost
<1>1. TypeInv /\ LossInv => NothingLost
  <2> SUFFICES ASSUME TypeInv, LossInv,
                      NEW i \in listed, state[ListTask] \notin Unfinished
               PROVE  Accounted(i)
    BY DEF NothingLost
  <2>1. \A k \in TaskId : state[k] \in TaskStates
    BY DEF TypeInv, TypeOK
  <2>2. state[ListTask] = "done"
    BY <2>1, ListTaskType DEF TaskStates, Unfinished, Pending, LossInv, OneList
  <2>3. i \in offered
    BY <2>2 DEF LossInv, ListHands
  <2>4. PICK d \in TaskId : d.stage = "detail" /\ d.item = i /\ state[d] # "none"
    BY <2>3 DEF LossInv, OfferHands, Enqueued
  <2>5. CASE state[d] \in Unfinished
    BY <2>4, <2>5 DEF Accounted
  <2>6. CASE i \in skipped
    BY <2>6 DEF Accounted
  <2>7. CASE state[d] = "done" /\ i \notin skipped
    <3>1. PICK n \in TaskId : n.stage = "normalize" /\ n.item = i /\ state[n] # "none"
      BY <2>4, <2>7 DEF LossInv, DetailHands, Enqueued
    <3>2. CASE state[n] \in Unfinished
      BY <3>1, <3>2 DEF Accounted
    <3>3. CASE state[n] = "done"
      BY <3>1, <3>3 DEF LossInv, NormalizeHands, Handed, Accounted
    <3> QED
      BY <2>1, <3>1, <3>2, <3>3 DEF TaskStates, Unfinished, Pending
  <2> QED
    BY <2>1, <2>4, <2>5, <2>6, <2>7 DEF TaskStates, Unfinished, Pending
<1> QED
  BY <1>1, TypeInvariant, LossInvariant, PTL

-----------------------------------------------------------------------------
(* Jobs that get stuck.  Without faults every stage of an item runs once,    *)
(* so that the finished stages can be counted by the items they are about.   *)

\* Nothing failed, was given up or lost its source.
Unfailed ==
  /\ sourceActive
  /\ \A k \in TaskId :
       /\ state[k] \notin {"orphaned", "dead"}
       /\ state[k] = "active" => pc[k] \notin {"orphan", "fail"}
       /\ ret[k] # "fail"

\* There is one task of a stage about an item.
Once ==
  \A j, k \in TaskId :
    /\ j.stage \in {"detail", "normalize"} /\ j.stage = k.stage /\ j.item = k.item
    /\ state[j] # "none" /\ state[k] # "none"
    => j = k

\* The crawl-tool task has not written the number of items it found yet.
Early ==
  \/ state[ListTask] = "waiting"
  \/ state[ListTask] = "active" /\ pc[ListTask] \notin {"spread", "succeed", "announce"}

\* Until then there is nothing to count.
Fresh ==
  Early =>
    /\ \A k \in TaskId :
         /\ k.stage \in {"detail", "normalize"} => state[k] = "none"
         /\ log[k] = NoMeta /\ seen[k] = NoMeta
    /\ meta = NoMeta /\ counted = 0 /\ listed = {}

\* The items the crawl-tool task still has to offer have no task, and an item is
\* handed to normalize by a crawl-detail task that only counts any more.
Unoffered ==
  At(ListTask, "spread") => \A i \in todo[ListTask] : ~Enqueued("detail", i)
Sourced(n) ==
  n.stage = "normalize" /\ state[n] # "none" =>
    \E d \in TaskId : /\ d.stage = "detail" /\ d.item = n.item
                      /\ state[d] = "done" \/ At(d, "count")

Orderly == Unfailed /\ Once /\ Fresh /\ Unoffered /\ \A n \in TaskId : Sourced(n)

\* The items whose crawl-detail task counted, and those whose normalize task did.
CountedNormalize(k) ==
  k.stage = "normalize" /\ (state[k] = "done" \/ At(k, "succeed") \/ At(k, "announce"))
DetailsCounted ==
  {i \in Items : \E k \in TaskId : k.stage = "detail" /\ k.item = i /\ state[k] = "done"}
NormalizesCounted ==
  {i \in Items : \E k \in TaskId : k.item = i /\ CountedNormalize(k)}
Tally == counted = Cardinality(DetailsCounted) + Cardinality(NormalizesCounted)

\* The row's metadata and the handlers' copies of it.
Copies == {meta} \union {log[k] : k \in TaskId} \union {seen[k] : k \in TaskId}
Fitting == \A c \in Copies : c.expected <= Cardinality(listed)

\* A crawl-detail task whose normalize task has counted before it writes back a
\* counter that is too low.
Outrun(k) ==
  k.stage = "detail" /\ At(k, "count") /\ k.item \in NormalizesCounted =>
    seen[k].completed < counted

\* As long as some copy is up to date and no normalize task found the job
\* finished, those that counted saw less than the number of items.
Successful == status = "SUCCEEDED" \/ \E k \in TaskId : At(k, "succeed")
Lagging == \A c \in Copies : c.completed < counted
Verdict ==
  \/ NormalizesCounted = {} \/ Successful \/ Lagging
  \/ Cardinality(DetailsCounted \intersect NormalizesCounted)
       + Cardinality(NormalizesCounted) < Cardinality(listed)

\* A crawl-tool task that found nothing marks the job itself.
Ended == Early \/ listed # {} \/ Successful

Reckoned == Tally /\ Fitting /\ Verdict /\ Ended /\ \A k \in TaskId : Outrun(k)

StuckInv == faults = 0 => Orderly /\ Reckoned

\* Sets of items have a size, and one more item makes it one larger.
LEMMA ItemSets ==
  ASSUME NEW S \in SUBSET Items
  PROVE  /\ IsFiniteSet(S) /\ Cardinality(S) \in Nat
         /\ Cardinality(S) = 0 <=> S = {}
         /\ \A T \in SUBSET S : Cardinality(T) <= Cardinality(S)
         /\ \A i \in Items \ S : Cardinality(S \union {i}) = Cardinality(S) + 1
<1>1. IsFiniteSet(S)
  BY ConstantsAssumption, FS_Subset
<1>2. \A T \in SUBSET S : Cardinality(T) <= Cardinality(S)
  BY <1>1, FS_Subset
<1>3. \A i \in Items \ S : Cardinality(S \union {i}) = Cardinality(S) + 1
  BY <1>1, FS_AddElement
<1>4. Cardinality(S) = 0 <=> S = {}
  BY <1>1, FS_EmptySet
<1> QED
  BY <1>1, <1>2, <1>3, <1>4, FS_CardinalityType

\* The sets that Reckoned counts.
LEMMA CountedSets ==
  ASSUME TypeInv
  PROVE  /\ DetailsCounted \in SUBSET Items /\ NormalizesCounted \in SUBSET Items
         /\ listed \in SUBSET Items
         /\ DetailsCounted \intersect NormalizesCounted \in SUBSET NormalizesCounted
         /\ DetailsCounted \intersect NormalizesCounted \in SUBSET DetailsCounted
         /\ Copies \subseteq Meta
BY DEF DetailsCounted, NormalizesCounted, TypeInv, TypeOK, Copies

\* A crawl-detail task that has not come to its counter has no normalize task.
LEMMA NotYetNormalized ==
  ASSUME TypeInv, Orderly,
         NEW k \in TaskId, k.stage = "detail", state[k] = "active", pc[k] # "count"
  PROVE  /\ ~Enqueued("normalize", k.item)
         /\ k.item \notin NormalizesCounted
<1>1. ~Enqueued("normalize", k.item)
  <2>1. SUFFICES ASSUME NEW n \in TaskId, n.stage = "normalize", n.item = k.item,
                        state[n] # "none"
                 PROVE  FALSE
    BY DEF Enqueued
  <2>2. PICK d \in TaskId : /\ d.stage = "detail" /\ d.item = n.item
                            /\ state[d] = "done" \/ At(d, "count")
    BY <2>1 DEF Orderly, Sourced
  <2>3. d = k
    BY <2>1, <2>2 DEF Orderly, Once, At
  <2> QED
    BY <2>2, <2>3 DEF At
<1> QED
  BY <1>1 DEF NormalizesCounted, CountedNormalize, Enqueued, At

\* The steps that do not count and that leave the number of items alone: what
\* they do to the rest of the state, and where they take task k.
Apart(k) ==
  /\ sourceActive' = sourceActive /\ counted' = counted /\ listed' = listed
  /\ \A j \in TaskId \ {k} :
       /\ \/ state'[j] = state[j]
          \/ state[j] = "none" /\ state'[j] = "waiting"
       /\ pc'[j] = pc[j] /\ ret'[j] = ret[j] /\ log'[j] = log[j] /\ seen'[j] = seen[j]
       /\ todo'[j] = todo[j]
  /\ meta' \in {meta, log[k]}
  /\ log'[k] \in {log[k], meta, NoMeta} /\ seen'[k] \in {seen[k], meta, NoMeta}
  /\ state[k] \in Pending /\ ret'[k] # "fail"

Moves(k) ==
  \/ /\ state'[k] = "active"
     /\ pc'[k] \notin {"orphan", "fail", "spread", "succeed", "announce", "count"}
     /\ state[k] = "active" => pc[k] \notin {"spread", "succeed", "announce", "count"}
     /\ status' = status \/ Early
  \/ At(k, "succeed") /\ At(k, "announce")' /\ status' = "SUCCEEDED"
  \/ At(k, "announce") /\ state'[k] = "done" /\ status' = status
  \/ k.stage = "category" /\ At(k, "logWrite") /\ state'[k] = "done" /\ status' = status
  \/ k.stage = "normalize" /\ At(k, "reread") /\ At(k, "count")' /\ status' = status
  \/ /\ k.stage = "detail" /\ At(k, "count")' /\ status' = status
     /\ At(k, "getDetail") \/ At(k, "enqueue")
  \/ /\ k.stage = "list" /\ At(k, "spread") /\ status' = status
     /\ At(k, "spread")' \/ state'[k] = "done"

Plain(k) == Apart(k) /\ Moves(k)

LEMMA PlainEarly ==
  ASSUME TypeInv, LossInv, NEW k \in TaskId, Plain(k)
  PROVE  Early' <=> Early
<1>1. ListTask \in TaskId /\ ListTask.stage = "list" /\ state[ListTask] # "none"
  BY ListTaskType DEF LossInv, OneList
<1>2. CASE k = ListTask
  BY <1>1, <1>2 DEF Plain, Apart, Moves, Early, At, Pending
<1>3. CASE k # ListTask
  BY <1>1, <1>3 DEF Plain, Apart, Moves, Early
<1> QED
  BY <1>2, <1>3

\* Such a step keeps the order of the stages, if it creates no task about an item.
LEMMA OrderlyPlain ==
  ASSUME TypeInv, LossInv, Orderly,
         NEW k \in TaskId, Plain(k),
         \A j \in TaskId : state[j] = "none" /\ state'[j] # "none" => j.stage = "category",
         ~At(k, "spread")
  PROVE  Orderly'
<1>1. Unfailed'
  BY DEF Orderly, Unfailed, Plain, Apart, Moves, At, Pending
<1>2. Once'
  BY DEF Orderly, Once, Plain, Apart, Moves, Pending
<1>3. Fresh'
  <2>1. SUFFICES ASSUME Early
                 PROVE  /\ \A j \in TaskId :
                             /\ j.stage \in {"detail", "normalize"} => state'[j] = "none"
                             /\ log'[j] = NoMeta /\ seen'[j] = NoMeta
                        /\ meta' = NoMeta /\ counted' = 0 /\ listed' = {}
    BY PlainEarly DEF Fresh
  <2>2. /\ \A j \in TaskId : log[j] = NoMeta /\ seen[j] = NoMeta
        /\ \A j \in TaskId : j.stage \in {"detail", "normalize"} => state[j] = "none"
        /\ meta = NoMeta /\ counted = 0 /\ listed = {}
    BY <2>1 DEF Orderly, Fresh
  <2>3. \A j \in TaskId : j.stage \in {"detail", "normalize"} => state'[j] = "none"
    BY <2>2 DEF Plain, Apart, Moves, Pending
  <2> QED
    BY <2>2, <2>3 DEF Plain, Apart, Moves
<1>4. Unoffered'
  <2>1. ListTask \in TaskId /\ ListTask.stage = "list"
    BY ListTaskType
  <2>2. At(ListTask, "spread")' => At(ListTask, "spread") /\ todo'[ListTask] = todo[ListTask]
    BY <2>1 DEF Plain, Apart, Moves, At
  <2>3. \A i \in Items : Enqueued("detail", i)' => Enqueued("detail", i)
    BY DEF Enqueued, Plain, Apart, Moves, Pending
  <2> QED
    BY <2>1, <2>2, <2>3 DEF Orderly, Unoffered, TypeInv, TypeOK
<1>5. \A n \in TaskId : Sourced(n)'
  <2>1. SUFFICES ASSUME NEW n \in TaskId, n.stage = "normalize", state'[n] # "none"
                 PROVE  \E d \in TaskId : /\ d.stage = "detail" /\ d.item = n.item
                                          /\ state'[d] = "done" \/ At(d, "count")'
    BY DEF Sourced
  <2>2. state[n] # "none"
    BY <2>1
  <2>3. PICK d \in TaskId : /\ d.stage = "detail" /\ d.item = n.item
                            /\ state[d] = "done" \/ At(d, "count")
    BY <2>1, <2>2 DEF Orderly, Sourced
  <2>4. state'[d] = "done" \/ At(d, "count")'
    BY <2>3 DEF Plain, Apart, Moves, At, Pending
  <2> QED
    BY <2>3, <2>4
<1> QED
  BY <1>1, <1>2, <1>3, <1>4, <1>5 DEF Orderly

\* Copies are only copied, or dropped.
LEMMA PlainCopies ==
  ASSUME TypeInv, NEW k \in TaskId, Plain(k)
  PROVE  Copies' \subseteq Copies \union {NoMeta}
<1>1. \A j \in TaskId : log'[j] \in Copies \union {NoMeta} /\ seen'[j] \in Copies \union {NoMeta}
  BY DEF Plain, Apart, Moves, Copies
<1>2. meta' \in Copies
  BY DEF Plain, Apart, Moves, Copies
<1> QED
  BY <1>1, <1>2 DEF Copies

\* ... and it keeps the reckoning.
LEMMA ReckonedPlain ==
  ASSUME TypeInv, LossInv, Orderly, Reckoned,
         NEW k \in TaskId, Plain(k)
  PROVE  Reckoned'
<1> DEFINE D == DetailsCounted
           N == NormalizesCounted
<1>1. \A j \in TaskId : j.stage = "detail" => (state'[j] = "done" <=> state[j] = "done")
  BY DEF Plain, Apart, Moves, Pending, At, LossInv, StagePcs
<1>2. \A j \in TaskId : CountedNormalize(j)' <=> CountedNormalize(j)
  BY DEF Plain, Apart, Moves, Pending, At, CountedNormalize
<1>3. D' = D /\ N' = N
  BY <1>1, <1>2 DEF DetailsCounted, NormalizesCounted
<1>4. Copies' \subseteq Copies \union {NoMeta} /\ counted' = counted /\ listed' = listed
  BY PlainCopies DEF Plain, Apart, Moves
<1>5. Early \/ (Successful => Successful')
  BY DEF Plain, Apart, Moves, Successful, At, Pending
<1>6. N # {} => ~Early
  BY DEF Orderly, Fresh, NormalizesCounted, CountedNormalize, At
<1>7. Tally'
  BY <1>3, <1>4 DEF Reckoned, Tally
<1>8. Fitting'
  BY <1>4, CountedSets, ItemSets, NoMetaType DEF Reckoned, Fitting
<1>9. Verdict'
  <2>1. Lagging => Lagging' \/ N = {}
    <3>1. SUFFICES ASSUME Lagging, N # {} PROVE Lagging'
      OBVIOUS
    <3>2. meta \in Copies /\ meta.completed \in Nat /\ counted \in Nat
      BY DEF Copies, TypeInv, TypeOK, Meta
    <3>3. 0 < counted
      BY <3>1, <3>2 DEF Lagging
    <3> QED
      BY <3>1, <3>3, <1>4, NoMetaType DEF Lagging
  <2> QED
    BY <1>3, <1>4, <1>5, <1>6, <2>1 DEF Reckoned, Verdict
<1>10. Ended'
  BY <1>4, <1>5, PlainEarly DEF Reckoned, Ended
<1>11. ASSUME NEW j \in TaskId PROVE Outrun(j)'
  <2>1. CASE j # k
    BY <1>3, <1>4, <2>1 DEF Plain, Apart, Moves, Reckoned, Outrun, At
  <2>2. CASE j = k /\ k.stage = "detail" /\ At(k, "count")'
    <3>1. state[k] = "active" /\ pc[k] # "count"
      BY <2>2 DEF Plain, Apart, Moves, At, LossInv, StagePcs
    <3> QED
      BY <1>3, <2>2, <3>1, NotYetNormalized DEF Outrun
  <2> QED
    BY <2>1, <2>2 DEF Outrun
<1> QED
  BY <1>7, <1>8, <1>9, <1>10, <1>11 DEF Reckoned

\* Expect, the one step that sets the number of items.
LEMMA ExpectStep ==
  ASSUME TypeInv, LossInv, Orderly, NEW k \in TaskId, Expect(k)
  PROVE  Orderly' /\ Reckoned'
<1> USE NoMetaType
<1>1. k = ListTask /\ k.stage = "list" /\ At(k, "expect") /\ Early
  BY DEF Expect, At, LossInv, OneList, Early
<1>2. /\ \A j \in TaskId : /\ j.stage \in {"detail", "normalize"} => state[j] = "none"
                           /\ log[j] = NoMeta /\ seen[j] = NoMeta
      /\ counted = 0
  BY <1>1 DEF Orderly, Fresh
<1>3. /\ UNCHANGED <<state, log, seen, todo, ret, sourceActive, counted, status>>
      /\ listed' = todo[k] /\ meta' = [expected |-> Cardinality(todo[k]), completed |-> 0]
      /\ pc' = [pc EXCEPT ![k] = IF todo[k] = {} THEN "succeed" ELSE "spread"]
  BY DEF Expect, Goto, outside, locals, queue
<1>4. /\ ~Early' /\ (At(k, "spread")' \/ At(k, "succeed")')
      /\ listed' = {} => At(k, "succeed")'
  <2>1. state'[k] = "active" /\ pc'[k] = IF todo[k] = {} THEN "succeed" ELSE "spread"
    BY <1>1, <1>3 DEF At, TypeInv, TypeOK
  <2>2. CASE todo[k] = {}
    BY <1>1, <1>3, <2>1, <2>2 DEF Early, At
  <2>3. CASE todo[k] # {}
    BY <1>1, <1>3, <2>1, <2>3 DEF Early, At
  <2> QED
    BY <2>2, <2>3
<1>5. Orderly'
  <2>1. Unfailed'
    BY <1>1, <1>3 DEF Orderly, Unfailed, TypeInv, TypeOK
  <2>2. Once' /\ Fresh'
    BY <1>3, <1>4 DEF Orderly, Once, Fresh
  <2>3. Unoffered' /\ \A n \in TaskId : Sourced(n)'
    BY <1>2, <1>3 DEF Unoffered, Enqueued, Sourced
  <2> QED
    BY <2>1, <2>2, <2>3 DEF Orderly
<1>6. DetailsCounted' = {} /\ NormalizesCounted' = {}
  BY <1>2, <1>3 DEF DetailsCounted, NormalizesCounted, CountedNormalize, At
<1>7. Tally'
  BY <1>2, <1>3, <1>6, FS_EmptySet DEF Tally
<1>8. Fitting'
  <2>1. todo[k] \in SUBSET Items
    BY DEF TypeInv, TypeOK
  <2>2. Copies' \subseteq {meta', NoMeta}
    BY <1>2, <1>3 DEF Copies
  <2> QED
    BY <1>3, <2>1, <2>2, ItemSets DEF Fitting
<1>9. Verdict' /\ Ended' /\ \A j \in TaskId : Outrun(j)'
  BY <1>1, <1>4, <1>6 DEF Verdict, Ended, Successful, Outrun
<1> QED
  BY <1>5, <1>7, <1>8, <1>9 DEF Reckoned

\* Offering an item: it had no task.
LEMMA SpreadStep ==
  ASSUME TypeInv, LossInv, Orderly, Reckoned, NEW k \in TaskId, Spread(k)
  PROVE  Orderly' /\ Reckoned'
<1>1. k = ListTask /\ k.stage = "list" /\ At(k, "spread")
  BY DEF Spread, At, LossInv, OneList
<1>2. PICK i \in todo[k], d \in TaskId : Offer(k, i, d)
  BY DEF Spread
<1>3. /\ d.stage = "detail" /\ d.item = i /\ state[d] = "none" /\ d # k
      /\ UNCHANGED <<sourceActive, status, meta, ret, log, seen, listed, counted>>
      /\ todo' = [todo EXCEPT ![k] = @ \ {i}]
  BY <1>1, <1>2 DEF Spread, Offer, IsNext, Unused, At, row, outside
<1>4. /\ state'[d] = "waiting" /\ \A j \in TaskId \ {d, k} : state'[j] = state[j]
      /\ \A j \in TaskId \ {k} : pc'[j] = pc[j]
      /\ state'[k] = "done" \/ (state'[k] = "active" /\ pc'[k] = "spread")
  <2>1. CASE todo[k] = {i}
    <3>1. state' = [state EXCEPT ![k] = "done", ![d] = "waiting"]
          /\ pc' = [pc EXCEPT ![k] = "idle"]
      BY <1>2, <2>1 DEF Offer, Goto
    <3> QED
      BY <1>3, <3>1 DEF TypeInv, TypeOK
  <2>2. CASE todo[k] # {i}
    <3>1. state' = [state EXCEPT ![d] = "waiting"] /\ pc' = pc
      BY <1>2, <2>2 DEF Offer
    <3> QED
      BY <1>1, <1>3, <3>1 DEF At, TypeInv, TypeOK
  <2> QED
    BY <2>1, <2>2
<1>5. Plain(k)
  <2>1. ret'[k] # "fail" /\ \A j \in TaskId \ {k} : todo'[j] = todo[j]
    BY <1>3 DEF Orderly, Unfailed, TypeInv, TypeOK
  <2>2. Apart(k)
    BY <1>1, <1>3, <1>4, <2>1 DEF Apart, At, Pending
  <2>3. Moves(k)
    BY <1>1, <1>3, <1>4 DEF Moves, At
  <2> QED
    BY <2>2, <2>3 DEF Plain
<1>6. Unfailed'
  BY <1>3, <1>4 DEF Orderly, Unfailed
<1>7. ~Enqueued("detail", i)
  BY <1>1, <1>2 DEF Orderly, Unoffered
<1>8. Once'
  BY <1>1, <1>3, <1>4, <1>7 DEF Orderly, Once, Enqueued
<1>9. ~Early'
  BY <1>1, <1>4 DEF Early
<1>10. Unoffered'
  <2>1. SUFFICES ASSUME NEW x \in todo'[k], At(k, "spread")', NEW e \in TaskId,
                        e.stage = "detail", e.item = x, state'[e] # "none"
                 PROVE  FALSE
    BY <1>1 DEF Unoffered, Enqueued
  <2>2. x \in todo[k] /\ x # i
    BY <1>3, <2>1 DEF TypeInv, TypeOK
  <2>3. e # d /\ e # k /\ state[e] # "none"
    BY <1>1, <1>3, <1>4, <2>1, <2>2
  <2> QED
    BY <1>1, <2>1, <2>2, <2>3 DEF Orderly, Unoffered, Enqueued
<1>11. ASSUME NEW n \in TaskId, n.stage = "normalize", state'[n] # "none"
       PROVE  \E x \in TaskId : /\ x.stage = "detail" /\ x.item = n.item
                                /\ state'[x] = "done" \/ At(x, "count")'
  <2>1. state[n] # "none"
    BY <1>1, <1>3, <1>4, <1>11
  <2>2. PICK x \in TaskId : /\ x.stage = "detail" /\ x.item = n.item
                            /\ state[x] = "done" \/ At(x, "count")
    BY <1>11, <2>1 DEF Orderly, Sourced
  <2> QED
    BY <1>1, <1>3, <1>4, <2>2 DEF At
<1> QED
  BY <1>5, <1>6, <1>8, <1>9, <1>10, <1>11, ReckonedPlain DEF Orderly, Fresh, Sourced

\* Handing an item to normalize: no other task has.
LEMMA EnqueueNormalizeStep ==
  ASSUME TypeInv, LossInv, Orderly, Reckoned, NEW k \in TaskId, EnqueueNormalize(k)
  PROVE  Orderly' /\ Reckoned'
<1>1. PICK n \in TaskId : /\ IsNext(n, "normalize", k.item)
                          /\ state' = [state EXCEPT ![n] = "waiting"]
  BY DEF EnqueueNormalize
<1>2. /\ k.stage = "detail" /\ At(k, "enqueue") /\ pc' = [pc EXCEPT ![k] = "count"]
      /\ n.stage = "normalize" /\ n.item = k.item /\ state[n] = "none" /\ n # k
      /\ UNCHANGED <<sourceActive, status, meta, ret, log, seen, todo, listed, counted>>
  BY <1>1 DEF EnqueueNormalize, IsNext, Unused, Goto, At, row, outside, locals, history
<1>3. /\ state'[n] = "waiting" /\ \A j \in TaskId \ {n} : state'[j] = state[j]
      /\ \A j \in TaskId \ {k} : pc'[j] = pc[j]
      /\ At(k, "count")'
  BY <1>1, <1>2 DEF At, TypeInv, TypeOK
<1>4. Plain(k)
  <2>1. ret'[k] # "fail"
    BY <1>2 DEF Orderly, Unfailed
  <2>2. Apart(k)
    BY <1>2, <1>3, <2>1 DEF Apart, At, Pending
  <2>3. Moves(k)
    BY <1>2, <1>3 DEF Moves
  <2> QED
    BY <2>2, <2>3 DEF Plain
<1>5. ~Enqueued("normalize", k.item)
  BY <1>2, NotYetNormalized DEF At
<1>6. Unfailed'
  BY <1>2, <1>3 DEF Orderly, Unfailed, At
<1>7. Once'
  BY <1>2, <1>3, <1>5 DEF Orderly, Once, Enqueued
<1>8. Early' <=> Early
  BY <1>4, PlainEarly
<1>9. Fresh' /\ Unoffered'
  <2>1. ~Early
    BY <1>2 DEF Orderly, Fresh, At
  <2>2. \A i \in Items : Enqueued("detail", i)' => Enqueued("detail", i)
    BY <1>2, <1>3 DEF Enqueued
  <2>3. At(ListTask, "spread")' => At(ListTask, "spread")
    BY <1>2, <1>3, ListTaskType DEF At
  <2> QED
    BY <1>2, <1>8, <2>1, <2>2, <2>3, ListTaskType
    DEF Fresh, Orderly, Unoffered, TypeInv, TypeOK
<1>10. ASSUME NEW m \in TaskId, m.stage = "normalize", state'[m] # "none"
       PROVE  \E d \in TaskId : /\ d.stage = "detail" /\ d.item = m.item
                                /\ state'[d] = "done" \/ At(d, "count")'
  <2>1. CASE m = n
    BY <1>2, <1>3, <2>1
  <2>2. CASE m # n
    <3>1. PICK d \in TaskId : /\ d.stage = "detail" /\ d.item = m.item
                              /\ state[d] = "done" \/ At(d, "count")
      BY <1>3, <1>10, <2>2 DEF Orderly, Sourced
    <3> QED
      BY <1>2, <1>3, <3>1 DEF At
  <2> QED
    BY <2>1, <2>2
<1> QED
  BY <1>4, <1>6, <1>7, <1>9, <1>10, ReckonedPlain DEF Orderly, Sourced

\* A counter update of task k, which ends it or takes it to markJobSucceeded, keeps
\* the order of the stages.
LEMMA OrderlyCount ==
  ASSUME TypeInv, LossInv, Orderly,
         NEW k \in TaskId, k.stage \in {"detail", "normalize"}, At(k, "count"),
         sourceActive' = sourceActive,
         \/ state'[k] = "done"
         \/ k.stage = "normalize" /\ At(k, "succeed")',
         \A j \in TaskId \ {k} : state'[j] = state[j] /\ pc'[j] = pc[j] /\ todo'[j] = todo[j],
         \A j \in TaskId : ret'[j] # "fail"
  PROVE  Orderly' /\ ~Early /\ ~Early'
<1>1. k # ListTask
  BY ListTaskType
<1>2. ~Early /\ ~Early'
  <2>1. ~Early
    BY DEF Orderly, Fresh, At
  <2> QED
    BY <1>1, <2>1, ListTaskType DEF Early
<1>3. Unfailed'
  BY DEF Orderly, Unfailed, At
<1>4. Once' /\ Fresh'
  BY <1>2 DEF Orderly, Once, Fresh, At
<1>5. Unoffered'
  <2>1. At(ListTask, "spread")' => At(ListTask, "spread") /\ todo'[ListTask] = todo[ListTask]
    BY <1>1, ListTaskType DEF At
  <2>2. \A i \in Items : Enqueued("detail", i)' => Enqueued("detail", i)
    BY DEF Enqueued, At
  <2> QED
    BY <2>1, <2>2, ListTaskType DEF Orderly, Unoffered, TypeInv, TypeOK
<1>6. ASSUME NEW n \in TaskId, n.stage = "normalize", state'[n] # "none"
      PROVE  \E d \in TaskId : /\ d.stage = "detail" /\ d.item = n.item
                               /\ state'[d] = "done" \/ At(d, "count")'
  <2>1. PICK d \in TaskId : /\ d.stage = "detail" /\ d.item = n.item
                            /\ state[d] = "done" \/ At(d, "count")
    BY <1>6 DEF Orderly, Sourced, At
  <2>2. state'[d] = "done" \/ At(d, "count")'
    BY <2>1 DEF At
  <2> QED
    BY <2>1, <2>2
<1> QED
  BY <1>2, <1>3, <1>4, <1>5, <1>6 DEF Orderly, Sourced

\* It makes every older copy lag, and its own too if it updated one that lagged.
LEMMA CopiesCount ==
  ASSUME TypeInv, CountInv, Reckoned,
         NEW m \in Copies, Copies' \subseteq Copies \union {NoMeta, Counted(m)},
         counted' = counted + 1, listed' = listed
  PROVE  /\ Fitting'
         /\ m.completed < counted => Lagging'
<1>1. \A c \in Copies : c.completed <= counted /\ c.completed \in Nat
  BY DEF CountInv, CompletedNeverOvercounts, Copies, TypeInv, TypeOK, Meta
<1>2. m \in Meta /\ counted \in Nat
  BY CountedSets DEF TypeInv, TypeOK
<1>3. Fitting'
  BY <1>2, CountedAddsOne, CountedSets, ItemSets, NoMetaType DEF Reckoned, Fitting
<1>4. m.completed < counted => Lagging'
  BY <1>1, <1>2, CountedAddsOne, NoMetaType DEF Lagging
<1> QED
  BY <1>3, <1>4

\* The end of a crawl-detail task.
LEMMA DetailCountStep ==
  ASSUME TypeInv, CountInv, LossInv, Orderly, Reckoned,
         NEW k \in TaskId, DetailCount(k)
  PROVE  Orderly' /\ Reckoned'
<1> DEFINE D == DetailsCounted
           N == NormalizesCounted
<1>1. /\ k.stage = "detail" /\ At(k, "count") /\ k.item \in Items
      /\ state' = [state EXCEPT ![k] = "done"] /\ pc' = [pc EXCEPT ![k] = "idle"]
      /\ ret' = [ret EXCEPT ![k] = "idle"]
      /\ log' = [log EXCEPT ![k] = NoMeta] /\ seen' = [seen EXCEPT ![k] = NoMeta]
      /\ todo' = [todo EXCEPT ![k] = {}]
      /\ meta' = Counted(seen[k]) /\ counted' = counted + 1
      /\ UNCHANGED <<sourceActive, status, listed>>
  BY TaskItem DEF DetailCount, Leave, Goto, outside
<1>2. /\ state'[k] = "done" /\ \A j \in TaskId \ {k} : state'[j] = state[j] /\ pc'[j] = pc[j]
      /\ k # ListTask /\ state[k] = "active"
  BY <1>1, ListTaskType DEF At, TypeInv, TypeOK
<1>3. \A j \in TaskId : ret'[j] # "fail"
  BY <1>1 DEF Orderly, Unfailed, TypeInv, TypeOK
<1>4. Orderly' /\ ~Early /\ ~Early'
  <2>1. \A j \in TaskId \ {k} : todo'[j] = todo[j]
    BY <1>1 DEF TypeInv, TypeOK
  <2> QED
    BY <1>1, <1>2, <1>3, <2>1, OrderlyCount
<1>5. D' = D \union {k.item} /\ k.item \notin D /\ N' = N
  <2>1. k.item \notin D
    BY <1>1, <1>2 DEF DetailsCounted, Orderly, Once
  <2>2. D' = D \union {k.item}
    BY <1>1, <1>2 DEF DetailsCounted
  <2>3. \A j \in TaskId : CountedNormalize(j)' <=> CountedNormalize(j)
    BY <1>1, <1>2 DEF CountedNormalize, At
  <2> QED
    BY <2>1, <2>2, <2>3 DEF NormalizesCounted
<1>6. Tally'
  BY <1>1, <1>5, CountedSets, ItemSets DEF Reckoned, Tally
<1>7. /\ Copies' \subseteq Copies \union {NoMeta, Counted(seen[k])}
      /\ seen[k] \in Copies /\ seen[k] \in Meta
  BY <1>1 DEF Copies, TypeInv, TypeOK
<1>8. Fitting' /\ (seen[k].completed < counted => Lagging')
  BY <1>1, <1>7, CopiesCount
<1>9. \A j \in TaskId : seen'[j] \in {seen[j], NoMeta}
  BY <1>1 DEF TypeInv, TypeOK
<1>10. Successful => Successful'
  BY <1>1, <1>2 DEF Successful, At
<1>11. Verdict'
  <2>1. CASE seen[k].completed < counted
    BY <1>8, <2>1 DEF Verdict
  <2>2. CASE ~(seen[k].completed < counted)
    <3>1. ~Lagging /\ k.item \notin N
      BY <1>1, <1>7, <2>2 DEF Lagging, Reckoned, Outrun
    <3>2. D' \intersect N' = D \intersect N
      BY <1>5, <3>1
    <3> QED
      BY <1>1, <1>5, <1>10, <3>1, <3>2 DEF Reckoned, Verdict
  <2> QED
    BY <2>1, <2>2
<1>12. Ended'
  BY <1>1, <1>4, <1>10 DEF Reckoned, Ended
<1>13. ASSUME NEW j \in TaskId PROVE Outrun(j)'
  <2>1. /\ seen[j].completed <= counted /\ seen[j] \in Meta
        /\ counted \in Nat
    BY DEF CountInv, CompletedNeverOvercounts, TypeInv, TypeOK
  <2> QED
    BY <1>1, <1>9, <2>1, NoMetaType DEF Outrun, Meta
<1> QED
  BY <1>4, <1>6, <1>8, <1>11, <1>12, <1>13 DEF Reckoned

\* The counter of a normalize task.
LEMMA NormalizeCountStep ==
  ASSUME TypeInv, CountInv, LossInv, Orderly, Reckoned,
         NEW k \in TaskId, NormalizeCount(k)
  PROVE  Orderly' /\ Reckoned'
<1> DEFINE D == DetailsCounted
           N == NormalizesCounted
<1>1. /\ k.stage = "normalize" /\ At(k, "count") /\ k.item \in Items
      /\ meta' = Counted(seen[k]) /\ counted' = counted + 1
      /\ UNCHANGED <<sourceActive, status, listed>>
  BY TaskItem DEF NormalizeCount, outside
<1>2. /\ \A j \in TaskId \ {k} : /\ state'[j] = state[j] /\ pc'[j] = pc[j]
                                /\ ret'[j] = ret[j] /\ todo'[j] = todo[j]
      /\ \A j \in TaskId : /\ log'[j] \in {log[j], NoMeta} /\ seen'[j] \in {seen[j], NoMeta}
                           /\ ret'[j] # "fail"
      /\ k # ListTask /\ state[k] = "active"
      /\ IF ReachesExpected(seen[k]) THEN At(k, "succeed")' ELSE state'[k] = "done"
  <2>1. CASE ReachesExpected(seen[k])
    <3>1. pc' = [pc EXCEPT ![k] = "succeed"] /\ UNCHANGED <<state, ret, log, seen, todo>>
      BY <2>1 DEF NormalizeCount, Goto, locals
    <3> QED
      BY <1>1, <2>1, <3>1, ListTaskType DEF At, Orderly, Unfailed, TypeInv, TypeOK
  <2>2. CASE ~ReachesExpected(seen[k])
    <3>1. /\ state' = [state EXCEPT ![k] = "done"] /\ pc' = [pc EXCEPT ![k] = "idle"]
          /\ ret' = [ret EXCEPT ![k] = "idle"]
          /\ log' = [log EXCEPT ![k] = NoMeta] /\ seen' = [seen EXCEPT ![k] = NoMeta]
          /\ todo' = [todo EXCEPT ![k] = {}]
      BY <2>2 DEF NormalizeCount, Leave, Goto
    <3> QED
      BY <1>1, <2>2, <3>1, ListTaskType DEF At, Orderly, Unfailed, TypeInv, TypeOK
  <2> QED
    BY <2>1, <2>2
<1>4. Orderly' /\ ~Early /\ ~Early'
  BY <1>1, <1>2, OrderlyCount
<1>5. N' = N \union {k.item} /\ k.item \notin N /\ D' = D
  <2>1. k.item \notin N
    BY <1>1, <1>2 DEF NormalizesCounted, CountedNormalize, Orderly, Once, At
  <2>2. CountedNormalize(k)' /\ \A j \in TaskId \ {k} : CountedNormalize(j)' <=> CountedNormalize(j)
    BY <1>1, <1>2 DEF CountedNormalize, At
  <2>3. ~CountedNormalize(k)
    BY <1>1 DEF CountedNormalize, At
  <2>4. N' = N \union {k.item}
    BY <1>1, <2>2, <2>3 DEF NormalizesCounted
  <2>5. D' = D
    BY <1>1, <1>2 DEF DetailsCounted
  <2> QED
    BY <2>1, <2>4, <2>5
<1>6. Tally'
  BY <1>1, <1>5, CountedSets, ItemSets DEF Reckoned, Tally
<1>7. /\ Copies' \subseteq Copies \union {NoMeta, Counted(seen[k])}
      /\ seen[k] \in Copies /\ seen[k] \in Meta
  BY <1>1, <1>2 DEF Copies, TypeInv, TypeOK
<1>8. Fitting' /\ (seen[k].completed < counted => Lagging')
  BY <1>1, <1>7, CopiesCount
<1>10. Successful => Successful'
  BY <1>1, <1>2 DEF Successful, At
<1>11. Verdict'
  <2>1. CASE seen[k].completed < counted
    BY <1>8, <2>1 DEF Verdict
  <2>2. CASE ReachesExpected(seen[k])
    BY <1>2, <2>2 DEF Verdict, Successful
  <2>3. CASE ~(seen[k].completed < counted) /\ ~ReachesExpected(seen[k])
    <3>1. /\ D' \in SUBSET Items /\ N' \in SUBSET Items /\ listed \in SUBSET Items
          /\ Cardinality(D') \in Nat /\ Cardinality(N') \in Nat
          /\ Cardinality(listed) \in Nat /\ Cardinality(D' \intersect N') \in Nat
          /\ Cardinality(D' \intersect N') <= Cardinality(D')
      <4>1. D' \in SUBSET Items /\ N' \in SUBSET Items /\ listed \in SUBSET Items
        BY <1>1, <1>5, CountedSets
      <4> QED
        BY <4>1, ItemSets
    <3>2. seen[k].completed + 1 < seen[k].expected /\ seen[k].expected <= Cardinality(listed)
      BY <1>7, <2>3 DEF ReachesExpected, Reckoned, Fitting, Meta
    <3>3. counted' < Cardinality(listed)
      BY <1>1, <1>7, <2>3, <3>1, <3>2 DEF Meta, TypeInv, TypeOK
    <3> QED
      BY <1>1, <1>6, <3>1, <3>3 DEF Verdict, Tally
  <2> QED
    BY <2>1, <2>2, <2>3
<1>12. Ended'
  BY <1>1, <1>4, <1>10 DEF Reckoned, Ended
<1>13. ASSUME NEW j \in TaskId PROVE Outrun(j)'
  <2>1. /\ seen[j].completed <= counted /\ seen[j] \in Meta
        /\ counted \in Nat
    BY DEF CountInv, CompletedNeverOvercounts, TypeInv, TypeOK
  <2> QED
    BY <1>1, <1>2, <2>1, NoMetaType DEF Outrun, Meta
<1> QED
  BY <1>4, <1>6, <1>8, <1>11, <1>12, <1>13 DEF Reckoned

\* All other steps without faults are plain, and create no task about an item.
Creates(k) == \A j \in TaskId : state[j] = "none" /\ state'[j] # "none" => j.stage = "category"

LEMMA PlainWork ==
  ASSUME TypeInv, LossInv, Orderly, NEW k \in TaskId, Work(k),
         ~Expect(k), ~Spread(k), ~EnqueueNormalize(k), ~DetailCount(k), ~NormalizeCount(k)
  PROVE  Plain(k) /\ Creates(k) /\ ~At(k, "spread")
<1> USE DEF Plain, Apart, Moves, Creates, Pending, At, Goto, TypeInv, TypeOK
<1>1. /\ ret[k] # "fail" /\ ret[k] \in Returns(k) /\ sourceActive
      /\ state[k] = "active" => pc[k] \notin {"orphan", "fail"}
  BY DEF Orderly, Unfailed
<1>2. CASE Take(k)
  BY <1>1, <1>2 DEF Take, FirstPc, row, outside, locals, history
<1>3. CASE LogRead(k)
  BY <1>1, <1>3 DEF LogRead, row, outside, queue, history
<1>4. CASE LogWrite(k)
  BY <1>1, <1>4 DEF LogWrite, Returns, outside, queue, history
<1>5. CASE LogWriteLast(k)
  BY <1>1, <1>5 DEF LogWriteLast, Returns, Leave, outside, history
<1>6. CASE ListStart(k)
  <2>1. Early
    BY <1>6 DEF ListStart, Early, LossInv, OneList
  <2> QED
    BY <1>1, <1>6, <2>1 DEF ListStart, outside, locals, queue, history
<1>7. CASE ListOpen(k)
  BY <1>1, <1>7 DEF ListOpen, row, outside, locals, queue, history
<1>8. CASE EnqueueCategory(k)
  <2>1. PICK c \in TaskId : c.stage = "category" /\ state[c] = "none"
                              /\ state' = [state EXCEPT ![c] = "waiting"]
    BY <1>8 DEF EnqueueCategory, IsNext, Unused
  <2> QED
    BY <1>1, <1>8, <2>1 DEF EnqueueCategory, CallLog, row, outside, history
<1>9. CASE GetTools(k)
  BY <1>1, <1>9 DEF GetTools, CallLog, row, outside, queue, history
<1>10. CASE CategoryOpen(k)
  BY <1>1, <1>10 DEF CategoryOpen, CallLog, row, outside, queue, history
<1>11. CASE GetCategories(k)
  BY <1>1, <1>11 DEF GetCategories, CallLog, row, outside, queue, history
<1>12. CASE DetailOpen(k)
  BY <1>1, <1>12 DEF DetailOpen, row, outside, locals, queue, history
<1>13. CASE Snapshot(k)
  BY <1>1, <1>13 DEF Snapshot, CallLog, row, outside, queue, history
<1>14. CASE GetDetail(k)
  BY <1>1, <1>14 DEF GetDetail, CallLog, row, outside, queue, history
<1>15. CASE GetDetailNull(k)
  BY <1>1, <1>15 DEF GetDetailNull, row, outside, locals, queue
<1>16. CASE NormalizeOpen(k)
  BY <1>1, <1>16 DEF NormalizeOpen, CallLog, row, outside, queue, history
<1>17. CASE Ingest(k)
  BY <1>1, <1>17 DEF Ingest, row, outside, locals, queue, history
<1>18. CASE IngestNull(k)
  BY <1>1, <1>18 DEF IngestNull, CallLog, row, outside, queue
<1>19. CASE StartAiPipeline(k)
  BY <1>1, <1>19 DEF StartAiPipeline, CallLog, row, outside, queue, history
<1>20. CASE Reread(k)
  BY <1>1, <1>20 DEF Reread, row, outside, queue, history
<1>21. CASE Succeed(k)
  BY <1>1, <1>21 DEF Succeed, outside, locals, queue, history
<1>22. CASE Announce(k)
  BY <1>1, <1>22 DEF Announce, Leave, row, outside, history
<1>23. ~OpenOrphan(k) /\ ~Orphan(k) /\ ~Fail(k)
  BY <1>1 DEF OpenOrphan, Orphan, Fail
<1> QED
  BY <1>2, <1>3, <1>4, <1>5, <1>6, <1>7, <1>8, <1>9, <1>10, <1>11, <1>12, <1>13,
     <1>14, <1>15, <1>16, <1>17, <1>18, <1>19, <1>20, <1>21, <1>22, <1>23
     DEF Work

LEMMA StuckInit == Init => StuckInv
<1> SUFFICES ASSUME Init PROVE Orderly /\ Reckoned
  BY DEF StuckInv
<1>1. /\ ListTask \in TaskId /\ ListTask.stage = "list" /\ state[ListTask] = "waiting" /\ Early
      /\ \A k \in TaskId : /\ k # ListTask => state[k] = "none"
                           /\ state[k] \in {"none", "waiting"}
                           /\ ret[k] = "idle" /\ log[k] = NoMeta /\ seen[k] = NoMeta
  BY ListTaskType DEF Init, Early
<1>2. Orderly
  BY <1>1 DEF Init, Orderly, Unfailed, Once, Fresh, Unoffered, Sourced, At
<1>3. DetailsCounted = {} /\ NormalizesCounted = {}
  BY <1>1 DEF DetailsCounted, NormalizesCounted, CountedNormalize, At
<1>4. Tally
  BY <1>3, FS_EmptySet DEF Init, Tally
<1>5. Fitting
  <2>1. Copies \subseteq {NoMeta}
    BY <1>1 DEF Init, Copies
  <2> QED
    BY <2>1, NoMetaType, FS_EmptySet DEF Init, Fitting
<1> QED
  BY <1>1, <1>2, <1>3, <1>4, <1>5 DEF Reckoned, Verdict, Ended, Outrun

LEMMA StuckStep ==
  TypeInv /\ CountInv /\ LossInv /\ StuckInv /\ [Next]_vars => StuckInv'
<1> SUFFICES ASSUME TypeInv, CountInv, LossInv, StuckInv, [Next]_vars, faults' = 0
             PROVE  Orderly' /\ Reckoned'
  BY DEF StuckInv
<1>1. ASSUME NEW k \in TaskId, Work(k) PROVE Orderly' /\ Reckoned'
  <2>1. faults' = faults
    BY <1>1 DEF Work, Take, LogRead, LogWrite, LogWriteLast, OpenOrphan, Orphan, ListStart,
       ListOpen, EnqueueCategory, GetTools, Expect, Spread, CategoryOpen, GetCategories,
       DetailOpen, Snapshot, GetDetail, GetDetailNull, EnqueueNormalize, DetailCount,
       NormalizeOpen, Ingest, IngestNull, StartAiPipeline, Reread, NormalizeCount,
       Succeed, Announce, Fail
  <2>2. Orderly /\ Reckoned
    BY <2>1 DEF StuckInv
  <2>3. CASE Expect(k)
    BY <2>2, <2>3, ExpectStep
  <2>4. CASE Spread(k)
    BY <2>2, <2>4, SpreadStep
  <2>5. CASE EnqueueNormalize(k)
    BY <2>2, <2>5, EnqueueNormalizeStep
  <2>6. CASE DetailCount(k)
    BY <2>2, <2>6, DetailCountStep
  <2>7. CASE NormalizeCount(k)
    BY <2>2, <2>7, NormalizeCountStep
  <2>8. CASE /\ ~Expect(k) /\ ~Spread(k) /\ ~EnqueueNormalize(k)
             /\ ~DetailCount(k) /\ ~NormalizeCount(k)
    BY <1>1, <2>2, <2>8, PlainWork, OrderlyPlain, ReckonedPlain DEF Creates
  <2> QED
    BY <2>3, <2>4, <2>5, <2>6, <2>7, <2>8
<1>2. ASSUME NEW k \in TaskId, Fault(k) PROVE FALSE
  BY <1>2 DEF Fault, Throw, ThrowUncaught, Crash, TypeInv, TypeOK
<1>3. ~DeleteSource
  BY DEF DeleteSource, TypeInv, TypeOK
<1>4. CASE UNCHANGED vars
  <2>1. Orderly' /\ Early' = Early
    BY <1>4 DEF StuckInv, vars, row, outside, locals, queue, history, Orderly, Unfailed,
       Once,
       Fresh, Unoffered, Sourced, Early, Enqueued, At
  <2>2. Reckoned'
    BY <1>4, <2>1 DEF StuckInv, vars, row, outside, locals, queue, history, Reckoned, Tally,
       Fitting, Verdict, Ended, Outrun, Copies, Lagging, Successful, DetailsCounted,
       NormalizesCounted, CountedNormalize, At
  <2> QED
    BY <2>1, <2>2
<1> QED
  BY <1>1, <1>2, <1>3, <1>4 DEF Next, Rest

LEMMA StuckInvariant == Spec => []StuckInv
<1>1. TypeInv /\ CountInv /\ LossInv /\ StuckInv /\ [Next]_vars => StuckInv'
  BY StuckStep
<1> QED
  BY <1>1, StuckInit, TypeInvariant, CountInvariant, LossInvariant, PTL DEF Spec

\* Without faults a job whose queues have drained is left RUNNING only if a counter
\* update was overwritten, or if more than half of its items never came to normalize.
THEOREM StuckIsExplained == Spec => []StuckOnlyByLostUpdate
<1>1. TypeInv /\ StuckInv => StuckOnlyByLostUpdate
  <2> SUFFICES ASSUME TypeInv, StuckInv, MaxFaults = 0, Settled,
                      status = "RUNNING", ~(meta.completed < counted)
               PROVE  2 * Cardinality(Detailed) < Cardinality(listed)
    BY DEF StuckOnlyByLostUpdate
  <2>1. Orderly /\ Reckoned
    BY DEF StuckInv, TypeInv, TypeOK
  <2>2. \A k \in TaskId : state[k] \in {"none", "done"}
    BY <2>1 DEF Orderly, Unfailed, Settled, Pending, TypeInv, TypeOK, TaskStates
  <2>3. ~Successful /\ ~Early /\ ~Lagging
    BY <2>2, ListTaskType DEF Successful, Early, Lagging, Copies, At
  <2>4. NormalizesCounted = Detailed
    BY <2>2, TaskItem DEF NormalizesCounted, CountedNormalize, Detailed, At
  <2>5. Detailed \subseteq DetailsCounted
    <3>1. SUFFICES ASSUME NEW n \in TaskId, n.stage = "normalize", state[n] # "none"
                   PROVE  n.item \in DetailsCounted
      BY DEF Detailed
    <3>2. PICK d \in TaskId : /\ d.stage = "detail" /\ d.item = n.item
                              /\ state[d] = "done" \/ At(d, "count")
      BY <2>1, <3>1 DEF Orderly, Sourced
    <3>3. state[d] = "done" /\ n.item \in Items
      BY <2>2, <3>1, <3>2, TaskItem DEF At
    <3> QED
      BY <3>2, <3>3 DEF DetailsCounted
  <2>6. /\ Cardinality(Detailed) \in Nat /\ Cardinality(listed) \in Nat
        /\ Cardinality(listed) = 0 => listed = {}
        /\ Detailed = {} => Cardinality(Detailed) = 0
    BY <2>4, CountedSets, ItemSets
  <2>7. CASE Detailed = {}
    BY <2>1, <2>3, <2>6, <2>7 DEF Reckoned, Ended
  <2>8. CASE Detailed # {}
    <3>1. DetailsCounted \intersect NormalizesCounted = Detailed
      BY <2>4, <2>5
    <3>2. Cardinality(Detailed) + Cardinality(Detailed) < Cardinality(listed)
      BY <2>1, <2>3, <2>4, <2>8, <3>1 DEF Reckoned, Verdict
    <3> QED
      BY <2>6, <3>2
  <2> QED
    BY <2>7, <2>8
<1> QED
  BY <1>1, TypeInvariant, StuckInvariant, PTL
=============================================================================
