------------------------------ MODULE CrawlJob ------------------------------
(***************************************************************************)
(* One crawl job of apps/worker: the crawl_jobs row that the crawl-tool,   *)
(* crawl-category, crawl-detail and normalize workers share, and the       *)
(* BullMQ tasks those workers execute concurrently.                        *)
(*                                                                         *)
(* Every handler is an async function, so each await is a step of its own  *)
(* and steps of different handlers interleave.  pc names the await that an *)
(* active task executes next.  appendJobStep reads the row and writes it   *)
(* back in two awaits; it is a subroutine here, with its return point in   *)
(* ret.  The log lines it stores are left out: what matters is that it     *)
(* writes back the whole metadata object it read.                          *)
(*                                                                         *)
(* metadata.expectedDetails and metadata.completedDetails are always read  *)
(* with "?? 0", so an absent field is 0.  itemsCreated, itemsUpdated,      *)
(* startedAt, finishedAt and lastRunAt are not modelled.                   *)
(***************************************************************************)
EXTENDS Naturals, FiniteSets

CONSTANTS
  Items,         \* external ids a source may list
  NoItem,        \* the item of a task that is about no item
  MaxAttempts,   \* attempts of a queue task before BullMQ gives it up
  MaxStalls,     \* stalls of a task that BullMQ tolerates (maxStalledCount)
  MaxCopies,     \* bound: tasks of the same stage about the same item
  MaxFaults      \* bound: rejected awaits, crashes and source deletions

ASSUME ConstantsAssumption ==
  /\ NoItem \notin Items
  /\ IsFiniteSet(Items)
  /\ MaxAttempts \in Nat \ {0}
  /\ MaxStalls \in Nat
  /\ MaxCopies \in Nat \ {0}
  /\ MaxFaults \in Nat

VARIABLES
  status,        \* crawl_jobs.status
  meta,          \* crawl_jobs.metadata
  itemsFound,    \* crawl_jobs.items_found
  sourceActive,  \* the crawl source is not deleted
  tools,         \* items that have a row in the tools table
  piped,         \* items whose AI pipeline was enqueued
  finished,      \* number of CRAWLER_FINISHED events emitted
  state,         \* of each task: where it is in its queue
  pc,            \* of each active task: the await it executes next
  ret,           \* where a running appendJobStep returns to
  log,           \* metadata read by a running appendJobStep
  seen,          \* metadata read by the handler itself
  todo,          \* items returned by getTools and not enqueued yet
  attempt,       \* failed attempts of each task
  stalls,        \* stalls of each task
  faults,        \* faults so far
  \* History of what the handlers did, read by properties only:
  listed,        \* the items behind the last expectedDetails written
  offered,       \* items for which a crawl-detail task was enqueued
  skipped,       \* items the adapter returned null for
  counted        \* executions of a detail or normalize counter update

row     == <<status, meta, itemsFound>>
outside == <<sourceActive, tools, piped, finished>>
locals  == <<ret, log, seen, todo>>
queue   == <<state, attempt, stalls>>
history == <<listed, offered, skipped, counted>>
vars    == <<row, outside, locals, queue, pc, faults, history>>

-----------------------------------------------------------------------------
(* Tasks *)

Meta     == [expected : Nat, completed : Nat]
NoMeta   == [expected |-> 0, completed |-> 0]
Statuses == {"PENDING", "RUNNING", "SUCCEEDED", "FAILED"}

TaskId ==
  [stage : {"list", "category"}, item : {NoItem}, copy : 1..MaxCopies]
    \union [stage : {"detail", "normalize"}, item : Items, copy : 1..MaxCopies]

ListTask == [stage |-> "list", item |-> NoItem, copy |-> 1]

TaskStates ==
  {"none",      \* not enqueued (yet)
   "waiting",   \* in the queue, or delayed until its next attempt
   "active",    \* a worker executes it
   "done",      \* completed normally
   "orphaned",  \* completed early: its source was gone
   "dead"}      \* failed for good

Pending == {"waiting", "active"}

ListPcs      == {"start", "open", "category", "logRead", "logWrite", "getTools",
                 "expect", "spread", "succeed", "announce"}
CategoryPcs  == {"open", "logRead", "logWrite", "getCategories", "finish"}
DetailPcs    == {"open", "snapshot", "logRead", "logWrite", "getDetail",
                 "enqueue", "count"}
NormalizePcs == {"open", "logRead", "logWrite", "ingest", "pipeline", "reread",
                 "count", "succeed", "announce"}
CatchPcs     == {"logRead", "logWrite", "fail"}
Pcs == ListPcs \union CategoryPcs \union DetailPcs \union NormalizePcs
         \union CatchPcs \union {"idle", "orphan"}

\* A handler starts with its first await; only crawl-tool marks the job first.
FirstPc(k) == IF k.stage = "list" THEN "start" ELSE "open"

\* The tasks of a stage about an item that enqueueCrawlJob may create next.
\* Jobs are added without a jobId, so the queue never merges two of them.
Unused(stage, item) ==
  {k \in TaskId : k.stage = stage /\ k.item = item /\ state[k] = "none"}
IsNext(k, stage, item) ==
  /\ k \in Unused(stage, item)
  /\ \A j \in Unused(stage, item) : k.copy <= j.copy

At(k, p) == state[k] = "active" /\ pc[k] = p
Goto(k, p) == pc' = [pc EXCEPT ![k] = p]

\* Enter appendJobStep, to return to p.
CallLog(k, p) ==
  /\ Goto(k, "logRead")
  /\ ret' = [ret EXCEPT ![k] = p]

\* The handler of k is over: its local variables are gone.
Leave(k, s) ==
  /\ state' = [state EXCEPT ![k] = s]
  /\ Goto(k, "idle")
  /\ ret' = [ret EXCEPT ![k] = "idle"]
  /\ log' = [log EXCEPT ![k] = NoMeta]
  /\ seen' = [seen EXCEPT ![k] = NoMeta]
  /\ todo' = [todo EXCEPT ![k] = {}]

-----------------------------------------------------------------------------
(* The job row has been created and crawl-tool enqueued for it. *)

Init ==
  /\ status = "PENDING"
  /\ meta = NoMeta
  /\ itemsFound = 0
  /\ sourceActive = TRUE
  /\ tools = {} /\ piped = {} /\ finished = 0
  /\ state = [k \in TaskId |-> IF k = ListTask THEN "waiting" ELSE "none"]
  /\ pc = [k \in TaskId |-> "idle"]
  /\ ret = [k \in TaskId |-> "idle"]
  /\ log = [k \in TaskId |-> NoMeta]
  /\ seen = [k \in TaskId |-> NoMeta]
  /\ todo = [k \in TaskId |-> {}]
  /\ attempt = [k \in TaskId |-> 0]
  /\ stalls = [k \in TaskId |-> 0]
  /\ faults = 0
  /\ listed = {} /\ offered = {} /\ skipped = {} /\ counted = 0

-----------------------------------------------------------------------------
(* The queue and appendJobStep *)

\* A worker takes the task.
Take(k) ==
  /\ state[k] = "waiting"
  /\ state' = [state EXCEPT ![k] = "active"]
  /\ Goto(k, FirstPc(k))
  /\ UNCHANGED <<row, outside, locals, attempt, stalls, faults, history>>

LogRead(k) ==
  /\ At(k, "logRead")
  /\ log' = [log EXCEPT ![k] = meta]
  /\ Goto(k, "logWrite")
  /\ UNCHANGED <<row, outside, ret, seen, todo, queue, faults, history>>

LogWrite(k) ==
  /\ At(k, "logWrite")
  /\ ret[k] # "finish"
  /\ meta' = log[k]
  /\ log' = [log EXCEPT ![k] = NoMeta]
  /\ Goto(k, ret[k])
  /\ ret' = [ret EXCEPT ![k] = "idle"]
  /\ UNCHANGED <<status, itemsFound, outside, seen, todo, queue, faults, history>>

\* The handler ends with this log line.
LogWriteLast(k) ==
  /\ At(k, "logWrite")
  /\ ret[k] = "finish"
  /\ meta' = log[k]
  /\ Leave(k, "done")
  /\ UNCHANGED <<status, itemsFound, outside, attempt, stalls, faults, history>>

-----------------------------------------------------------------------------
(* What every handler starts with: look up the source.  A deleted source   *)
(* fails the job and completes the task, so it is not retried.             *)

OpenOrphan(k) ==
  /\ At(k, "open")
  /\ ~sourceActive
  /\ Goto(k, "orphan")
  /\ UNCHANGED <<row, outside, locals, queue, faults, history>>

Orphan(k) ==
  /\ At(k, "orphan")
  /\ status' = "FAILED"
  /\ Leave(k, "orphaned")
  /\ UNCHANGED <<meta, itemsFound, outside, attempt, stalls, faults, history>>

-----------------------------------------------------------------------------
(* crawl-tool *)

\* markJobRunning, outside the try block.
ListStart(k) ==
  /\ k.stage = "list" /\ At(k, "start")
  /\ status' = "RUNNING"
  /\ Goto(k, "open")
  /\ UNCHANGED <<meta, itemsFound, outside, locals, queue, faults, history>>

ListOpen(k) ==
  /\ k.stage = "list" /\ At(k, "open")
  /\ sourceActive
  /\ Goto(k, "category")
  /\ UNCHANGED <<row, outside, locals, queue, faults, history>>

EnqueueCategory(k) ==
  /\ k.stage = "list" /\ At(k, "category")
  /\ \E c \in TaskId :
       /\ IsNext(c, "category", NoItem)
       /\ state' = [state EXCEPT ![c] = "waiting"]
  /\ CallLog(k, "getTools")
  /\ UNCHANGED <<row, outside, log, seen, todo, attempt, stalls, faults, history>>

\* adapter.getTools answers, possibly with another list than last time.
GetTools(k) ==
  /\ k.stage = "list" /\ At(k, "getTools")
  /\ \E found \in SUBSET Items : todo' = [todo EXCEPT ![k] = found]
  /\ CallLog(k, "expect")
  /\ UNCHANGED <<row, outside, log, seen, queue, faults, history>>

\* The metadata object is replaced, not merged.
Expect(k) ==
  /\ k.stage = "list" /\ At(k, "expect")
  /\ meta' = [expected |-> Cardinality(todo[k]), completed |-> 0]
  /\ listed' = todo[k]
  /\ Goto(k, IF todo[k] = {} THEN "succeed" ELSE "spread")
  /\ UNCHANGED <<status, itemsFound, outside, locals, queue, faults,
                 offered, skipped, counted>>

\* One turn of the loop that enqueues a crawl-detail task per item; the last
\* turn ends the handler.
Offer(k, i, d) ==
  /\ IsNext(d, "detail", i)
  /\ offered' = offered \union {i}
  /\ todo' = [todo EXCEPT ![k] = @ \ {i}]
  /\ IF todo[k] = {i}
     THEN /\ state' = [state EXCEPT ![k] = "done", ![d] = "waiting"]
          /\ Goto(k, "idle")
     ELSE /\ state' = [state EXCEPT ![d] = "waiting"]
          /\ UNCHANGED pc

Spread(k) ==
  /\ k.stage = "list" /\ At(k, "spread")
  /\ \E i \in todo[k], d \in TaskId : Offer(k, i, d)
  /\ UNCHANGED <<row, outside, ret, log, seen, attempt, stalls, faults,
                 listed, skipped, counted>>

-----------------------------------------------------------------------------
(* crawl-category *)

CategoryOpen(k) ==
  /\ k.stage = "category" /\ At(k, "open")
  /\ sourceActive
  /\ CallLog(k, "getCategories")
  /\ UNCHANGED <<row, outside, log, seen, todo, queue, faults, history>>

\* adapter.getCategories and persistCrawlCategories; the rows of categories
\* are not modelled.
GetCategories(k) ==
  /\ k.stage = "category" /\ At(k, "getCategories")
  /\ CallLog(k, "finish")
  /\ UNCHANGED <<row, outside, log, seen, todo, queue, faults, history>>

-----------------------------------------------------------------------------
(* crawl-detail *)

DetailOpen(k) ==
  /\ k.stage = "detail" /\ At(k, "open")
  /\ sourceActive
  /\ Goto(k, "snapshot")
  /\ UNCHANGED <<row, outside, locals, queue, faults, history>>

\* The job's metadata is read here and written back by DetailCount.
Snapshot(k) ==
  /\ k.stage = "detail" /\ At(k, "snapshot")
  /\ seen' = [seen EXCEPT ![k] = meta]
  /\ CallLog(k, "getDetail")
  /\ UNCHANGED <<row, outside, log, todo, queue, faults, history>>

GetDetail(k) ==
  /\ k.stage = "detail" /\ At(k, "getDetail")
  /\ CallLog(k, "enqueue")
  /\ UNCHANGED <<row, outside, log, seen, todo, queue, faults, history>>

\* The adapter has no detail for the item: nothing is enqueued.
GetDetailNull(k) ==
  /\ k.stage = "detail" /\ At(k, "getDetail")
  /\ skipped' = skipped \union {k.item}
  /\ Goto(k, "count")
  /\ UNCHANGED <<row, outside, locals, queue, faults, listed, offered, counted>>

\* Enqueue normalize; crawl-image, which only logs, is left out.
EnqueueNormalize(k) ==
  /\ k.stage = "detail" /\ At(k, "enqueue")
  /\ \E n \in TaskId :
       /\ IsNext(n, "normalize", k.item)
       /\ state' = [state EXCEPT ![n] = "waiting"]
  /\ Goto(k, "count")
  /\ UNCHANGED <<row, outside, locals, attempt, stalls, faults, history>>

\* One more finished stage of an item.  (Mutants of it: the counter moves by
\* two; the other fields of the metadata are not spread into the new object.)
CountedTwice(m) == [m EXCEPT !.completed = @ + 2]
CountedAlone(m) == [completed |-> m.completed + 1]
Counted(m) == [m EXCEPT !.completed = @ + 1]

\* Writes back what Snapshot read, however old it is.
DetailCount(k) ==
  /\ k.stage = "detail" /\ At(k, "count")
  /\ meta' = Counted(seen[k])
  /\ counted' = counted + 1
  /\ Leave(k, "done")
  /\ UNCHANGED <<status, itemsFound, outside, attempt, stalls, faults,
                 listed, offered, skipped>>

-----------------------------------------------------------------------------
(* normalize *)

NormalizeOpen(k) ==
  /\ k.stage = "normalize" /\ At(k, "open")
  /\ sourceActive
  /\ CallLog(k, "ingest")
  /\ UNCHANGED <<row, outside, log, seen, todo, queue, faults, history>>

\* Mutant of Ingest: the handler goes on without the tool.
IngestForgotten(k) ==
  /\ k.stage = "normalize" /\ At(k, "ingest")
  /\ Goto(k, "pipeline")
  /\ UNCHANGED <<row, outside, locals, queue, faults, history>>

\* ingestDetailReturningToolId creates or updates the tool and opens a
\* workflow run, whose failure is swallowed.
Ingest(k) ==
  /\ k.stage = "normalize" /\ At(k, "ingest")
  /\ tools' = tools \union {k.item}
  /\ Goto(k, "pipeline")
  /\ UNCHANGED <<row, sourceActive, piped, finished, locals, queue, faults, history>>

\* adapter.normalize refuses the detail.
IngestNull(k) ==
  /\ k.stage = "normalize" /\ At(k, "ingest")
  /\ skipped' = skipped \union {k.item}
  /\ CallLog(k, "reread")
  /\ UNCHANGED <<row, outside, log, seen, todo, queue, faults,
                 listed, offered, counted>>

\* Mutant of StartAiPipeline: the enqueue is forgotten.
ForgetAiPipeline(k) ==
  /\ k.stage = "normalize" /\ At(k, "pipeline")
  /\ CallLog(k, "reread")
  /\ UNCHANGED <<row, outside, log, seen, todo, queue, faults, history>>

StartAiPipeline(k) ==
  /\ k.stage = "normalize" /\ At(k, "pipeline")
  /\ piped' = piped \union {k.item}
  /\ CallLog(k, "reread")
  /\ UNCHANGED <<row, sourceActive, tools, finished, log, seen, todo, queue,
                 faults, history>>

Reread(k) ==
  /\ k.stage = "normalize" /\ At(k, "reread")
  /\ seen' = [seen EXCEPT ![k] = meta]
  /\ Goto(k, "count")
  /\ UNCHANGED <<row, outside, ret, log, todo, queue, faults, history>>

\* Mutants of ReachesExpected: an off-by-one, and a test for equality.
ReachesExpectedEarly(m) == m.completed + 2 >= m.expected
HitsExpected(m)         == m.completed + 1 = m.expected
ReachesExpected(m) == m.completed + 1 >= m.expected

\* itemsFound is incremented by the database; metadata is written back whole.
NormalizeCount(k) ==
  /\ k.stage = "normalize" /\ At(k, "count")
  /\ meta' = Counted(seen[k])
  /\ itemsFound' = itemsFound + 1
  /\ counted' = counted + 1
  /\ IF ReachesExpected(seen[k])
     THEN Goto(k, "succeed") /\ UNCHANGED <<state, locals>>
     ELSE Leave(k, "done")
  /\ UNCHANGED <<status, outside, attempt, stalls, faults, listed, offered, skipped>>

-----------------------------------------------------------------------------
(* markJobSucceeded, called by crawl-tool and by normalize *)

\* The transaction: no look at the current status.
Succeed(k) ==
  /\ At(k, "succeed")
  /\ status' = "SUCCEEDED"
  /\ itemsFound' = seen[k].expected
  /\ Goto(k, "announce")
  /\ UNCHANGED <<meta, outside, locals, queue, faults, history>>

\* Plugin hooks and the CRAWLER_FINISHED event, still inside the try block.
Announce(k) ==
  /\ At(k, "announce")
  /\ finished' = finished + 1
  /\ Leave(k, "done")
  /\ UNCHANGED <<row, sourceActive, tools, piped, attempt, stalls, faults, history>>

-----------------------------------------------------------------------------
(* Faults: a rejected await, a crashed worker, a source deleted in the     *)
(* database.  A fault at an await covers the loss of the answer of the     *)
(* await before it.  The step of a handler's last await also completes the *)
(* task, so a fault between these two is not modelled.                     *)

\* BullMQ retries a rejected task or gives it up.  (AfterSwallowed is a mutant:
\* the catch block does not rethrow.)
AfterSwallowed(k) == "done"
AfterRejection(k) == IF attempt[k] + 1 < MaxAttempts THEN "waiting" ELSE "dead"

Requeue(k) ==
  /\ attempt' = [attempt EXCEPT ![k] = @ + 1]
  /\ Leave(k, AfterRejection(k))
  /\ UNCHANGED stalls

InTry(k) == pc[k] \notin {"start", "fail"} /\ ret[k] # "fail"

\* An await inside the try block rejects or times out: log it, ...
Throw(k) ==
  /\ state[k] = "active" /\ InTry(k)
  /\ faults < MaxFaults
  /\ faults' = faults + 1
  /\ CallLog(k, "fail")
  /\ log' = [log EXCEPT ![k] = NoMeta]
  /\ UNCHANGED <<row, outside, seen, todo, queue, history>>

\* ... mark the job failed and rethrow.
Fail(k) ==
  /\ At(k, "fail")
  /\ status' = "FAILED"
  /\ Requeue(k)
  /\ UNCHANGED <<meta, itemsFound, outside, faults, history>>

\* An await outside the try block, or in the catch block, rejects: the task
\* fails without a mark on the job.
ThrowUncaught(k) ==
  /\ state[k] = "active" /\ ~InTry(k)
  /\ faults < MaxFaults
  /\ faults' = faults + 1
  /\ Requeue(k)
  /\ UNCHANGED <<row, outside, history>>

\* The worker process dies: BullMQ finds the task stalled and hands it out
\* again, MaxStalls times.  This costs no attempt.
Crash(k) ==
  /\ state[k] = "active"
  /\ faults < MaxFaults
  /\ faults' = faults + 1
  /\ stalls' = [stalls EXCEPT ![k] = @ + 1]
  /\ Leave(k, IF stalls[k] < MaxStalls THEN "waiting" ELSE "dead")
  /\ UNCHANGED <<row, outside, attempt, history>>

\* No operation of the API deletes a source, but every handler expects it.
DeleteSource ==
  /\ sourceActive
  /\ faults < MaxFaults
  /\ faults' = faults + 1
  /\ sourceActive' = FALSE
  /\ UNCHANGED <<row, tools, piped, finished, locals, queue, pc, history>>

-----------------------------------------------------------------------------
Settled == \A k \in TaskId : state[k] \notin Pending

\* The queues have drained; nothing more happens to this job.
Rest == Settled /\ UNCHANGED vars

Work(k) ==
  \/ Take(k) \/ LogRead(k) \/ LogWrite(k) \/ LogWriteLast(k)
  \/ OpenOrphan(k) \/ Orphan(k)
  \/ ListStart(k) \/ ListOpen(k) \/ EnqueueCategory(k)
  \/ GetTools(k) \/ Expect(k) \/ Spread(k)
  \/ CategoryOpen(k) \/ GetCategories(k)
  \/ DetailOpen(k) \/ Snapshot(k) \/ GetDetail(k) \/ GetDetailNull(k)
  \/ EnqueueNormalize(k) \/ DetailCount(k)
  \/ NormalizeOpen(k) \/ Ingest(k) \/ IngestNull(k) \/ StartAiPipeline(k)
  \/ Reread(k) \/ NormalizeCount(k)
  \/ Succeed(k) \/ Announce(k) \/ Fail(k)

Fault(k) == Throw(k) \/ ThrowUncaught(k) \/ Crash(k)

Next == (\E k \in TaskId : Work(k) \/ Fault(k)) \/ DeleteSource \/ Rest

Spec == Init /\ [][Next]_vars

\* BullMQ workers poll their queues forever, a retry's backoff expires, and an
\* await that does not reject resolves; faults need not happen.
FairSpec == Spec /\ \A k \in TaskId : WF_vars(Work(k))

-----------------------------------------------------------------------------
(* Properties *)

\* The type invariant: the row, the tasks and the local variables of the
\* handlers stay in their types.
TypeOK ==
  /\ status \in Statuses
  /\ meta \in Meta
  /\ itemsFound \in Nat
  /\ sourceActive \in BOOLEAN
  /\ tools \subseteq Items
  /\ piped \subseteq Items
  /\ finished \in Nat
  /\ state \in [TaskId -> TaskStates]
  /\ pc \in [TaskId -> Pcs]
  /\ ret \in [TaskId -> Pcs]
  /\ log \in [TaskId -> Meta]
  /\ seen \in [TaskId -> Meta]
  /\ todo \in [TaskId -> SUBSET Items]
  /\ attempt \in [TaskId -> 0..MaxAttempts]
  /\ stalls \in [TaskId -> 0..(MaxStalls + 1)]
  /\ faults \in 0..MaxFaults
  /\ listed \subseteq Items
  /\ offered \subseteq Items
  /\ skipped \subseteq Items
  /\ counted \in Nat

\* No handler's copy of the metadata, and so never the row itself, claims more
\* finished stages than were counted, in spite of the stale snapshots that
\* crawl-detail and appendJobStep write back over each other.
CompletedNeverOvercounts ==
  /\ meta.completed <= counted
  /\ \A k \in TaskId : log[k].completed <= counted /\ seen[k].completed <= counted

\* itemsFound, which markJobSucceeded overwrites with the number expected, never
\* exceeds the detail and normalize executions that really finished: a job may
\* report success early, but not before that many of them.
FoundBacked == itemsFound <= counted

Unfinished == Pending \union {"dead", "orphaned"}

\* What became of an item: the AI pipeline has it, an adapter refused it, or a
\* task about it is still to be done, was given up or lost its source.
Accounted(i) ==
  \/ i \in piped \union skipped
  \/ \E k \in TaskId : k.item = i /\ state[k] \in Unfinished

\* No listed item is silently lost, whatever fails in whatever handler: it is
\* accounted for, or the crawl-tool task that listed it is itself unfinished.
NothingLost ==
  \A i \in listed : Accounted(i) \/ state[ListTask] \in Unfinished

\* The items that were handed to normalize, and those about which a task was
\* given up, as module ItemJourney sees them.
Detailed == {i \in Items : \E k \in TaskId :
               k.stage = "normalize" /\ k.item = i /\ state[k] # "none"}
GivenUp == {i \in Items : \E k \in TaskId :
              k.item = i /\ state[k] \in {"dead", "orphaned"}}

\* A fault-free job that drained and is still RUNNING lost a counter update to a
\* stale snapshot, or fewer than half of its items were handed to normalize: the
\* adapter returned null for the others, and their crawl-detail handlers, which
\* count but never mark the job, were the last to finish.
StuckOnlyByLostUpdate ==
  (MaxFaults = 0 /\ Settled /\ status = "RUNNING") =>
    \/ meta.completed < counted
    \/ 2 * Cardinality(Detailed) < Cardinality(listed)

Journey == INSTANCE ItemJourney
             WITH detailed <- Detailed, ingested <- tools, refused <- skipped,
                  givenUp <- GivenUp

\* The handlers implement the journey of an item: no stage is skipped or taken
\* back, whatever is retried, crashes or runs twice.
JourneyKept == Journey!JourneySpec

\* Every item handed to crawl-detail is eventually in the AI pipeline, refused,
\* or visibly given up.
ItemsResolve == Journey!Settles

\* What docs/01-architecture/Sequence/Crawler.md says: the job is completed
\* after the loop over the drafts, so a job that succeeded has ingested every
\* item it listed, those its adapter refused aside.
SucceededMeansIngested ==
  status = "SUCCEEDED" => listed \subseteq (tools \union skipped)

\* ... and a running job gets there: it is completed, or failed.
JobFinishes == (status = "RUNNING") ~> (status \in {"SUCCEEDED", "FAILED"})
=============================================================================
