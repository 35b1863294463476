----------------------------- MODULE AiPipeline -----------------------------
(***************************************************************************)
(* The AI content pipeline of one tool: the seven stage workers of         *)
(* apps/worker/src/ai-pipeline.ts and the rows they share.                 *)
(*                                                                         *)
(* A run is one call of startAiPipeline.  Its queue tasks carry the run    *)
(* and the quality round (payload.attempt).  Runs of the same tool are not *)
(* kept apart: all of them read and write the one metadata object of the   *)
(* tool, each time as a whole.  That object holds the artifacts of the     *)
(* stages (metadata.aiPipeline) and, for some stages, also their applied   *)
(* content (metadata.aiFeatures, metadata.geo).                            *)
(*                                                                         *)
(* As in CrawlJob every await is a step, and pc names the next one.  The   *)
(* text of an artifact is abstracted to the run and round that wrote it.   *)
(* A stage that is executed again writes the same artifact and a second    *)
(* revision like the first, so revs keeps the set of their statuses.       *)
(***************************************************************************)
EXTENDS Naturals

CONSTANTS
  Runs,          \* calls of startAiPipeline for this tool
  NoRun,         \* no run: the artifact is absent
  Generators,    \* number of generating stages; the code has five
  InMetadata,    \* the generating stages applied to tool.metadata, as FEATURE and GEO
  MaxRounds,     \* MAX_QUALITY_RETRIES
  AutoPublish,   \* AI_PIPELINE_AUTO_PUBLISH
  MaxAttempts,   \* attempts of a queue task before BullMQ gives it up
  MaxStalls,     \* stalls of a task that BullMQ tolerates
  MaxCopies,     \* bound: tasks of the same run, round and stage
  MaxFaults,     \* bound: rejected awaits, crashes and deletions of the tool
  MaxRecrawls    \* bound: crawls that update the tool

ASSUME PipelineAssumption ==
  /\ NoRun \notin Runs
  /\ Generators \in Nat \ {0}
  /\ InMetadata \subseteq 2..Generators
  /\ MaxRounds \in Nat \ {0}
  /\ AutoPublish \in BOOLEAN
  /\ MaxAttempts \in Nat \ {0}
  /\ MaxStalls \in Nat
  /\ MaxCopies \in Nat \ {0}
  /\ MaxFaults \in Nat
  /\ MaxRecrawls \in Nat

VARIABLES
  toolStatus,    \* tools.status
  deleted,       \* tools.deleted_at is set
  meta,          \* tools.metadata
  column,        \* content applied to columns of tools, faqs, seo_metadata
  revs,          \* statuses of the content_revisions created by each task
  abandoned,     \* ai_generation_tasks left RUNNING by an execution that ended
  state,         \* of each task: where it is in its queue
  pc,            \* of each active task: the await it executes next
  taskRow,       \* of each active task: its row in ai_generation_tasks
  snap,          \* of each active task: the metadata it read
  verdict,       \* of each active QUALITY task: quality.passed
  attempt,       \* failed attempts of each task
  stalls,        \* stalls of each task
  faults,        \* faults so far
  recrawls,      \* crawls that updated the tool so far
  \* History of what the handlers did, read by properties only:
  passed,        \* the rounds of runs whose quality passed
  doubled        \* an execution failed after it had enqueued the next stage

tool    == <<toolStatus, deleted, meta, column>>
queue   == <<state, attempt, stalls>>
locals  == <<taskRow, snap, verdict>>
budget  == <<faults, recrawls>>
history == <<passed, doubled>>
vars    == <<tool, revs, abandoned, queue, pc, locals, budget, history>>

-----------------------------------------------------------------------------
(* Stages, artifacts and tasks *)

\* AI_PIPELINE_STAGES by position: SUMMARY, FEATURE, FAQ, SEO, GEO, QUALITY, PUBLISH.
SUMMARY    == 1
Generating == 1..Generators
QUALITY    == Generators + 1
PUBLISH    == Generators + 2
Stages     == 1..PUBLISH
Rounds     == 0..(MaxRounds - 1)

\* Only an editor's version of a text is edited (module AiReview).
Artifact == [run : Runs, round : Rounds, edited : BOOLEAN]
None     == [run |-> NoRun, round |-> 0, edited |-> FALSE]

\* The summary that a crawl which updates the tool brings along.  What the tool
\* was created with, before the first run, counts as None.
CrawlText == [run |-> NoRun, round |-> 0, edited |-> TRUE]

Content  == [Generating -> Artifact \union {None}]
Columns  == [Generating -> Artifact \union {None, CrawlText}]
Metadata == [pipeline : Content, applied : Content]
Blank    == [s \in Generating |-> None]
NoMeta   == [pipeline |-> Blank, applied |-> Blank]

TaskId == [run : Runs, round : Rounds, stage : Stages, copy : 1..MaxCopies]
Own(k) == [run |-> k.run, round |-> k.round, edited |-> FALSE]

ToolStatuses == {"DRAFT", "PUBLISHED", "ARCHIVED"}
RevStatuses  == {"PENDING", "APPROVED", "REJECTED"}
TaskStates   == {"none", "waiting", "active", "done", "dead"}
Pending      == {"waiting", "active"}
Rows         == {"none", "RUNNING", "SUCCEEDED", "FAILED"}
Pcs == {"idle", "create", "read", "apply", "revise", "readMeta", "writeMeta",
        "finish", "next", "fail"}

At(k, p) == state[k] = "active" /\ pc[k] = p
Goto(k, p) == pc' = [pc EXCEPT ![k] = p]

\* What a visitor of the tool sees of stage s.
Shown(s) == IF s \in InMetadata THEN meta.applied[s] ELSE column[s]

\* k is the task that adding a job to the queue of a stage creates.  Jobs have
\* no jobId, so the queue never merges two of them.
Unused(run, round, stage) ==
  {k \in TaskId : k.run = run /\ k.round = round /\ k.stage = stage
                  /\ state[k] = "none"}
IsNext(k, run, round, stage) ==
  /\ k \in Unused(run, round, stage)
  /\ \A j \in Unused(run, round, stage) : k.copy <= j.copy

\* The execution of k ends.  A row that is still RUNNING stays so for ever.
Leave(k) ==
  /\ Goto(k, "idle")
  /\ abandoned' = abandoned + (IF taskRow[k] = "RUNNING" THEN 1 ELSE 0)
  /\ taskRow' = [taskRow EXCEPT ![k] = "none"]
  /\ snap' = [snap EXCEPT ![k] = NoMeta]
  /\ verdict' = [verdict EXCEPT ![k] = FALSE]

Init ==
  /\ toolStatus = "DRAFT" /\ deleted = FALSE
  /\ meta = NoMeta /\ column = Blank
  /\ revs = [k \in TaskId |-> {}]
  /\ abandoned = 0
  /\ state = [k \in TaskId |-> "none"]
  /\ pc = [k \in TaskId |-> "idle"]
  /\ taskRow = [k \in TaskId |-> "none"]
  /\ snap = [k \in TaskId |-> NoMeta]
  /\ verdict = [k \in TaskId |-> FALSE]
  /\ attempt = [k \in TaskId |-> 0]
  /\ stalls = [k \in TaskId |-> 0]
  /\ faults = 0 /\ recrawls = 0
  /\ passed = {} /\ doubled = FALSE

-----------------------------------------------------------------------------
(* Starting a run *)

\* startAiPipeline, called by normalize, by editors and by the refresh jobs; they
\* look the tool up before, and it may be deleted meanwhile.
Started(r) == \E k \in TaskId : k.run = r /\ state[k] # "none"

StartAiPipeline(r) ==
  /\ ~Started(r)
  /\ \E k \in TaskId :
       /\ IsNext(k, r, 0, SUMMARY)
       /\ state' = [state EXCEPT ![k] = "waiting"]
  /\ UNCHANGED <<tool, revs, abandoned, attempt, stalls, pc, locals, budget, history>>

\* updateTool of the crawler replaces the whole metadata object and, if the page
\* has a summary, the column that SUMMARY is applied to.  (The name and the
\* description, which it replaces as well, are no stage's content.)
Recrawled == [column EXCEPT ![SUMMARY] = CrawlText]

Recrawl ==
  /\ ~deleted
  /\ recrawls < MaxRecrawls
  /\ recrawls' = recrawls + 1
  /\ meta' = NoMeta
  /\ column' \in {column, Recrawled}
  /\ UNCHANGED <<toolStatus, deleted, revs, abandoned, queue, pc, locals,
                 faults, history>>

-----------------------------------------------------------------------------
(* processStage *)

\* A worker takes the task, and loadToolContext finds the tool, ...
Take(k) ==
  /\ state[k] = "waiting"
  /\ ~deleted
  /\ state' = [state EXCEPT ![k] = "active"]
  /\ Goto(k, "create")
  /\ UNCHANGED <<tool, revs, abandoned, attempt, stalls, locals, budget, history>>

\* ... or does not: the stage completes at once and the run just ends.
TakeDeleted(k) ==
  /\ state[k] = "waiting"
  /\ deleted
  /\ state' = [state EXCEPT ![k] = "done"]
  /\ UNCHANGED <<tool, revs, abandoned, attempt, stalls, pc, locals, budget, history>>

CreateAiTask(k) ==
  /\ At(k, "create")
  /\ taskRow' = [taskRow EXCEPT ![k] = "RUNNING"]
  /\ Goto(k, IF k.stage \in Generating THEN "revise" ELSE "read")
  /\ UNCHANGED <<tool, revs, abandoned, queue, snap, verdict, budget, history>>

\* QUALITY and PUBLISH read the artifacts first.
\* scoreQuality cannot reach the threshold without the summary's text; what it
\* makes of a text is left open.
CanPass(m) == m.pipeline[SUMMARY] # None

ReadQuality(k) ==
  /\ k.stage = QUALITY /\ At(k, "read")
  /\ \E ok \in BOOLEAN :
       /\ ok => CanPass(meta)
       /\ verdict' = [verdict EXCEPT ![k] = ok]
       /\ passed' = IF ok THEN passed \union {Own(k)} ELSE passed
  /\ Goto(k, "revise")
  /\ UNCHANGED <<tool, revs, abandoned, queue, taskRow, snap, budget, doubled>>

ReadPublish(k) ==
  /\ k.stage = PUBLISH /\ At(k, "read")
  /\ snap' = [snap EXCEPT ![k] = meta]
  /\ Goto(k, IF AutoPublish THEN "apply" ELSE "revise")
  /\ UNCHANGED <<tool, revs, abandoned, queue, taskRow, verdict, budget, history>>

\* The publish transaction: apply the artifacts that were read, publish the
\* tool, and approve every pending revision of the tool.
ApproveAll(rs) == {IF s = "PENDING" THEN "APPROVED" ELSE s : s \in rs}

\* The content c with the artifacts a applied to the stages in S.
Overlay(c, a, S) ==
  [s \in Generating |-> IF s \in S /\ a[s] # None THEN a[s] ELSE c[s]]

\* (ApprovedOwnRun and ApprovedOwnRound are mutants of Approved.)
ApprovedOwnRun(k) ==
  [j \in TaskId |-> IF j.run = k.run THEN ApproveAll(revs[j]) ELSE revs[j]]
ApprovedOwnRound(k) ==
  [j \in TaskId |-> IF Own(j) = Own(k) THEN ApproveAll(revs[j]) ELSE revs[j]]
Approved(k) == [j \in TaskId |-> ApproveAll(revs[j])]

ApplyPipelineArtifacts(k) ==
  /\ At(k, "apply")
  /\ toolStatus' = "PUBLISHED"
  /\ meta' = [meta EXCEPT !.applied = Overlay(@, snap[k].pipeline, InMetadata)]
  /\ column' = Overlay(column, snap[k].pipeline, Generating \ InMetadata)
  /\ revs' = Approved(k)
  /\ Goto(k, "revise")
  /\ UNCHANGED <<deleted, abandoned, queue, locals, budget, history>>

\* Where a handler goes after saveRevision, updatePipelineMetadata and
\* finishAiTask.  (AfterReviseUnfinished is a mutant: QUALITY's row is forgotten.)
AfterReviseUnfinished(k) ==
  IF k.stage # PUBLISH \/ ~AutoPublish THEN "readMeta" ELSE "finish"
AfterRevise(k) ==
  IF k.stage \in Generating \/ (k.stage = PUBLISH /\ ~AutoPublish)
  THEN "readMeta" ELSE "finish"
AfterWrite(k)  == IF k.stage = QUALITY THEN "next" ELSE "finish"
AfterFinish(k) == IF k.stage = QUALITY THEN "readMeta" ELSE "next"

\* For a generating stage this includes the calls of the language model.
SaveRevision(k) ==
  /\ At(k, "revise")
  /\ revs' = [revs EXCEPT ![k] = @ \union
       {IF k.stage = PUBLISH /\ AutoPublish THEN "APPROVED" ELSE "PENDING"}]
  /\ Goto(k, AfterRevise(k))
  /\ UNCHANGED <<tool, abandoned, queue, locals, budget, history>>

\* updatePipelineMetadata: read the metadata object, ...
ReadMeta(k) ==
  /\ At(k, "readMeta")
  /\ snap' = [snap EXCEPT ![k] = meta]
  /\ Goto(k, "writeMeta")
  /\ UNCHANGED <<tool, revs, abandoned, queue, taskRow, verdict, budget, history>>

\* ... and write it back whole, with the artifact of this stage added.
\* (Mutants of Written: the artifact is labelled with the next round; the old
\* object is not spread.)
WrittenNextRound(k) ==
  IF k.stage \in Generating
  THEN [snap[k] EXCEPT !.pipeline[k.stage] = [Own(k) EXCEPT !.round = @ + 1]]
  ELSE snap[k]
WrittenAlone(k) ==
  IF k.stage \in Generating
  THEN [snap[k] EXCEPT !.pipeline = [Blank EXCEPT ![k.stage] = Own(k)]]
  ELSE snap[k]
Written(k) ==
  IF k.stage \in Generating
  THEN [snap[k] EXCEPT !.pipeline[k.stage] = Own(k)]
  ELSE snap[k]

WriteMeta(k) ==
  /\ At(k, "writeMeta")
  /\ meta' = Written(k)
  /\ Goto(k, AfterWrite(k))
  /\ UNCHANGED <<toolStatus, deleted, column, revs, abandoned, queue, locals,
                 budget, history>>

FinishAiTask(k) ==
  /\ At(k, "finish")
  /\ taskRow' = [taskRow EXCEPT ![k] = "SUCCEEDED"]
  /\ Goto(k, AfterFinish(k))
  /\ UNCHANGED <<tool, revs, abandoned, queue, snap, verdict, budget, history>>

\* Quality failed, and there is a round left: back to SUMMARY.  (Mutant: one
\* round too few.)
RestartsOnceLess(k) == ~verdict[k] /\ k.round + 2 < MaxRounds
Restarts(k) == ~verdict[k] /\ k.round + 1 < MaxRounds

\* The job that the handler adds at its end: what enqueueNextStage adds, or the
\* "summary-retry" of QUALITY.  (Mutant: payload.attempt is not incremented.)
ContinuesSameRound(k, j) ==
  IF k.stage = QUALITY /\ Restarts(k)
  THEN IsNext(j, k.run, k.round, SUMMARY)
  ELSE IsNext(j, k.run, k.round, k.stage + 1)
Continues(k, j) ==
  IF k.stage = QUALITY /\ Restarts(k)
  THEN IsNext(j, k.run, k.round + 1, SUMMARY)
  ELSE IsNext(j, k.run, k.round, k.stage + 1)

\* BullMQ has no more use for the counters of a completed task.
Completed(k) ==
  /\ Leave(k)
  /\ attempt' = [attempt EXCEPT ![k] = 0]
  /\ stalls' = [stalls EXCEPT ![k] = 0]
  /\ UNCHANGED <<tool, revs, budget, history>>

EnqueueNextStage(k) ==
  /\ k.stage # PUBLISH /\ At(k, "next")
  /\ \E j \in TaskId :
       /\ Continues(k, j)
       /\ state' = [state EXCEPT ![j] = "waiting", ![k] = "done"]
  /\ Completed(k)

\* PUBLISH has no next stage; what is left is the trigger of the site's growth,
\* which swallows its errors.
Publish(k) ==
  /\ k.stage = PUBLISH /\ At(k, "next")
  /\ state' = [state EXCEPT ![k] = "done"]
  /\ Completed(k)

-----------------------------------------------------------------------------
(* Faults *)

AfterRejection(k) == IF attempt[k] + 1 < MaxAttempts THEN "waiting" ELSE "dead"

Stalled(k) == IF stalls[k] < MaxStalls THEN "waiting" ELSE "dead"

\* The awaits outside the try block: those before it and the catch block's own.
OutsideTry == {"create", "fail"}

\* An await of the try block rejects.
Throw(k) ==
  /\ state[k] = "active" /\ pc[k] \notin OutsideTry
  /\ ~(k.stage = PUBLISH /\ pc[k] = "next")
  /\ faults < MaxFaults
  /\ faults' = faults + 1
  /\ Goto(k, "fail")
  /\ UNCHANGED <<tool, revs, abandoned, queue, locals, recrawls, history>>

\* The catch block: mark the row FAILED and rethrow.
Fail(k) ==
  /\ At(k, "fail")
  /\ attempt' = [attempt EXCEPT ![k] = @ + 1]
  /\ state' = [state EXCEPT ![k] = AfterRejection(k)]
  /\ Goto(k, "idle")
  /\ taskRow' = [taskRow EXCEPT ![k] = "none"]
  /\ snap' = [snap EXCEPT ![k] = NoMeta]
  /\ verdict' = [verdict EXCEPT ![k] = FALSE]
  /\ UNCHANGED <<tool, revs, abandoned, stalls, budget, history>>

\* An await outside the try block rejects.
ThrowUncaught(k) ==
  /\ state[k] = "active" /\ pc[k] \in OutsideTry
  /\ faults < MaxFaults
  /\ faults' = faults + 1
  /\ attempt' = [attempt EXCEPT ![k] = @ + 1]
  /\ state' = [state EXCEPT ![k] = AfterRejection(k)]
  /\ Leave(k)
  /\ UNCHANGED <<tool, revs, stalls, recrawls, history>>

\* The worker process dies; BullMQ hands a stalled task out again.
Crash(k) ==
  /\ state[k] = "active"
  /\ faults < MaxFaults
  /\ faults' = faults + 1
  /\ stalls' = [stalls EXCEPT ![k] = @ + 1]
  /\ state' = [state EXCEPT ![k] = Stalled(k)]
  /\ Leave(k)
  /\ UNCHANGED <<tool, revs, attempt, recrawls, history>>

\* The same two faults once Redis has the next stage's job: its answer is lost,
\* or the process dies before BullMQ hears that this task is completed.
EnqueueThen(k, s) ==
  /\ k.stage # PUBLISH /\ At(k, "next")
  /\ faults < MaxFaults
  /\ faults' = faults + 1
  /\ doubled' = TRUE
  /\ \E j \in TaskId :
       /\ Continues(k, j)
       /\ state' = [state EXCEPT ![j] = "waiting", ![k] = s]

EnqueueThenThrow(k) ==
  /\ EnqueueThen(k, "active")
  /\ Goto(k, "fail")
  /\ UNCHANGED <<tool, revs, abandoned, attempt, stalls, locals, recrawls, passed>>

EnqueueThenCrash(k) ==
  /\ EnqueueThen(k, Stalled(k))
  /\ stalls' = [stalls EXCEPT ![k] = @ + 1]
  /\ Leave(k)
  /\ UNCHANGED <<tool, revs, attempt, recrawls, passed>>

DeleteTool ==
  /\ ~deleted
  /\ faults < MaxFaults
  /\ faults' = faults + 1
  /\ deleted' = TRUE
  /\ UNCHANGED <<toolStatus, meta, column, revs, abandoned, queue, pc, locals,
                 recrawls, history>>

-----------------------------------------------------------------------------
Settled == \A k \in TaskId : state[k] \notin Pending

\* Every run was started and the queues have drained.
Rest == (\A r \in Runs : Started(r)) /\ Settled /\ UNCHANGED vars

Work(k) ==
  \/ Take(k) \/ TakeDeleted(k) \/ CreateAiTask(k)
  \/ ReadQuality(k) \/ ReadPublish(k) \/ ApplyPipelineArtifacts(k)
  \/ SaveRevision(k) \/ ReadMeta(k) \/ WriteMeta(k) \/ FinishAiTask(k)
  \/ EnqueueNextStage(k) \/ Publish(k) \/ Fail(k)

Fault(k) ==
  \/ Throw(k) \/ ThrowUncaught(k) \/ Crash(k)
  \/ EnqueueThenThrow(k) \/ EnqueueThenCrash(k)

Next ==
  \/ \E r \in Runs : StartAiPipeline(r)
  \/ \E k \in TaskId : Work(k) \/ Fault(k)
  \/ Recrawl \/ DeleteTool \/ Rest

Spec == Init /\ [][Next]_vars

\* The workers poll their queues for ever, a backoff expires, and an await that
\* does not reject resolves.  Nobody has to start a run.
FairSpec == Spec /\ \A k \in TaskId : WF_vars(Work(k))

-----------------------------------------------------------------------------
(* Properties *)

\* The type invariant of the tool's rows, the tasks and the handlers' variables.
TypeOK ==
  /\ toolStatus \in ToolStatuses
  /\ deleted \in BOOLEAN
  /\ meta \in Metadata
  /\ column \in Columns
  /\ revs \in [TaskId -> SUBSET RevStatuses]
  /\ abandoned \in Nat
  /\ state \in [TaskId -> TaskStates]
  /\ pc \in [TaskId -> Pcs]
  /\ taskRow \in [TaskId -> Rows]
  /\ snap \in [TaskId -> Metadata]
  /\ verdict \in [TaskId -> BOOLEAN]
  /\ attempt \in [TaskId -> 0..MaxAttempts]
  /\ stalls \in [TaskId -> 0..(MaxStalls + 1)]
  /\ faults \in 0..MaxFaults
  /\ recrawls \in 0..MaxRecrawls
  /\ passed \subseteq Artifact
  /\ doubled \in BOOLEAN

\* The publish gate: PUBLISH is only enqueued for a round whose quality passed,
\* or for the last round, whatever was retried or done twice.
PublishGate ==
  \A k \in TaskId :
    k.stage = PUBLISH /\ state[k] # "none" =>
      Own(k) \in passed \/ k.round = MaxRounds - 1

\* A run that had the tool for itself publishes the artifacts of every stage,
\* all from one and the same round, whatever was rejected, crashed and retried,
\* unless an execution was repeated after it had handed over to the next stage.
Alone ==
  /\ recrawls = 0 /\ ~doubled
  /\ \A q, r \in Runs : Started(q) /\ Started(r) => q = r
PublishedComplete ==
  Alone /\ toolStatus = "PUBLISHED" =>
    \E a \in Artifact : \A s \in Generating : Shown(s) = a

\* Every row of ai_generation_tasks is settled by the execution that created it,
\* unless that execution met a fault.
RowsSettle == abandoned <= faults

\* The revision of artifact a of stage s has been approved.
IsApproved(a, s) ==
  \E k \in TaskId : Own(k) = a /\ k.stage = s /\ "APPROVED" \in revs[k]

\* The text of stage s is the crawler's: only a summary can be, and only once a
\* crawl has updated the tool.  Nobody approves it, and a tool that is published
\* stays so.
ByCrawl(s) == s = SUMMARY /\ recrawls > 0 /\ Shown(s) = CrawlText

\* Without editors, no text that was generated is shown before its revision is
\* approved, also when one run publishes what another run has generated in the
\* meantime.  Any other text is the summary of a crawl.
ShownIsApproved ==
  \A s \in Generating :
    Shown(s) = None \/ ByCrawl(s) \/ IsApproved(Shown(s), s)

\* When the queues have drained, a revision waits for an editor only if its run
\* was given up, or the tool deleted.
NothingLeftPending ==
  AutoPublish /\ Settled /\ ~deleted =>
    \A k \in TaskId :
      "PENDING" \in revs[k] => \E j \in TaskId : j.run = k.run /\ state[j] = "dead"

\* Every run comes to its end: it is published (or handed to the editors), given
\* up after its attempts, or its tool is gone.
RunOver(r) ==
  \/ deleted
  \/ \E k \in TaskId : k.run = r /\ state[k] = "dead"
  \/ \E k \in TaskId : k.run = r /\ k.stage = PUBLISH /\ state[k] = "done"
RunEnds == \A r \in Runs : Started(r) ~> RunOver(r)

\* What docs/01-architecture/DDD.md says of a generation job: no partial publish.
NoPartialPublish ==
  toolStatus = "PUBLISHED" => \A s \in Generating : Shown(s) # None
=============================================================================
