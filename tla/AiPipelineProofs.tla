-------------------------- MODULE AiPipelineProofs --------------------------
(***************************************************************************)
(* Proofs about AiPipeline, for every number of runs, stages, rounds,      *)
(* attempts, stalls, copies and faults, with and without automatic         *)
(* publishing, and about AiReview, for every number of editors and         *)
(* requests besides: its type invariant rests on that of the pipeline,     *)
(* whose steps an editor's request interleaves with.                       *)
(***************************************************************************)
EXTENDS AiReview, TLAPS

-----------------------------------------------------------------------------
(* The inductive invariants *)

\* A task that can still run has an attempt and a stall left.
Budgeted ==
  \A k \in TaskId :
    state[k] \in {"none", "waiting", "active"} =>
      attempt[k] < MaxAttempts /\ stalls[k] <= MaxStalls

TypeInv == TypeOK /\ Budgeted

\* The verdict of a QUALITY task is on record before it decides where to go.
GateInv ==
  /\ PublishGate
  /\ \A k \in TaskId : verdict[k] => Own(k) \in passed

\* Past finishAiTask the row is settled; QUALITY writes its metadata after it.
SettledRow(k) ==
  /\ At(k, "next") => taskRow[k] = "SUCCEEDED"
  /\ k.stage = QUALITY /\ (At(k, "readMeta") \/ At(k, "writeMeta"))
       => taskRow[k] = "SUCCEEDED"

RowInv == RowsSettle /\ \A k \in TaskId : SettledRow(k)

\* With the revisions rs, artifact a of stage s has a revision that may still be
\* approved, or one that is.
Drafted(rs, a, s) ==
  \E k \in TaskId :
    Own(k) = a /\ k.stage = s /\ ("PENDING" \in rs[k] \/ "APPROVED" \in rs[k])
Approves(rs, a, s) ==
  \E k \in TaskId : Own(k) = a /\ k.stage = s /\ "APPROVED" \in rs[k]

DraftBacked(c, rs) == \A s \in Generating : c[s] # None => Drafted(rs, c[s], s)
ShownBacked(c, rs) ==
  \A s \in Generating : c[s] \notin {None, CrawlText} => Approves(rs, c[s], s)
Backed(m, rs) == DraftBacked(m.pipeline, rs) /\ ShownBacked(m.applied, rs)

\* A generating stage has its revision before it touches the metadata.
Revised(k) ==
  k.stage \in Generating /\ (At(k, "readMeta") \/ At(k, "writeMeta"))
    => "PENDING" \in revs[k] \/ "APPROVED" \in revs[k]

\* Every copy of the metadata is backed, since any handler may write its own.
ApprovalInv ==
  /\ Backed(meta, revs)
  /\ ShownBacked(column, revs)
  /\ \A k \in TaskId : Backed(snap[k], revs) /\ Revised(k)

\* A crawl's text is a summary, and a crawl brought it.
CrawlInv == \A s \in Generating : column[s] = CrawlText => s = SUMMARY /\ recrawls > 0

\* A task that is still to be executed, or executed again, and so leads to the
\* publish transaction; in PUBLISH itself that transaction lies ahead.
Coming(k) ==
  \/ state[k] = "waiting"
  \/ state[k] = "active" /\ (k.stage = PUBLISH => pc[k] \in {"create", "read", "apply", "fail"})
Leads(k) == Coming(k) \/ state[k] = "dead"

\* Behind every revision that waits there is a task of its run that leads on.
PendingInv ==
  AutoPublish /\ ~deleted =>
    \A k \in TaskId : "PENDING" \in revs[k] => \E j \in TaskId : j.run = k.run /\ Leads(j)

\* A run that is alone has one task in the queues, which has read what is stored,
\* and has stored the artifacts of all stages before it.
OneTask == \A j, k \in TaskId : state[j] \in Pending /\ state[k] \in Pending => j = k
Stored(k) ==
  /\ state[k] \in Pending => \A s \in Generating : s < k.stage => meta.pipeline[s] = Own(k)
  /\ (At(k, "finish") \/ At(k, "next")) /\ k.stage \in Generating
       => meta.pipeline[k.stage] = Own(k)
  /\ At(k, "writeMeta") \/ At(k, "apply") => snap[k] = meta
  /\ At(k, "apply") => k.stage = PUBLISH
ChainInv ==
  Alone => OneTask /\ (\A k \in TaskId : Stored(k)) /\ PublishedComplete

-----------------------------------------------------------------------------
(* Lemmas about the operators *)

LEMMA StageFacts ==
  /\ QUALITY \in Stages /\ PUBLISH \in Stages /\ SUMMARY \in Generating
  /\ QUALITY \notin Generating /\ PUBLISH \notin Generating /\ PUBLISH # QUALITY
BY PipelineAssumption
   DEF QUALITY, PUBLISH, SUMMARY, Stages, Generating

LEMMA OwnType ==
  ASSUME NEW k \in TaskId
  PROVE  Own(k) \in Artifact
BY DEF Own, Artifact, TaskId

\* An artifact that a task wrote is never taken for an absent one.
LEMMA NoneIsNoArtifact == None \notin Artifact
BY PipelineAssumption DEF None, Artifact

\* Neither is a crawl's text.
LEMMA CrawlTextIsNoArtifact == CrawlText \notin Artifact /\ CrawlText # None
BY PipelineAssumption DEF CrawlText, Artifact, None

LEMMA BlankType == Blank \in Content /\ Blank \in Columns /\ NoMeta \in Metadata
BY DEF Blank, Content, Columns, NoMeta, Metadata

LEMMA MetadataFields ==
  ASSUME NEW m \in Metadata
  PROVE  m.pipeline \in Content /\ m.applied \in Content
BY DEF Metadata

LEMMA OverlayType ==
  ASSUME NEW a \in Content, NEW S
  PROVE  /\ \A c \in Content : Overlay(c, a, S) \in Content
         /\ \A c \in Columns : Overlay(c, a, S) \in Columns
BY DEF Overlay, Content, Columns

\* What updatePipelineMetadata writes: the stage's own artifact, and everything
\* else as it was read.
LEMMA WrittenFields ==
  ASSUME NEW k \in TaskId, snap[k] \in Metadata
  PROVE  /\ Written(k) \in Metadata
         /\ Written(k).applied = snap[k].applied
         /\ k.stage \notin Generating => Written(k) = snap[k]
         /\ k.stage \in Generating =>
              Written(k).pipeline = [snap[k].pipeline EXCEPT ![k.stage] = Own(k)]
<1>1. CASE k.stage \notin Generating
  BY <1>1 DEF Written
<1>2. CASE k.stage \in Generating
  <2> DEFINE p == [snap[k].pipeline EXCEPT ![k.stage] = Own(k)]
  <2>1. Written(k) = [snap[k] EXCEPT !.pipeline = p]
    BY <1>2 DEF Written
  <2>2. p \in Content
    BY <1>2, OwnType, MetadataFields DEF Content
  <2>3. Written(k) = [pipeline |-> p, applied |-> snap[k].applied]
    BY <2>1 DEF Metadata
  <2> QED
    BY <1>2, <2>2, <2>3, MetadataFields DEF Metadata
<1> QED
  BY <1>1, <1>2

\* The task that a handler enqueues at its end is a fresh one: its successor's
\* stage, or SUMMARY.
LEMMA ContinuesFresh ==
  ASSUME NEW k \in TaskId, NEW j \in TaskId, Continues(k, j)
  PROVE  /\ state[j] = "none"
         /\ j.run = k.run
         /\ j.stage = k.stage + 1 \/ j.stage = SUMMARY
BY DEF Continues, IsNext, Unused

LEMMA ApprovedType ==
  ASSUME NEW k, revs \in [TaskId -> SUBSET RevStatuses]
  PROVE  Approved(k) \in [TaskId -> SUBSET RevStatuses]
BY DEF Approved, ApproveAll, RevStatuses

-----------------------------------------------------------------------------
(* Types *)

LEMMA TypeInit == Init => TypeInv
<1> SUFFICES ASSUME Init PROVE TypeInv
  OBVIOUS
<1>1. meta \in Metadata /\ column \in Columns /\ snap \in [TaskId -> Metadata]
  BY BlankType DEF Init
<1>2. /\ attempt \in [TaskId -> 0..MaxAttempts]
      /\ stalls \in [TaskId -> 0..(MaxStalls + 1)]
      /\ faults \in 0..MaxFaults /\ recrawls \in 0..MaxRecrawls
      /\ abandoned \in Nat
  BY PipelineAssumption DEF Init
<1>3. TypeOK
  BY <1>1, <1>2 DEF Init, TypeOK, ToolStatuses, TaskStates, Pcs, Rows
<1>4. Budgeted
  BY PipelineAssumption DEF Init, Budgeted
<1> QED
  BY <1>3, <1>4 DEF TypeInv

LEMMA TypeStep == TypeInv /\ [Next]_vars => TypeInv'
<1> SUFFICES ASSUME TypeInv, [Next]_vars PROVE TypeInv'
  OBVIOUS
<1> USE PipelineAssumption, BlankType DEF TypeInv, TypeOK, Budgeted
<1>1. ASSUME NEW r \in Runs, StartAiPipeline(r) PROVE TypeInv'
  BY <1>1 DEF StartAiPipeline, IsNext, Unused, TaskStates, tool, locals, budget,
     history
<1>2. ASSUME NEW k \in TaskId, Work(k) PROVE TypeInv'
  <2>1. CASE Take(k)
    BY <2>1 DEF Take, Goto, Pcs, TaskStates, tool, locals, budget, history
  <2>2. CASE TakeDeleted(k)
    BY <2>2 DEF TakeDeleted, TaskStates, tool, locals, budget, history
  <2>3. CASE CreateAiTask(k)
    BY <2>3 DEF CreateAiTask, Goto, Pcs, Rows, tool, queue, budget, history
  <2>4. CASE ReadQuality(k)
    BY <2>4, OwnType DEF ReadQuality, Goto, Pcs, tool, queue, budget
  <2>5. CASE ReadPublish(k)
    BY <2>5 DEF ReadPublish, Goto, Pcs, tool, queue, budget, history
  <2>6. CASE ApplyPipelineArtifacts(k)
    <3>1. snap[k].pipeline \in Content /\ meta.applied \in Content
      BY MetadataFields
    <3>2. column' \in Columns
      BY <2>6, <3>1, OverlayType DEF ApplyPipelineArtifacts
    <3>3. meta' \in Metadata
      BY <2>6, <3>1, OverlayType DEF ApplyPipelineArtifacts, Metadata
    <3>4. revs' \in [TaskId -> SUBSET RevStatuses]
      BY <2>6, ApprovedType DEF ApplyPipelineArtifacts
    <3> QED
      BY <2>6, <3>2, <3>3, <3>4 DEF ApplyPipelineArtifacts, Goto, Pcs,
         ToolStatuses, queue, locals, budget, history
  <2>7. CASE SaveRevision(k)
    BY <2>7 DEF SaveRevision, AfterRevise, RevStatuses, Goto, Pcs, tool, queue,
       locals, budget, history
  <2>8. CASE ReadMeta(k)
    BY <2>8 DEF ReadMeta, Goto, Pcs, tool, queue, budget, history
  <2>9. CASE WriteMeta(k)
    BY <2>9, WrittenFields DEF WriteMeta, AfterWrite, Goto, Pcs, queue, locals,
       budget, history
  <2>10. CASE FinishAiTask(k)
    BY <2>10 DEF FinishAiTask, AfterFinish, Goto, Pcs, Rows, tool, queue,
       budget, history
  <2>11. CASE EnqueueNextStage(k)
    BY <2>11, ContinuesFresh DEF EnqueueNextStage, Completed, Leave, Goto, Pcs, Rows,
       TaskStates, tool, budget, history
  <2>12. CASE Publish(k)
    BY <2>12 DEF Publish, Completed, Leave, Goto, Pcs, Rows, TaskStates, tool,
       budget, history
  <2>13. CASE Fail(k)
    BY <2>13 DEF Fail, At, AfterRejection, Goto, Pcs, Rows, TaskStates, tool,
       budget, history
  <2> QED
    BY <1>2, <2>1, <2>2, <2>3, <2>4, <2>5, <2>6, <2>7, <2>8, <2>9, <2>10,
       <2>11, <2>12, <2>13 DEF Work
<1>3. ASSUME NEW k \in TaskId, Fault(k) PROVE TypeInv'
  <2>1. CASE Throw(k)
    BY <2>1 DEF Throw, Goto, Pcs, tool, queue, locals, history
  <2>2. CASE ThrowUncaught(k)
    BY <2>2 DEF ThrowUncaught, AfterRejection, Leave, Goto, Pcs, Rows,
       TaskStates, tool, history
  <2>3. CASE Crash(k)
    BY <2>3 DEF Crash, Stalled, Leave, Goto, Pcs, Rows, TaskStates, tool,
       history
  <2>4. CASE EnqueueThenThrow(k)
    BY <2>4, ContinuesFresh DEF EnqueueThenThrow, EnqueueThen, At, Goto, Pcs, TaskStates, tool,
       locals
  <2>5. CASE EnqueueThenCrash(k)
    BY <2>5, ContinuesFresh DEF EnqueueThenCrash, EnqueueThen, At, Stalled, Leave, Goto, Pcs,
       Rows, TaskStates, tool
  <2> QED
    BY <1>3, <2>1, <2>2, <2>3, <2>4, <2>5 DEF Fault
<1>4. CASE Recrawl
  <2>1. column' \in Columns
    BY <1>4 DEF Recrawl, Recrawled, Columns
  <2> QED
    BY <1>4, <2>1 DEF Recrawl, queue, locals, history
<1>5. CASE DeleteTool
  BY <1>5 DEF DeleteTool, queue, locals, history
<1>6. CASE UNCHANGED vars
  BY <1>6 DEF vars, tool, queue, locals, budget, history
<1> QED
  BY <1>1, <1>2, <1>3, <1>4, <1>5, <1>6 DEF Next, Rest

LEMMA TypeInvariant == Spec => []TypeInv
<1>1. TypeInv /\ [Next]_vars => TypeInv'
  BY TypeStep
<1> QED
  BY <1>1, TypeInit, PTL DEF Spec

\* The type invariant of the pipeline, and with it: no task is attempted more
\* often than the queue allows (queues.ts, createQueueOptions).
THEOREM TypeCorrect == Spec => []TypeOK
<1>1. TypeInv => TypeOK
  BY DEF TypeInv
<1> QED
  BY <1>1, TypeInvariant, PTL

-----------------------------------------------------------------------------
(* The publish gate *)

\* Only QUALITY hands over to PUBLISH: it passed, or has no round left.
LEMMA PublishFollows ==
  ASSUME NEW k \in TaskId, NEW j \in TaskId, Continues(k, j), j.stage = PUBLISH
  PROVE  Own(j) = Own(k) /\ (verdict[k] \/ j.round = MaxRounds - 1)
<1>1. ~(k.stage = QUALITY /\ Restarts(k))
  BY StageFacts, PipelineAssumption
  DEF Continues, IsNext, Unused, SUMMARY, PUBLISH
<1>2. j.run = k.run /\ j.round = k.round /\ j.stage = k.stage + 1
  BY <1>1 DEF Continues, IsNext, Unused
<1>3. k.stage = QUALITY
  BY <1>2, PipelineAssumption DEF PUBLISH, QUALITY, TaskId, Stages
<1>4. verdict[k] \/ k.round + 1 >= MaxRounds
  BY <1>1, <1>3, PipelineAssumption DEF Restarts, TaskId, Rounds
<1> QED
  BY <1>2, <1>4, PipelineAssumption DEF Own, TaskId, Rounds

LEMMA GateInit == Init => GateInv
BY DEF Init, GateInv, PublishGate

\* A step that starts no PUBLISH task keeps the gate.
LEMMA GateQuiet ==
  ASSUME GateInv, passed \subseteq passed',
         \A k \in TaskId :
           k.stage = PUBLISH /\ state'[k] # "none" => state[k] # "none",
         \A k \in TaskId : verdict'[k] => verdict[k] \/ Own(k) \in passed'
  PROVE  GateInv'
BY DEF GateInv, PublishGate, Own

\* A step that enqueues what follows k keeps it.
LEMMA GateContinues ==
  ASSUME GateInv, NEW k \in TaskId, NEW j \in TaskId, Continues(k, j),
         passed' = passed,
         \A i \in TaskId : state'[i] # "none" => state[i] # "none" \/ i = j,
         \A i \in TaskId : verdict'[i] => verdict[i]
  PROVE  GateInv'
<1>1. ASSUME NEW i \in TaskId, i.stage = PUBLISH, state'[i] # "none"
      PROVE  Own(i) \in passed' \/ i.round = MaxRounds - 1
  <2>1. CASE state[i] # "none"
    BY <1>1, <2>1 DEF GateInv, PublishGate
  <2>2. CASE i = j
    BY <1>1, <2>2, PublishFollows DEF GateInv
  <2> QED
    BY <1>1, <2>1, <2>2
<1> QED
  BY <1>1 DEF GateInv, PublishGate, Own

LEMMA GateStep == TypeInv /\ GateInv /\ [Next]_vars => GateInv'
<1> SUFFICES ASSUME TypeInv, GateInv, [Next]_vars PROVE GateInv'
  OBVIOUS
<1> USE DEF TypeInv, TypeOK
<1>1. ASSUME NEW r \in Runs, StartAiPipeline(r) PROVE GateInv'
  <2>1. SUMMARY # PUBLISH
    BY PipelineAssumption DEF SUMMARY, PUBLISH
  <2> QED
    BY <1>1, <2>1, GateQuiet DEF StartAiPipeline, IsNext, Unused, locals, history
<1>2. ASSUME NEW k \in TaskId, Work(k) PROVE GateInv'
  <2>1. CASE Take(k) \/ TakeDeleted(k)
    BY <2>1, GateQuiet DEF Take, TakeDeleted, locals, history
  <2>2. CASE CreateAiTask(k) \/ ReadMeta(k) \/ FinishAiTask(k) \/ ReadPublish(k)
    BY <2>2, GateQuiet
    DEF CreateAiTask, ReadMeta, FinishAiTask, ReadPublish, queue, history
  <2>3. CASE ReadQuality(k)
    BY <2>3, GateQuiet DEF ReadQuality, queue, GateInv
  <2>4. CASE ApplyPipelineArtifacts(k) \/ SaveRevision(k) \/ WriteMeta(k)
    BY <2>4, GateQuiet
    DEF ApplyPipelineArtifacts, SaveRevision, WriteMeta, queue, locals, history
  <2>5. CASE EnqueueNextStage(k)
    <3>1. PICK j \in TaskId :
            /\ Continues(k, j)
            /\ state' = [state EXCEPT ![j] = "waiting", ![k] = "done"]
      BY <2>5 DEF EnqueueNextStage
    <3>2. state[k] # "none"
      BY <2>5 DEF EnqueueNextStage, At
    <3> QED
      BY <2>5, <3>1, <3>2, GateContinues
      DEF EnqueueNextStage, Completed, Leave, history
  <2>6. CASE Publish(k)
    BY <2>6, GateQuiet DEF Publish, At, Completed, Leave, history
  <2>7. CASE Fail(k)
    BY <2>7, GateQuiet DEF Fail, At, history
  <2> QED
    BY <1>2, <2>1, <2>2, <2>3, <2>4, <2>5, <2>6, <2>7 DEF Work
<1>3. ASSUME NEW k \in TaskId, Fault(k) PROVE GateInv'
  <2>1. CASE Throw(k)
    BY <2>1, GateQuiet DEF Throw, queue, locals, history
  <2>2. CASE ThrowUncaught(k) \/ Crash(k)
    BY <2>2, GateQuiet DEF ThrowUncaught, Crash, Leave, history
  <2>3. ASSUME NEW s, EnqueueThen(k, s), verdict' \in [TaskId -> BOOLEAN],
               \A i \in TaskId : verdict'[i] => verdict[i], passed' = passed
        PROVE  GateInv'
    <3>1. PICK j \in TaskId :
            /\ Continues(k, j)
            /\ state' = [state EXCEPT ![j] = "waiting", ![k] = s]
      BY <2>3 DEF EnqueueThen
    <3>2. state[k] # "none"
      BY <2>3 DEF EnqueueThen, At
    <3> QED
      BY <2>3, <3>1, <3>2, GateContinues
  <2>4. CASE EnqueueThenThrow(k)
    BY <2>4, <2>3 DEF EnqueueThenThrow, locals
  <2>5. CASE EnqueueThenCrash(k)
    BY <2>5, <2>3 DEF EnqueueThenCrash, Leave
  <2> QED
    BY <1>3, <2>1, <2>2, <2>4, <2>5 DEF Fault
<1>4. CASE Recrawl \/ DeleteTool
  BY <1>4, GateQuiet DEF Recrawl, DeleteTool, queue, locals, history
<1>5. CASE UNCHANGED vars
  BY <1>5, GateQuiet DEF vars, queue, locals, history
<1> QED
  BY <1>1, <1>2, <1>3, <1>4, <1>5 DEF Next, Rest

\* The publish gate of processStage (ai-pipeline.ts, case QUALITY): whatever is
\* retried, crashes or runs twice, a run reaches PUBLISH only with a round whose
\* quality passed, or with its last round.
THEOREM PublishIsGated == Spec => []PublishGate
<1>1. Init => TypeInv /\ GateInv
  BY TypeInit, GateInit
<1>2. TypeInv /\ GateInv /\ [Next]_vars => (TypeInv /\ GateInv)'
  BY TypeStep, GateStep
<1>3. GateInv => PublishGate
  BY DEF GateInv
<1> QED
  BY <1>1, <1>2, <1>3, PTL DEF Spec

-----------------------------------------------------------------------------
(* The rows of ai_generation_tasks *)

LEMMA RowInit == Init => RowInv
BY PipelineAssumption DEF Init, RowInv, RowsSettle, SettledRow, At

\* Leave adds at most one abandoned row, and none when the row is settled.
LEMMA LeaveAbandons ==
  ASSUME TypeInv, NEW k \in TaskId, Leave(k)
  PROVE  /\ abandoned' <= abandoned + 1
         /\ taskRow[k] = "SUCCEEDED" => abandoned' = abandoned
BY DEF Leave, TypeInv, TypeOK

LEMMA NextIsSettled ==
  ASSUME RowInv, NEW k \in TaskId, At(k, "next")
  PROVE  taskRow[k] = "SUCCEEDED"
BY DEF RowInv, SettledRow, At

LEMMA RowStep == TypeInv /\ RowInv /\ [Next]_vars => RowInv'
<1> SUFFICES ASSUME TypeInv, RowInv, [Next]_vars PROVE RowInv'
  OBVIOUS
<1> USE StageFacts, PipelineAssumption
    DEF TypeInv, TypeOK, RowInv, RowsSettle, SettledRow, At, Goto
<1>1. ASSUME NEW r \in Runs, StartAiPipeline(r) PROVE RowInv'
  BY <1>1 DEF StartAiPipeline, locals, budget
<1>2. ASSUME NEW k \in TaskId, Work(k) PROVE RowInv'
  <2>1. CASE Take(k)
    BY <2>1 DEF Take, locals, budget
  <2>2. CASE TakeDeleted(k)
    BY <2>2 DEF TakeDeleted, locals, budget
  <2>3. CASE CreateAiTask(k)
    BY <2>3 DEF CreateAiTask, queue, budget
  <2>4. CASE ReadQuality(k) \/ ReadPublish(k)
    BY <2>4 DEF ReadQuality, ReadPublish, queue, budget
  <2>5. CASE ApplyPipelineArtifacts(k)
    BY <2>5 DEF ApplyPipelineArtifacts, queue, locals, budget
  <2>6. CASE SaveRevision(k)
    BY <2>6 DEF SaveRevision, AfterRevise, queue, locals, budget
  <2>7. CASE ReadMeta(k)
    BY <2>7 DEF ReadMeta, queue, budget
  <2>8. CASE WriteMeta(k)
    BY <2>8 DEF WriteMeta, AfterWrite, queue, locals, budget
  <2>9. CASE FinishAiTask(k)
    BY <2>9 DEF FinishAiTask, AfterFinish, queue, budget
  <2>10. CASE EnqueueNextStage(k)
    <3>1. taskRow[k] = "SUCCEEDED"
      BY <2>10, NextIsSettled DEF EnqueueNextStage
    <3>2. Leave(k)
      BY <2>10 DEF EnqueueNextStage, Completed
    <3>3. abandoned' = abandoned
      BY <3>1, <3>2, LeaveAbandons
    <3>4. state'[k] = "done" /\ \A i \in TaskId : state'[i] = "active" => state[i] = "active"
      BY <2>10 DEF EnqueueNextStage
    <3> QED
      BY <2>10, <3>2, <3>3, <3>4 DEF EnqueueNextStage, Completed, Leave, budget
  <2>11. CASE Publish(k)
    <3>1. taskRow[k] = "SUCCEEDED"
      BY <2>11, NextIsSettled DEF Publish
    <3>2. Leave(k)
      BY <2>11 DEF Publish, Completed
    <3>3. abandoned' = abandoned
      BY <3>1, <3>2, LeaveAbandons
    <3>4. state'[k] = "done" /\ \A i \in TaskId : state'[i] = "active" => state[i] = "active"
      BY <2>11 DEF Publish
    <3> QED
      BY <2>11, <3>2, <3>3, <3>4 DEF Publish, Completed, Leave, budget
  <2>12. CASE Fail(k)
    BY <2>12 DEF Fail, AfterRejection, budget
  <2> QED
    BY <1>2, <2>1, <2>2, <2>3, <2>4, <2>5, <2>6, <2>7, <2>8, <2>9, <2>10,
       <2>11, <2>12 DEF Work
<1>3. ASSUME NEW k \in TaskId, Fault(k) PROVE RowInv'
  <2>1. CASE Throw(k)
    BY <2>1 DEF Throw, queue, locals
  <2>2. CASE ThrowUncaught(k)
    BY <2>2, LeaveAbandons DEF ThrowUncaught, AfterRejection, Leave
  <2>3. CASE Crash(k)
    BY <2>3, LeaveAbandons DEF Crash, Stalled, Leave
  <2>4. CASE EnqueueThenThrow(k)
    BY <2>4 DEF EnqueueThenThrow, EnqueueThen, locals
  <2>5. CASE EnqueueThenCrash(k)
    BY <2>5, LeaveAbandons DEF EnqueueThenCrash, EnqueueThen, Stalled, Leave
  <2> QED
    BY <1>3, <2>1, <2>2, <2>3, <2>4, <2>5 DEF Fault
<1>4. CASE Recrawl
  BY <1>4 DEF Recrawl, queue, locals
<1>5. CASE DeleteTool
  BY <1>5 DEF DeleteTool, queue, locals
<1>6. CASE UNCHANGED vars
  BY <1>6 DEF vars, queue, locals, budget
<1> QED
  BY <1>1, <1>2, <1>3, <1>4, <1>5, <1>6 DEF Next, Rest

\* createAiTask and finishAiTask: there are never more rows left RUNNING for ever
\* than there were faults, on whichever path an execution ends.
THEOREM RowsAreSettled == Spec => []RowsSettle
<1>1. Init => TypeInv /\ RowInv
  BY TypeInit, RowInit
<1>2. TypeInv /\ RowInv /\ [Next]_vars => (TypeInv /\ RowInv)'
  BY TypeStep, RowStep
<1>3. RowInv => RowsSettle
  BY DEF RowInv
<1> QED
  BY <1>1, <1>2, <1>3, PTL DEF Spec

-----------------------------------------------------------------------------
(* Approved content *)

\* Revisions are only ever added and approved.
Keeps(rs, rt) ==
  \A k \in TaskId :
    /\ "APPROVED" \in rs[k] => "APPROVED" \in rt[k]
    /\ "PENDING" \in rs[k] => "PENDING" \in rt[k] \/ "APPROVED" \in rt[k]

LEMMA KeepsBacked ==
  ASSUME NEW rs, NEW rt, Keeps(rs, rt)
  PROVE  /\ \A c : ShownBacked(c, rs) => ShownBacked(c, rt)
         /\ \A m : Backed(m, rs) => Backed(m, rt)
<1>1. \A a, s : Drafted(rs, a, s) => Drafted(rt, a, s)
  BY DEF Keeps, Drafted
<1>2. \A a, s : Approves(rs, a, s) => Approves(rt, a, s)
  BY DEF Keeps, Approves
<1> QED
  BY <1>1, <1>2 DEF Backed, DraftBacked, ShownBacked

LEMMA KeepsItself == Keeps(revs, revs)
BY DEF Keeps

LEMMA NoMetaBacked == \A rs : Backed(NoMeta, rs) /\ ShownBacked(Blank, rs)
BY DEF Backed, DraftBacked, ShownBacked, NoMeta, Blank

\* The publish transaction approves every revision, so whatever it applies is
\* approved: the drafts behind its artifacts, of whichever run they are.
LEMMA ApprovedKeeps ==
  ASSUME NEW k, revs \in [TaskId -> SUBSET RevStatuses]
  PROVE  /\ Keeps(revs, Approved(k))
         /\ \A a, s : Drafted(revs, a, s) => Approves(Approved(k), a, s)
<1>1. \A j \in TaskId :
        "PENDING" \in revs[j] \/ "APPROVED" \in revs[j] =>
          "APPROVED" \in Approved(k)[j]
  BY DEF Approved, ApproveAll
<1> QED
  BY <1>1 DEF Keeps, Drafted, Approves

LEMMA OverlayBacked ==
  ASSUME NEW k, revs \in [TaskId -> SUBSET RevStatuses], NEW c, NEW a, NEW S,
         ShownBacked(c, revs), DraftBacked(a, revs)
  PROVE  ShownBacked(Overlay(c, a, S), Approved(k))
<1>1. ShownBacked(c, Approved(k))
  BY ApprovedKeeps, KeepsBacked
<1>2. \A s \in Generating : a[s] # None => Approves(Approved(k), a[s], s)
  BY ApprovedKeeps DEF DraftBacked
<1> QED
  BY <1>1, <1>2 DEF Overlay, ShownBacked

\* What a generating stage writes is backed by the revision it saved before.
LEMMA WrittenBacked ==
  ASSUME NEW k \in TaskId, snap[k] \in Metadata, Backed(snap[k], revs),
         k.stage \in Generating => Drafted(revs, Own(k), k.stage)
  PROVE  Backed(Written(k), revs)
<1>1. CASE k.stage \notin Generating
  BY <1>1, WrittenFields
<1>2. CASE k.stage \in Generating
  <2>1. snap[k].pipeline \in Content
    BY MetadataFields
  <2>2. DraftBacked(Written(k).pipeline, revs)
    BY <1>2, <2>1, WrittenFields DEF Backed, DraftBacked, Content
  <2> QED
    BY <2>2, WrittenFields DEF Backed
<1> QED
  BY <1>1, <1>2

LEMMA ApprovalInit == Init => ApprovalInv
BY NoMetaBacked DEF Init, ApprovalInv, Revised, At

\* A step that writes no content keeps the invariant, if no stage gets to its
\* metadata by it.
LEMMA ApprovalQuiet ==
  ASSUME ApprovalInv, Keeps(revs, revs'),
         meta' = meta \/ meta' = NoMeta, column' = column \/ ShownBacked(column', revs'),
         \A k \in TaskId : snap'[k] \in {snap[k], meta, NoMeta},
         \A k \in TaskId : (At(k, "readMeta") \/ At(k, "writeMeta"))' =>
                            At(k, "readMeta") \/ At(k, "writeMeta") \/ Revised(k)'
  PROVE  ApprovalInv'
<1>1. Backed(meta', revs')
  BY KeepsBacked, NoMetaBacked DEF ApprovalInv
<1>2. ShownBacked(column', revs')
  BY KeepsBacked DEF ApprovalInv
<1>3. ASSUME NEW k \in TaskId PROVE Backed(snap'[k], revs')
  BY KeepsBacked, NoMetaBacked DEF ApprovalInv
<1>4. ASSUME NEW k \in TaskId PROVE Revised(k)'
  BY DEF ApprovalInv, Revised, Keeps
<1> QED
  BY <1>1, <1>2, <1>3, <1>4 DEF ApprovalInv

LEMMA ApprovalStep == TypeInv /\ ApprovalInv /\ [Next]_vars => ApprovalInv'
<1> SUFFICES ASSUME TypeInv, ApprovalInv, [Next]_vars PROVE ApprovalInv'
  OBVIOUS
<1> USE KeepsItself DEF TypeInv, TypeOK
<1>1. ASSUME NEW r \in Runs, StartAiPipeline(r) PROVE ApprovalInv'
  BY <1>1, ApprovalQuiet
  DEF StartAiPipeline, IsNext, Unused, At, tool, locals
<1>2. ASSUME NEW k \in TaskId, Work(k) PROVE ApprovalInv'
  <2>1. CASE Take(k) \/ TakeDeleted(k)
    BY <2>1, ApprovalQuiet DEF Take, TakeDeleted, Goto, At, tool, locals
  <2>2. CASE CreateAiTask(k)
    BY <2>2, ApprovalQuiet DEF CreateAiTask, Goto, At, tool, queue
  <2>3. CASE ReadQuality(k) \/ ReadPublish(k) \/ ReadMeta(k)
    BY <2>3, ApprovalQuiet
    DEF ReadQuality, ReadPublish, ReadMeta, Goto, At, tool, queue
  <2>4. CASE ApplyPipelineArtifacts(k)
    <3> DEFINE a == snap[k].pipeline
               rt == Approved(k)
               applied == Overlay(meta.applied, a, InMetadata)
    <3>1. DraftBacked(a, revs)
      BY DEF ApprovalInv, Backed
    <3>2. Keeps(revs, rt) /\ revs' = rt
      BY <2>4, ApprovedKeeps DEF ApplyPipelineArtifacts
    <3>3. ShownBacked(column', revs')
      BY <2>4, <3>1, <3>2, OverlayBacked DEF ApplyPipelineArtifacts, ApprovalInv
    <3>4. Backed(meta', revs')
      <4>1. ShownBacked(applied, rt)
        BY <3>1, OverlayBacked DEF ApprovalInv, Backed
      <4>2. Backed(meta, rt)
        BY <3>2, KeepsBacked DEF ApprovalInv
      <4>3. meta'.applied = applied /\ meta'.pipeline = meta.pipeline
        BY <2>4 DEF ApplyPipelineArtifacts, Metadata
      <4> QED
        BY <3>2, <4>1, <4>2, <4>3 DEF Backed
    <3>5. ASSUME NEW j \in TaskId PROVE Backed(snap'[j], revs')
      BY <2>4, <3>2, KeepsBacked DEF ApplyPipelineArtifacts, ApprovalInv, locals
    <3>6. ASSUME NEW j \in TaskId PROVE Revised(j)'
      BY <2>4, <3>2
      DEF ApplyPipelineArtifacts, ApprovalInv, Revised, Keeps, At, Goto, queue
    <3> QED
      BY <3>3, <3>4, <3>5, <3>6 DEF ApprovalInv
  <2>5. CASE SaveRevision(k)
    <3>1. /\ Keeps(revs, revs')
          /\ "PENDING" \in revs'[k] \/ "APPROVED" \in revs'[k]
      BY <2>5 DEF SaveRevision, Keeps
    <3> QED
      BY <2>5, <3>1, ApprovalQuiet
      DEF SaveRevision, Revised, Goto, At, tool, queue, locals
  <2>6. CASE WriteMeta(k)
    <3>1. k.stage \in Generating => Drafted(revs, Own(k), k.stage)
      BY <2>6 DEF WriteMeta, ApprovalInv, Revised, Drafted
    <3>2. Backed(meta', revs')
      BY <2>6, <3>1, WrittenBacked DEF WriteMeta, ApprovalInv
    <3>3. ASSUME NEW j \in TaskId PROVE Revised(j)'
      BY <2>6 DEF WriteMeta, AfterWrite, ApprovalInv, Revised, Goto, At, queue
    <3> QED
      BY <2>6, <3>2, <3>3 DEF WriteMeta, ApprovalInv, locals
  <2>7. CASE FinishAiTask(k)
    <3>1. pc'[k] = "readMeta" => k.stage \notin Generating
      BY <2>7, StageFacts DEF FinishAiTask, AfterFinish, Goto
    <3> QED
      BY <2>7, <3>1, ApprovalQuiet DEF FinishAiTask, AfterFinish, Goto, At,
         Revised, tool, queue
  <2>8. CASE EnqueueNextStage(k)
    BY <2>8, ContinuesFresh, ApprovalQuiet
    DEF EnqueueNextStage, Completed, Leave, Goto, At, tool
  <2>9. CASE Publish(k) \/ Fail(k)
    BY <2>9, ApprovalQuiet DEF Publish, Fail, Completed, Leave, Goto, At, tool
  <2> QED
    BY <1>2, <2>1, <2>2, <2>3, <2>4, <2>5, <2>6, <2>7, <2>8, <2>9 DEF Work
<1>3. ASSUME NEW k \in TaskId, Fault(k) PROVE ApprovalInv'
  <2>1. CASE Throw(k)
    BY <2>1, ApprovalQuiet DEF Throw, Goto, At, tool, queue, locals
  <2>2. CASE ThrowUncaught(k) \/ Crash(k)
    BY <2>2, ApprovalQuiet DEF ThrowUncaught, Crash, Leave, Goto, At, tool
  <2>3. CASE EnqueueThenThrow(k)
    BY <2>3, ContinuesFresh, ApprovalQuiet
    DEF EnqueueThenThrow, EnqueueThen, Goto, At, tool, locals
  <2>4. CASE EnqueueThenCrash(k)
    BY <2>4, ContinuesFresh, ApprovalQuiet
    DEF EnqueueThenCrash, EnqueueThen, Leave, Goto, At, tool
  <2> QED
    BY <1>3, <2>1, <2>2, <2>3, <2>4 DEF Fault
<1>4. CASE Recrawl \/ DeleteTool
  <2>1. ShownBacked(column', revs')
    BY <1>4 DEF Recrawl, Recrawled, DeleteTool, Columns, ShownBacked, ApprovalInv
  <2> QED
    BY <1>4, <2>1, ApprovalQuiet DEF Recrawl, DeleteTool, At, queue, locals
<1>5. CASE UNCHANGED vars
  BY <1>5, ApprovalQuiet DEF vars, At, tool, queue, locals
<1> QED
  BY <1>1, <1>2, <1>3, <1>4, <1>5 DEF Next, Rest

LEMMA CrawlInit == Init => CrawlInv
BY CrawlTextIsNoArtifact DEF Init, CrawlInv, Blank

\* Only updateTool writes a crawl's text.
LEMMA CrawlStep == TypeInv /\ CrawlInv /\ [Next]_vars => CrawlInv'
<1> SUFFICES ASSUME TypeInv, CrawlInv, [Next]_vars PROVE CrawlInv'
  OBVIOUS
<1> USE DEF TypeInv, TypeOK
<1>1. CASE UNCHANGED <<column, recrawls>>
  BY <1>1 DEF CrawlInv
<1>2. CASE Recrawl
  <2>1. recrawls' > 0
    BY <1>2, PipelineAssumption DEF Recrawl
  <2> QED
    BY <1>2, <2>1 DEF Recrawl, Recrawled, CrawlInv, Columns
<1>3. ASSUME NEW k \in TaskId, ApplyPipelineArtifacts(k) PROVE CrawlInv'
  <2>1. snap[k].pipeline \in Content
    BY MetadataFields
  <2>2. \A s \in Generating : snap[k].pipeline[s] # CrawlText
    BY <2>1, CrawlTextIsNoArtifact DEF Content
  <2> QED
    BY <1>3, <2>2 DEF ApplyPipelineArtifacts, Overlay, CrawlInv, budget
<1>4. ASSUME NEW k \in TaskId, Work(k), ~ApplyPipelineArtifacts(k)
      PROVE  UNCHANGED <<column, recrawls>>
  BY <1>4 DEF Work, Take, TakeDeleted, CreateAiTask, ReadQuality, ReadPublish,
     SaveRevision, ReadMeta, WriteMeta, FinishAiTask, EnqueueNextStage, Publish, Fail,
     Completed, tool, budget
<1>5. ASSUME NEW k \in TaskId, Fault(k) PROVE UNCHANGED <<column, recrawls>>
  BY <1>5 DEF Fault, Throw, ThrowUncaught, Crash, EnqueueThenThrow, EnqueueThenCrash,
     EnqueueThen, tool
<1>6. ASSUME NEW r \in Runs, StartAiPipeline(r) PROVE UNCHANGED <<column, recrawls>>
  BY <1>6 DEF StartAiPipeline, tool, budget
<1>7. CASE DeleteTool \/ UNCHANGED vars
  BY <1>1, <1>7 DEF DeleteTool, vars, tool, budget
<1> QED
  BY <1>1, <1>2, <1>3, <1>4, <1>5, <1>6, <1>7 DEF Next, Rest

\* Without editors, whatever runs, crawls and faults overlap, every generated text
\* the tool shows comes from a revision that is APPROVED (the publish transaction of
\* ai-pipeline.ts approves at least what it applies); any other text is a summary
\* with which updateTool (crawl-runtime.ts) overwrote the column.
THEOREM OnlyApprovedShown == Spec => []ShownIsApproved
<1>1. Init => TypeInv /\ ApprovalInv /\ CrawlInv
  BY TypeInit, ApprovalInit, CrawlInit
<1>2. TypeInv /\ ApprovalInv /\ CrawlInv /\ [Next]_vars
        => (TypeInv /\ ApprovalInv /\ CrawlInv)'
  BY TypeStep, ApprovalStep, CrawlStep
<1>3. TypeInv /\ ApprovalInv /\ CrawlInv => ShownIsApproved
  <2> SUFFICES ASSUME TypeInv, ApprovalInv, CrawlInv, NEW s \in Generating,
                      Shown(s) # None, ~ByCrawl(s)
               PROVE  Approves(revs, Shown(s), s)
    BY DEF ShownIsApproved, Approves, IsApproved
  <2>1. CASE s \in InMetadata
    <3>1. meta.applied[s] # CrawlText
      BY CrawlTextIsNoArtifact, MetadataFields DEF TypeInv, TypeOK, Content
    <3> QED
      BY <2>1, <3>1 DEF ApprovalInv, Backed, ShownBacked, Shown
  <2>2. CASE s \notin InMetadata
    <3>1. column[s] # CrawlText
      BY <2>2 DEF CrawlInv, ByCrawl, Shown
    <3> QED
      BY <2>2, <3>1 DEF ApprovalInv, ShownBacked, Shown
  <2> QED
    BY <2>1, <2>2
<1> QED
  BY <1>1, <1>2, <1>3, PTL DEF Spec

-----------------------------------------------------------------------------
(* Nothing left pending *)

\* Where a task led on, one of its run still does.
LEMMA PendingQuiet ==
  ASSUME PendingInv, deleted => deleted',
         \A k \in TaskId : Leads(k) => \E i \in TaskId : i.run = k.run /\ Leads(i)',
         \A k \in TaskId : "PENDING" \in revs'[k] => "PENDING" \in revs[k] \/ Leads(k)'
  PROVE  PendingInv'
<1> SUFFICES ASSUME AutoPublish, ~deleted', NEW k \in TaskId, "PENDING" \in revs'[k]
             PROVE  \E i \in TaskId : i.run = k.run /\ Leads(i)'
  BY DEF PendingInv
<1>1. CASE "PENDING" \in revs[k]
  <2>1. PICK j \in TaskId : j.run = k.run /\ Leads(j)
    BY <1>1 DEF PendingInv
  <2> QED
    BY <2>1
<1>2. CASE Leads(k)'
  BY <1>2
<1> QED
  BY <1>1, <1>2

\* The same for a step that only moves tasks on in place.
LEMMA PendingKeeps ==
  ASSUME PendingInv, deleted => deleted', revs' = revs,
         \A k \in TaskId : Leads(k) => Leads(k)'
  PROVE  PendingInv'
BY PendingQuiet

\* ... and for one that enqueues j after k.
LEMMA PendingContinues ==
  ASSUME PendingInv, deleted' = deleted, revs' = revs,
         NEW k \in TaskId, NEW j \in TaskId, j.run = k.run, state'[j] = "waiting",
         \A i \in TaskId \ {k} : Leads(i) => Leads(i)'
  PROVE  PendingInv'
BY PendingQuiet DEF Leads, Coming

LEMMA PendingStep ==
  TypeInv /\ AutoPublish /\ PendingInv /\ [Next]_vars => PendingInv'
<1> SUFFICES ASSUME TypeInv, AutoPublish, PendingInv, [Next]_vars PROVE PendingInv'
  OBVIOUS
<1> USE StageFacts DEF TypeInv, TypeOK, Leads, Coming
<1>1. ASSUME NEW r \in Runs, StartAiPipeline(r) PROVE PendingInv'
  BY <1>1, PendingKeeps DEF StartAiPipeline, IsNext, Unused, tool
<1>2. ASSUME NEW k \in TaskId, Work(k) PROVE PendingInv'
  <2>1. CASE Take(k)
    BY <2>1, PendingKeeps DEF Take, Goto, tool
  <2>2. CASE TakeDeleted(k)
    BY <2>2 DEF TakeDeleted, PendingInv, tool
  <2>3. CASE CreateAiTask(k) \/ ReadQuality(k) \/ ReadPublish(k)
    BY <2>3, PendingKeeps
    DEF CreateAiTask, ReadQuality, ReadPublish, Goto, At, tool, queue
  <2>4. CASE ApplyPipelineArtifacts(k)
    <3>1. \A j \in TaskId : "PENDING" \notin revs'[j]
      BY <2>4 DEF ApplyPipelineArtifacts, Approved, ApproveAll
    <3> QED
      BY <3>1 DEF PendingInv
  <2>5. CASE SaveRevision(k)
    <3>1. \A j \in TaskId : Leads(j) => Leads(j)'
      BY <2>5 DEF SaveRevision, Goto, At, queue
    <3>2. \A j \in TaskId : "PENDING" \in revs'[j] => "PENDING" \in revs[j] \/ Leads(j)'
      BY <2>5 DEF SaveRevision, Goto, At, queue
    <3> QED
      BY <2>5, <3>1, <3>2, PendingQuiet DEF SaveRevision, tool
  <2>6. CASE ReadMeta(k) \/ WriteMeta(k) \/ FinishAiTask(k)
    BY <2>6, PendingKeeps DEF ReadMeta, WriteMeta, FinishAiTask, Goto, At, tool, queue
  <2>7. CASE EnqueueNextStage(k)
    <3>1. PICK j \in TaskId :
            /\ Continues(k, j)
            /\ state' = [state EXCEPT ![j] = "waiting", ![k] = "done"]
      BY <2>7 DEF EnqueueNextStage
    <3>2. state[k] = "active" /\ state[j] = "none" /\ j.run = k.run
      BY <2>7, <3>1, ContinuesFresh DEF EnqueueNextStage, At
    <3>3. \A i \in TaskId \ {k} : Leads(i) => Leads(i)'
      BY <2>7, <3>1, <3>2 DEF EnqueueNextStage, Completed, Leave, Goto
    <3> QED
      BY <2>7, <3>1, <3>2, <3>3, PendingContinues DEF EnqueueNextStage, Completed, tool
  <2>8. CASE Publish(k) \/ Fail(k)
    BY <2>8, PendingKeeps
    DEF Publish, Fail, AfterRejection, Completed, Leave, Goto, At, tool
  <2> QED
    BY <1>2, <2>1, <2>2, <2>3, <2>4, <2>5, <2>6, <2>7, <2>8 DEF Work
<1>3. ASSUME NEW k \in TaskId, Fault(k) PROVE PendingInv'
  <2>1. CASE Throw(k)
    BY <2>1, PendingKeeps DEF Throw, Goto, tool, queue
  <2>2. CASE ThrowUncaught(k) \/ Crash(k)
    BY <2>2, PendingKeeps
    DEF ThrowUncaught, Crash, AfterRejection, Stalled, Leave, Goto, tool
  <2>3. ASSUME NEW s, EnqueueThen(k, s), UNCHANGED <<tool, revs>>,
               \A i \in TaskId \ {k} : pc'[i] = pc[i]
        PROVE  PendingInv'
    <3>1. PICK j \in TaskId :
            /\ Continues(k, j)
            /\ state' = [state EXCEPT ![j] = "waiting", ![k] = s]
      BY <2>3 DEF EnqueueThen
    <3>2. state[k] = "active" /\ state[j] = "none" /\ j.run = k.run
      BY <2>3, <3>1, ContinuesFresh DEF EnqueueThen, At
    <3>3. \A i \in TaskId \ {k} : Leads(i) => Leads(i)'
      BY <2>3, <3>1, <3>2
    <3> QED
      BY <2>3, <3>1, <3>2, <3>3, PendingContinues DEF tool
  <2>4. CASE EnqueueThenThrow(k)
    BY <2>3, <2>4 DEF EnqueueThenThrow, Goto
  <2>5. CASE EnqueueThenCrash(k)
    BY <2>3, <2>5 DEF EnqueueThenCrash, Leave, Goto
  <2> QED
    BY <1>3, <2>1, <2>2, <2>4, <2>5 DEF Fault
<1>4. CASE Recrawl \/ DeleteTool
  BY <1>4, PendingKeeps DEF Recrawl, DeleteTool, queue
<1>5. CASE UNCHANGED vars
  BY <1>5, PendingKeeps DEF vars, tool, queue
<1> QED
  BY <1>1, <1>2, <1>3, <1>4, <1>5 DEF Next, Rest

\* saveRevision against the publish transaction, with whatever retries and other
\* runs in between: once the queues have drained, a revision is left PENDING only
\* in a run that was given up, or the tool is gone.
THEOREM NoRevisionForgotten == Spec => []NothingLeftPending
<1>1. Init => TypeInv /\ (AutoPublish => PendingInv)
  BY TypeInit DEF Init, PendingInv
<1>2. TypeInv /\ (AutoPublish => PendingInv) /\ [Next]_vars
        => (TypeInv /\ (AutoPublish => PendingInv))'
  BY TypeStep, PendingStep
<1>3. (AutoPublish => PendingInv) => NothingLeftPending
  BY DEF PendingInv, NothingLeftPending, Settled, Pending, Leads, Coming
<1> QED
  BY <1>1, <1>2, <1>3, PTL DEF Spec

-----------------------------------------------------------------------------
(* A run that is alone *)

\* No step makes a run alone again.
LEMMA AloneBefore ==
  ASSUME TypeInv, [Next]_vars, Alone'
  PROVE  /\ Alone /\ ~doubled' /\ recrawls' = recrawls
         /\ \A k \in TaskId : state[k] # "none" => state'[k] # "none"
<1> USE DEF TypeInv, TypeOK
<1>1. ASSUME recrawls' = recrawls, doubled => doubled',
             \A k \in TaskId : state[k] # "none" => state'[k] # "none"
      PROVE  Alone
  BY <1>1 DEF Alone, Started
<1>2. ~doubled' /\ recrawls' = 0
  BY DEF Alone
<1>3. ASSUME NEW r \in Runs, StartAiPipeline(r)
      PROVE  recrawls' = recrawls /\ doubled' = doubled
             /\ \A k \in TaskId : state[k] # "none" => state'[k] # "none"
  BY <1>3 DEF StartAiPipeline, budget, history
<1>4. ASSUME NEW k \in TaskId, Work(k)
      PROVE  recrawls' = recrawls /\ doubled' = doubled
             /\ \A j \in TaskId : state[j] # "none" => state'[j] # "none"
  <2>1. recrawls' = recrawls /\ doubled' = doubled
    BY <1>4 DEF Work, Take, TakeDeleted, CreateAiTask, ReadQuality, ReadPublish,
       ApplyPipelineArtifacts, SaveRevision, ReadMeta, WriteMeta, FinishAiTask,
       EnqueueNextStage, Publish, Completed, Fail, budget, history
  <2>2. \A j \in TaskId : state[j] # "none" => state'[j] # "none"
    BY <1>4, ContinuesFresh
    DEF Work, Take, TakeDeleted, CreateAiTask, ReadQuality, ReadPublish,
       ApplyPipelineArtifacts, SaveRevision, ReadMeta, WriteMeta, FinishAiTask,
       EnqueueNextStage, Publish, Fail, AfterRejection, queue
  <2> QED
    BY <2>1, <2>2
<1>5. ASSUME NEW k \in TaskId, Fault(k)
      PROVE  recrawls' = recrawls /\ doubled' = doubled
             /\ \A j \in TaskId : state[j] # "none" => state'[j] # "none"
  <2>1. ~EnqueueThenThrow(k) /\ ~EnqueueThenCrash(k)
    BY <1>2 DEF EnqueueThenThrow, EnqueueThenCrash, EnqueueThen
  <2> QED
    BY <1>5, <2>1
    DEF Fault, Throw, ThrowUncaught, Crash, AfterRejection, Stalled, queue, history
<1>6. ~Recrawl
  BY <1>2 DEF Recrawl
<1>7. CASE DeleteTool \/ UNCHANGED vars
  BY <1>1, <1>2, <1>7 DEF DeleteTool, vars, queue, budget, history
<1> QED
  BY <1>1, <1>2, <1>3, <1>4, <1>5, <1>6, <1>7 DEF Next, Rest

\* A step that stores nothing and adds no task.
LEMMA ChainQuiet ==
  ASSUME OneTask, \A k \in TaskId : Stored(k), UNCHANGED meta,
         \A k \in TaskId : state'[k] \in Pending => state[k] \in Pending,
         \A k \in TaskId : (At(k, "finish") \/ At(k, "next"))' /\ k.stage \in Generating
                             => At(k, "finish") \/ At(k, "next"),
         \A k \in TaskId : (At(k, "writeMeta") \/ At(k, "apply"))' =>
                             \/ snap'[k] = meta
                             \/ snap'[k] = snap[k] /\ (At(k, "writeMeta") \/ At(k, "apply")),
         \A k \in TaskId : At(k, "apply")' => At(k, "apply") \/ k.stage = PUBLISH
  PROVE  OneTask' /\ \A k \in TaskId : Stored(k)'
BY DEF OneTask, Stored

\* A step that enqueues j, and leaves nothing else in the queues.
LEMMA ChainAlone ==
  ASSUME NEW j \in TaskId, state'[j] = "waiting",
         \A k \in TaskId \ {j} : state'[k] \notin Pending,
         \A s \in Generating : s < j.stage => meta'.pipeline[s] = Own(j)
  PROVE  OneTask' /\ \A k \in TaskId : Stored(k)'
<1>1. OneTask'
  BY DEF OneTask
<1>2. ASSUME NEW k \in TaskId \ {j} PROVE Stored(k)'
  BY <1>2 DEF Stored, At, Pending
<1>3. Stored(j)'
  BY DEF Stored, At, Own
<1> QED
  BY <1>1, <1>2, <1>3

\* Restart from the beginning, or on to the next stage with one more artifact.
LEMMA ChainContinues ==
  ASSUME NEW k \in TaskId, NEW j \in TaskId, Continues(k, j), Stored(k), At(k, "next")
  PROVE  \A s \in Generating : s < j.stage => meta.pipeline[s] = Own(j)
<1>1. CASE k.stage = QUALITY /\ Restarts(k)
  BY <1>1, PipelineAssumption DEF Continues, IsNext, Unused, SUMMARY, Generating
<1>2. CASE ~(k.stage = QUALITY /\ Restarts(k))
  <2>1. Own(j) = Own(k) /\ j.stage = k.stage + 1
    BY <1>2 DEF Continues, IsNext, Unused, Own
  <2>2. ASSUME NEW s \in Generating, s < j.stage PROVE s < k.stage \/ s = k.stage
    BY <2>1, <2>2, PipelineAssumption DEF Generating, TaskId, Stages, PUBLISH
  <2> QED
    BY <2>1, <2>2 DEF Stored, At, Pending
<1> QED
  BY <1>1, <1>2

\* The publish transaction shows the artifacts that one task has read.
LEMMA ApplyShowsOne ==
  ASSUME TypeInv, NEW k \in TaskId, ApplyPipelineArtifacts(k), Stored(k)
  PROVE  \A s \in Generating : Shown(s)' = Own(k)
<1>1. k.stage = PUBLISH /\ snap[k] = meta /\ state[k] \in Pending
  BY DEF ApplyPipelineArtifacts, Stored, At, Pending
<1>2. \A s \in Generating : s < PUBLISH
  BY PipelineAssumption DEF Generating, PUBLISH
<1>3. \A s \in Generating : snap[k].pipeline[s] = Own(k) /\ Own(k) # None
  BY <1>1, <1>2, OwnType, NoneIsNoArtifact DEF Stored
<1>4. meta'.applied = Overlay(meta.applied, snap[k].pipeline, InMetadata)
  BY DEF ApplyPipelineArtifacts, TypeInv, TypeOK, Metadata
<1>5. ASSUME NEW s \in Generating PROVE Shown(s)' = Own(k)
  <2>1. CASE s \in InMetadata
    BY <1>3, <1>4, <2>1 DEF Shown, Overlay
  <2>2. CASE s \notin InMetadata
    BY <1>3, <2>2 DEF ApplyPipelineArtifacts, Shown, Overlay
  <2> QED
    BY <2>1, <2>2
<1> QED
  BY <1>5

LEMMA ChainStep == TypeInv /\ ChainInv /\ [Next]_vars => ChainInv'
<1> SUFFICES ASSUME TypeInv, ChainInv, [Next]_vars, Alone'
             PROVE  OneTask' /\ (\A k \in TaskId : Stored(k)') /\ PublishedComplete'
  BY DEF ChainInv
<1>a. /\ Alone /\ ~doubled' /\ recrawls' = recrawls
      /\ \A k \in TaskId : state[k] # "none" => state'[k] # "none"
  BY AloneBefore
<1>b. OneTask /\ (\A k \in TaskId : Stored(k)) /\ PublishedComplete
  BY <1>a DEF ChainInv
<1>c. ASSUME UNCHANGED <<toolStatus, column>>, meta'.applied = meta.applied
      PROVE  PublishedComplete'
  BY <1>a, <1>b, <1>c DEF PublishedComplete, Shown
<1> USE DEF TypeInv, TypeOK
<1>1. ASSUME NEW r \in Runs, StartAiPipeline(r) PROVE ChainInv'
  <2>1. PICK j \in TaskId :
          /\ IsNext(j, r, 0, SUMMARY)
          /\ state' = [state EXCEPT ![j] = "waiting"]
    BY <1>1 DEF StartAiPipeline
  <2>2. Started(r)'
    BY <2>1 DEF Started, IsNext, Unused
  <2>3. ASSUME NEW k \in TaskId, state[k] # "none" PROVE FALSE
    <3>1. k.run = r
      BY <1>a, <2>2, <2>3 DEF Alone, Started, TaskId
    <3> QED
      BY <1>1, <2>3, <3>1 DEF StartAiPipeline, Started
  <2>4. \A k \in TaskId \ {j} : state'[k] \notin Pending
    BY <2>1, <2>3 DEF Pending
  <2>5. \A s \in Generating : s < j.stage => meta'.pipeline[s] = Own(j)
    BY <2>1, PipelineAssumption DEF IsNext, Unused, SUMMARY, Generating
  <2>6. OneTask' /\ \A k \in TaskId : Stored(k)'
    BY <2>1, <2>4, <2>5, ChainAlone
  <2> QED
    BY <1>1, <1>c, <2>6 DEF StartAiPipeline, tool, ChainInv
<1>2. ASSUME NEW k \in TaskId, Work(k) PROVE ChainInv'
  <2>1. CASE Take(k) \/ TakeDeleted(k)
    <3>1. OneTask' /\ \A j \in TaskId : Stored(j)'
      BY <1>b, <2>1, ChainQuiet DEF Take, TakeDeleted, Goto, At, Pending, tool, locals
    <3> QED
      BY <1>c, <2>1, <3>1 DEF Take, TakeDeleted, tool, ChainInv
  <2>2. CASE CreateAiTask(k) \/ ReadQuality(k) \/ ReadPublish(k)
    <3>1. OneTask' /\ \A j \in TaskId : Stored(j)'
      BY <1>b, <2>2, ChainQuiet, StageFacts
      DEF CreateAiTask, ReadQuality, ReadPublish, Goto, At, tool, queue
    <3> QED
      BY <1>c, <2>2, <3>1 DEF CreateAiTask, ReadQuality, ReadPublish, tool, ChainInv
  <2>3. CASE ApplyPipelineArtifacts(k)
    <3>1. state[k] \in Pending /\ \A j \in TaskId \ {k} : state[j] \notin Pending
      BY <1>b, <2>3 DEF ApplyPipelineArtifacts, At, OneTask, Pending
    <3>2. meta'.pipeline = meta.pipeline
      BY <2>3 DEF ApplyPipelineArtifacts, Metadata
    <3>3. Stored(k)'
      BY <1>b, <2>3, <3>1, <3>2
      DEF ApplyPipelineArtifacts, Stored, At, Goto, Own, queue
    <3>4. \A j \in TaskId \ {k} : Stored(j)'
      BY <2>3, <3>1 DEF ApplyPipelineArtifacts, Stored, At, Pending, queue
    <3>5. OneTask'
      BY <1>b, <2>3 DEF ApplyPipelineArtifacts, OneTask, queue
    <3>6. PublishedComplete'
      BY <1>b, <2>3, ApplyShowsOne, OwnType DEF PublishedComplete
    <3> QED
      BY <3>3, <3>4, <3>5, <3>6 DEF ChainInv
  <2>4. CASE SaveRevision(k)
    <3>1. OneTask' /\ \A j \in TaskId : Stored(j)'
      BY <1>b, <2>4, ChainQuiet
      DEF SaveRevision, AfterRevise, Goto, At, tool, queue, locals
    <3> QED
      BY <1>c, <2>4, <3>1 DEF SaveRevision, tool, ChainInv
  <2>5. CASE ReadMeta(k) \/ FinishAiTask(k)
    <3>1. OneTask' /\ \A j \in TaskId : Stored(j)'
      BY <1>b, <2>5, ChainQuiet
      DEF ReadMeta, FinishAiTask, AfterFinish, Goto, At, tool, queue
    <3> QED
      BY <1>c, <2>5, <3>1 DEF ReadMeta, FinishAiTask, tool, ChainInv
  <2>6. CASE WriteMeta(k)
    <3>1. state[k] \in Pending /\ \A j \in TaskId \ {k} : state[j] \notin Pending
      BY <1>b, <2>6 DEF WriteMeta, At, OneTask, Pending
    <3>2. snap[k] = meta /\ meta' = Written(k)
      BY <1>b, <2>6 DEF WriteMeta, Stored
    <3>3. meta'.applied = meta.applied
      BY <3>2, WrittenFields
    <3>4. /\ k.stage \in Generating => meta'.pipeline[k.stage] = Own(k)
          /\ \A s \in Generating : s # k.stage => meta'.pipeline[s] = meta.pipeline[s]
      <4>1. meta.pipeline \in [Generating -> Artifact \union {None}]
        BY MetadataFields DEF Content
      <4>2. CASE k.stage \in Generating
        BY <3>2, <4>1, <4>2, WrittenFields
      <4>3. CASE k.stage \notin Generating
        BY <3>2, <4>3, WrittenFields
      <4> QED
        BY <4>2, <4>3
    <3>5. \A s \in Generating : s < k.stage => s # k.stage
      BY PipelineAssumption DEF Generating
    <3>6. Stored(k)'
      BY <1>b, <2>6, <3>1, <3>4, <3>5 DEF WriteMeta, AfterWrite, Stored, At, Goto, Own, queue
    <3>7. \A j \in TaskId \ {k} : Stored(j)'
      BY <2>6, <3>1 DEF WriteMeta, Stored, At, Pending, queue
    <3>8. OneTask'
      BY <1>b, <2>6 DEF WriteMeta, OneTask, queue
    <3> QED
      BY <1>c, <2>6, <3>3, <3>6, <3>7, <3>8 DEF WriteMeta, ChainInv
  <2>7. CASE EnqueueNextStage(k)
    <3>1. PICK j \in TaskId :
            /\ Continues(k, j)
            /\ state' = [state EXCEPT ![j] = "waiting", ![k] = "done"]
      BY <2>7 DEF EnqueueNextStage
    <3>2. At(k, "next") /\ UNCHANGED tool
      BY <2>7 DEF EnqueueNextStage, Completed
    <3>3. state[j] = "none" /\ j # k
      BY <3>1, <3>2, ContinuesFresh DEF At
    <3>4. \A i \in TaskId \ {j} : state'[i] \notin Pending
      BY <1>b, <3>1, <3>2, <3>3 DEF OneTask, Pending, At
    <3>5. \A s \in Generating : s < j.stage => meta'.pipeline[s] = Own(j)
      BY <1>b, <3>1, <3>2, ChainContinues DEF tool
    <3>6. OneTask' /\ \A i \in TaskId : Stored(i)'
      BY <3>1, <3>3, <3>4, <3>5, ChainAlone
    <3> QED
      BY <1>c, <3>2, <3>6 DEF tool, ChainInv
  <2>8. CASE Publish(k) \/ Fail(k)
    <3>1. OneTask' /\ \A j \in TaskId : Stored(j)'
      BY <1>b, <2>8, ChainQuiet
      DEF Publish, Fail, AfterRejection, Completed, Leave, Goto, At, Pending, tool
    <3> QED
      BY <1>c, <2>8, <3>1 DEF Publish, Fail, Completed, tool, ChainInv
  <2> QED
    BY <1>2, <2>1, <2>2, <2>3, <2>4, <2>5, <2>6, <2>7, <2>8 DEF Work
<1>3. ASSUME NEW k \in TaskId, Fault(k) PROVE ChainInv'
  <2>1. ~EnqueueThenThrow(k) /\ ~EnqueueThenCrash(k)
    BY <1>a DEF EnqueueThenThrow, EnqueueThenCrash, EnqueueThen
  <2>2. CASE Throw(k)
    <3>1. OneTask' /\ \A j \in TaskId : Stored(j)'
      BY <1>b, <2>2, ChainQuiet DEF Throw, Goto, At, tool, queue, locals
    <3> QED
      BY <1>c, <2>2, <3>1 DEF Throw, tool, ChainInv
  <2>3. CASE ThrowUncaught(k) \/ Crash(k)
    <3>1. OneTask' /\ \A j \in TaskId : Stored(j)'
      BY <1>b, <2>3, ChainQuiet
      DEF ThrowUncaught, Crash, AfterRejection, Stalled, Leave, Goto, At, Pending, tool
    <3> QED
      BY <1>c, <2>3, <3>1 DEF ThrowUncaught, Crash, tool, ChainInv
  <2> QED
    BY <1>3, <2>1, <2>2, <2>3 DEF Fault
<1>4. CASE Recrawl
  BY <1>4, <1>a DEF Recrawl
<1>5. CASE DeleteTool \/ UNCHANGED vars
  <2>1. OneTask' /\ \A j \in TaskId : Stored(j)'
    BY <1>b, <1>5, ChainQuiet DEF DeleteTool, vars, At, tool, queue, locals
  <2> QED
    BY <1>5, <1>c, <2>1 DEF DeleteTool, vars, tool, ChainInv
<1> QED
  BY <1>1, <1>2, <1>3, <1>4, <1>5 DEF Next, Rest, ChainInv

\* processStage and the publish transaction, for a run that has the tool for
\* itself: whatever is rejected, crashes and is retried, what is published is the
\* complete work of one round.
THEOREM PublishesOneRound == Spec => []PublishedComplete
<1>1. Init => TypeInv /\ ChainInv
  BY TypeInit DEF Init, ChainInv, OneTask, Stored, At, Pending, PublishedComplete
<1>2. TypeInv /\ ChainInv /\ [Next]_vars => (TypeInv /\ ChainInv)'
  BY TypeStep, ChainStep
<1>3. ChainInv => PublishedComplete
  BY DEF ChainInv, PublishedComplete
<1> QED
  BY <1>1, <1>2, <1>3, PTL DEF Spec

-----------------------------------------------------------------------------
(* AiReview: its inductive invariants *)

\* What an editor in the middle of a request has found.
FoundTask(e) ==
  /\ epc[e] # "idle" => etask[e] \in TaskId
  /\ epc[e] = "applyMeta" => etask[e].stage \in InMetadata

ReviewTypeInv == TypeInv /\ ReviewTypeOK /\ \A e \in Editors : FoundTask(e)

\* Without faults a task is executed once; up to saveRevision it has no revision.
Unrevised(k) ==
  \/ state[k] \in {"none", "waiting"}
  \/ state[k] = "active" /\ pc[k] \in {"create", "read", "revise"}

OnceInv ==
  /\ \A k \in TaskId : pc[k] \notin {"apply", "fail"}
  /\ \A k \in TaskId : Unrevised(k) => revs[k] = {}
  /\ \A e \in Editors : epc[e] # "idle" => revs[etask[e]] # {}
  /\ \A k \in clashed : revs[k] # {}

\* With revisions rs, edits ed and clashes cl, task k vouches for the content a of
\* stage s.
Vouches(rs, ed, cl, k, a, s) ==
  /\ Proposed(k, a, s)
  /\ \/ rs[k] = {"APPROVED"} /\ a.edited = (k \in ed)
     \/ k \in cl /\ "PENDING" \notin rs[k]
Vouched(rs, ed, cl, c) ==
  \A s \in Generating :
    c[s] \notin {None, CrawlText} => \E k \in TaskId : Vouches(rs, ed, cl, k, c[s], s)

\* Every copy of the applied content is vouched for: a worker or an editor may
\* write back the one it has read.
ShownInv ==
  /\ Vouched(revs, edited, clashed, meta.applied)
  /\ Vouched(revs, edited, clashed, column)
  /\ \A k \in TaskId : Vouched(revs, edited, clashed, snap[k].applied)
  /\ \A e \in Editors : Vouched(revs, edited, clashed, esnap[e].applied)

ManualInv == OnceInv /\ ShownInv

-----------------------------------------------------------------------------
(* The types of the requests *)

LEMMA PayloadType ==
  ASSUME ReviewTypeInv, NEW e \in Editors, epc[e] # "idle"
  PROVE  Payload(e) \in Artifact
BY DEF ReviewTypeInv, FoundTask, ReviewTypeOK, Payload, Own, Artifact, TaskId

\* The rest of the pipeline does not see an editor's write.
LEMMA EditorKeepsPipeline ==
  ASSUME TypeInv, UNCHANGED elsewhere,
         toolStatus' \in ToolStatuses, meta' \in Metadata, column' \in Columns,
         revs' \in [TaskId -> SUBSET RevStatuses]
  PROVE  TypeInv'
BY DEF TypeInv, TypeOK, Budgeted, elsewhere, queue, locals, budget, history

LEMMA DecideType ==
  ASSUME ReviewTypeInv, NEW e \in Editors, epc[e] # "idle",
         NEW s \in RevStatuses, Decide(e, s)
  PROVE  /\ revs' \in [TaskId -> SUBSET RevStatuses]
         /\ epc' \in [Editors -> EditorPcs]
         /\ etask' \in [Editors -> TaskId \union {NoTask}]
         /\ epayload' \in [Editors -> BOOLEAN]
         /\ esnap' \in [Editors -> Metadata]
         /\ clashed' \subseteq TaskId
         /\ \A d \in Editors : FoundTask(d)'
<1> USE DEF ReviewTypeInv, ReviewTypeOK, FoundTask
<1>1. etask[e] \in TaskId
  OBVIOUS
<1>2. revs' \in [TaskId -> SUBSET RevStatuses]
  BY <1>1 DEF Decide, TypeInv, TypeOK
<1>3. clashed' \subseteq TaskId
  BY <1>1 DEF Decide, NoteClash
<1>4. /\ epc' \in [Editors -> EditorPcs]
      /\ etask' \in [Editors -> TaskId \union {NoTask}]
      /\ epayload' \in [Editors -> BOOLEAN]
      /\ esnap' \in [Editors -> Metadata]
  BY BlankType DEF Decide, Answer, EditorPcs
<1>5. \A d \in Editors : FoundTask(d)'
  BY DEF Decide, Answer
<1> QED
  BY <1>2, <1>3, <1>4, <1>5

LEMMA ReviewTypeInit == ReviewInit => ReviewTypeInv
BY TypeInit, BlankType, ReviewAssumption
DEF ReviewInit, ReviewTypeInv, ReviewTypeOK, TypeInv, FoundTask, EditorPcs

LEMMA ReviewTypeStep ==
  ReviewTypeInv /\ [ReviewNext]_<<vars, review>> => ReviewTypeInv'
<1> SUFFICES ASSUME ReviewTypeInv, [ReviewNext]_<<vars, review>>
             PROVE  ReviewTypeInv'
  OBVIOUS
<1>1. ASSUME [Next]_vars, UNCHANGED review PROVE ReviewTypeInv'
  <2>1. TypeInv'
    BY <1>1, TypeStep DEF ReviewTypeInv
  <2> QED
    BY <1>1, <2>1 DEF ReviewTypeInv, ReviewTypeOK, FoundTask, TypeInv, review, editor
<1>2. ASSUME NEW e \in Editors, Edit(e) PROVE ReviewTypeInv'
  <2>1. ASSUME NEW k \in TaskId, NEW op \in {"approve", "reject", "edit"},
               FindRevision(e, k, op)
        PROVE  ReviewTypeInv'
    <3>1. TypeInv'
      BY <2>1, TypeStep DEF FindRevision, ReviewTypeInv
    <3>2. requests' \in 0..MaxRequests
      BY <2>1, ReviewAssumption DEF FindRevision, Request, ReviewTypeInv, ReviewTypeOK
    <3>3. /\ epc' \in [Editors -> EditorPcs]
          /\ etask' \in [Editors -> TaskId \union {NoTask}]
          /\ epayload' \in [Editors -> BOOLEAN]
      BY <2>1 DEF FindRevision, ReviewTypeInv, ReviewTypeOK, EditorPcs
    <3>4. \A d \in Editors : FoundTask(d)'
      BY <2>1 DEF FindRevision, ReviewTypeInv, ReviewTypeOK, FoundTask
    <3> QED
      BY <2>1, <3>1, <3>2, <3>3, <3>4
      DEF FindRevision, ReviewTypeInv, ReviewTypeOK, TypeInv
  <2>2. ASSUME NEW s \in RevStatuses, Decide(e, s), epc[e] # "idle",
               UNCHANGED <<elsewhere, toolStatus, requests, edited>>,
               meta' \in Metadata, column' \in Columns
        PROVE  ReviewTypeInv'
    <3>1. TypeInv'
      BY <2>2, DecideType, EditorKeepsPipeline DEF ReviewTypeInv, TypeInv, TypeOK
    <3> QED
      BY <2>2, <3>1, DecideType DEF ReviewTypeInv, ReviewTypeOK, TypeInv
  <2>3. CASE ApproveColumns(e)
    <3>1. column' \in Columns
      BY <2>3, PayloadType
      DEF ApproveColumns, EditorAt, Columns, ReviewTypeInv, TypeInv, TypeOK
    <3> QED
      BY <2>2, <2>3, <3>1
      DEF ApproveColumns, EditorAt, RevStatuses, ReviewTypeInv, TypeInv, TypeOK
  <2>4. CASE ApproveMark(e) \/ Reject(e)
    BY <2>2, <2>4
    DEF ApproveMark, Reject, EditorAt, RevStatuses, ReviewTypeInv, TypeInv, TypeOK
  <2>5. CASE ApproveReadMeta(e)
    <3>1. TypeInv'
      BY <2>5, TypeStep DEF ApproveReadMeta, ReviewTypeInv
    <3> QED
      BY <2>5, <3>1
      DEF ApproveReadMeta, EditorAt, EditorPcs, ReviewTypeInv, ReviewTypeOK, FoundTask,
          TypeInv, TypeOK
  <2>6. CASE ApproveWriteMeta(e)
    <3>1. meta' \in Metadata
      BY <2>6, PayloadType, PipelineAssumption
      DEF ApproveWriteMeta, EditorAt, Metadata, Content, ReviewTypeInv, ReviewTypeOK
    <3> QED
      BY <2>2, <2>6, <3>1
      DEF ApproveWriteMeta, EditorAt, RevStatuses, ReviewTypeInv, TypeInv, TypeOK
  <2>7. CASE UpdateRevisionPayload(e)
    <3>1. TypeInv'
      BY <2>7, TypeStep DEF UpdateRevisionPayload, ReviewTypeInv
    <3> QED
      BY <2>7, <3>1, BlankType
      DEF UpdateRevisionPayload, NoteClash, Answer, EditorAt, EditorPcs, ReviewTypeInv,
          ReviewTypeOK, FoundTask, TypeInv
  <2> QED
    BY <1>2, <2>1, <2>3, <2>4, <2>5, <2>6, <2>7 DEF Edit
<1>3. ASSUME NEW s \in ToolStatuses, SetStatus(s) PROVE ReviewTypeInv'
  <2>1. TypeInv'
    BY <1>3, EditorKeepsPipeline
    DEF SetStatus, elsewhere, ReviewTypeInv, TypeInv, TypeOK
  <2>2. requests' \in 0..MaxRequests
    BY <1>3, ReviewAssumption DEF SetStatus, Request, ReviewTypeInv, ReviewTypeOK
  <2> QED
    BY <1>3, <2>1, <2>2
    DEF SetStatus, ReviewTypeInv, ReviewTypeOK, FoundTask, TypeInv, editor
<1>4. CASE UNCHANGED <<vars, review>>
  BY <1>1, <1>4
<1>5. CASE ReviewNext
  BY <1>1, <1>2, <1>3, <1>5 DEF ReviewNext, PublishTool, ArchiveTool, ToolStatuses
<1> QED
  BY <1>4, <1>5

\* The type invariant of the pipeline holds with editors beside it, and an editor
\* in the middle of a request has a revision in hand.
THEOREM ReviewTypeCorrect == ReviewSpec => []ReviewTypeOK
<1>1. ReviewTypeInv /\ [ReviewNext]_<<vars, review>> => ReviewTypeInv'
  BY ReviewTypeStep
<1>2. ReviewTypeInv => ReviewTypeOK
  BY DEF ReviewTypeInv
<1> QED
  BY <1>1, <1>2, ReviewTypeInit, PTL DEF ReviewSpec

-----------------------------------------------------------------------------
(* Each revision once: the executions without faults *)

\* A step that adds no revision keeps OnceInv, if no task goes back.
LEMMA OnceQuiet ==
  ASSUME OnceInv, revs' = revs, UNCHANGED <<editor, clashed>>,
         \A k \in TaskId : pc'[k] \notin {"apply", "fail"},
         \A k \in TaskId : Unrevised(k)' => Unrevised(k)
  PROVE  OnceInv'
BY DEF OnceInv, editor

LEMMA OnceSaves ==
  ASSUME ReviewTypeInv, OnceInv, ~AutoPublish, UNCHANGED review,
         NEW k \in TaskId, SaveRevision(k)
  PROVE  revs[k] = {} /\ OnceInv'
<1> USE DEF ReviewTypeInv, TypeInv, TypeOK
<1>1. revs[k] = {} /\ revs' = [revs EXCEPT ![k] = {"PENDING"}]
  BY DEF SaveRevision, OnceInv, Unrevised, At
<1>2. \A j \in TaskId : pc'[j] \notin {"apply", "fail"}
  BY DEF SaveRevision, AfterRevise, Goto, OnceInv
<1>3. \A j \in TaskId : Unrevised(j)' => Unrevised(j) /\ j # k
  BY DEF SaveRevision, AfterRevise, Goto, At, Unrevised, queue
<1>4. \A j \in TaskId : revs[j] # {} => revs'[j] # {}
  BY <1>1
<1>5. \A j \in TaskId : Unrevised(j)' => revs'[j] = {}
  BY <1>1, <1>3 DEF OnceInv
<1>6. \A e \in Editors : epc'[e] # "idle" => revs'[etask'[e]] # {}
  BY <1>4 DEF OnceInv, FoundTask, review, editor
<1>7. \A j \in clashed' : revs'[j] # {}
  BY <1>4 DEF OnceInv, ReviewTypeOK, review
<1> QED
  BY <1>1, <1>2, <1>5, <1>6, <1>7 DEF OnceInv

LEMMA NoFault == TypeInv => ~DeleteTool /\ \A k \in TaskId : ~Fault(k)
BY ReviewAssumption
DEF TypeInv, TypeOK, Fault, Throw, ThrowUncaught, Crash, EnqueueThenThrow,
    EnqueueThenCrash, EnqueueThen, DeleteTool

LEMMA OnceStep ==
  ASSUME ReviewTypeInv, OnceInv, ~AutoPublish, [Next]_vars, UNCHANGED review
  PROVE  OnceInv'
<1> USE DEF ReviewTypeInv, TypeInv, TypeOK
<1>0. UNCHANGED <<editor, clashed>> /\ \A k \in TaskId : pc[k] \notin {"apply", "fail"}
  BY DEF review, OnceInv
<1>1. ASSUME NEW r \in Runs, StartAiPipeline(r) PROVE OnceInv'
  BY <1>0, <1>1, OnceQuiet DEF StartAiPipeline, IsNext, Unused, Unrevised
<1>2. ASSUME NEW k \in TaskId, Work(k) PROVE OnceInv'
  <2>1. CASE Take(k) \/ TakeDeleted(k)
    BY <1>0, <2>1, OnceQuiet DEF Take, TakeDeleted, Goto, Unrevised
  <2>2. CASE CreateAiTask(k) \/ ReadQuality(k) \/ ReadPublish(k)
    BY <1>0, <2>2, OnceQuiet
    DEF CreateAiTask, ReadQuality, ReadPublish, Goto, At, Unrevised, queue
  <2>3. CASE ApplyPipelineArtifacts(k)
    BY <1>0, <2>3 DEF ApplyPipelineArtifacts, At
  <2>4. CASE SaveRevision(k)
    BY <2>4, OnceSaves
  <2>5. CASE ReadMeta(k) \/ WriteMeta(k) \/ FinishAiTask(k)
    BY <1>0, <2>5, OnceQuiet
    DEF ReadMeta, WriteMeta, AfterWrite, FinishAiTask, AfterFinish, Goto, Unrevised, queue
  <2>6. CASE EnqueueNextStage(k)
    BY <1>0, <2>6, ContinuesFresh, OnceQuiet
    DEF EnqueueNextStage, Completed, Leave, Goto, Unrevised
  <2>7. CASE Publish(k)
    BY <1>0, <2>7, OnceQuiet DEF Publish, Completed, Leave, Goto, Unrevised
  <2>8. CASE Fail(k)
    BY <1>0, <2>8 DEF Fail, At
  <2> QED
    BY <1>2, <2>1, <2>2, <2>3, <2>4, <2>5, <2>6, <2>7, <2>8 DEF Work
<1>3. CASE Recrawl
  BY <1>0, <1>3, OnceQuiet DEF Recrawl, Unrevised, queue
<1>4. CASE UNCHANGED vars
  BY <1>0, <1>4, OnceQuiet DEF vars, Unrevised, queue
<1> QED
  BY <1>1, <1>2, <1>3, <1>4, NoFault DEF Next, Rest

-----------------------------------------------------------------------------
(* What is shown is vouched for *)

Remains(rs, ed, cl, rt, et, ct) ==
  \A k \in TaskId : \A a, s :
    Vouches(rs, ed, cl, k, a, s) => Vouches(rt, et, ct, k, a, s)

\* Then whatever copy a step makes is vouched for like its original.
LEMMA RemainsVouched ==
  ASSUME NEW rs, NEW ed, NEW cl, NEW rt, NEW et, NEW ct,
         Remains(rs, ed, cl, rt, et, ct)
  PROVE  \A c : Vouched(rs, ed, cl, c) => Vouched(rt, et, ct, c)
BY DEF Remains, Vouched

LEMMA BlankVouched ==
  \A rs, ed, cl : Vouched(rs, ed, cl, Blank) /\ Vouched(rs, ed, cl, NoMeta.applied)
BY DEF Vouched, Blank, NoMeta

LEMMA RemainsItself == Remains(revs, edited, clashed, revs, edited, clashed)
BY DEF Remains

\* A step that writes only copies of the applied content.
LEMMA ShownCopies ==
  ASSUME ShownInv, Remains(revs, edited, clashed, revs', edited', clashed'),
         column' = column \/ Vouched(revs', edited', clashed', column'),
         meta'.applied = meta.applied \/ meta' = NoMeta
           \/ (\E k \in TaskId : meta'.applied = snap[k].applied),
         \A k \in TaskId : snap'[k] \in {snap[k], meta, NoMeta},
         \A e \in Editors : esnap'[e] \in {esnap[e], meta, NoMeta}
  PROVE  ShownInv'
<1> DEFINE Before(c) == Vouched(revs, edited, clashed, c)
           After(c) == Vouched(revs', edited', clashed', c)
<1>1. \A c : Before(c) => After(c)
  BY RemainsVouched
<1>2. After(NoMeta.applied)
  BY BlankVouched
<1>3. Before(meta.applied) /\ Before(column)
  BY DEF ShownInv
<1>4. \A k \in TaskId : Before(snap[k].applied)
  BY DEF ShownInv
<1>5. \A e \in Editors : Before(esnap[e].applied)
  BY DEF ShownInv
<1> HIDE DEF Before, After
<1>6. After(meta'.applied)
  BY <1>1, <1>2, <1>3, <1>4
<1>9. Vouched(revs', edited', clashed', column')
  BY <1>1, <1>3 DEF Before, After
<1>7. \A k \in TaskId : After(snap'[k].applied)
  BY <1>1, <1>2, <1>3, <1>4
<1>8. \A e \in Editors : After(esnap'[e].applied)
  BY <1>1, <1>2, <1>3, <1>5
<1> QED
  BY <1>6, <1>7, <1>8, <1>9 DEF After, ShownInv

LEMMA SaveRemains ==
  ASSUME ReviewTypeInv, OnceInv, ~AutoPublish, UNCHANGED review,
         NEW k \in TaskId, SaveRevision(k)
  PROVE  Remains(revs, edited, clashed, revs', edited', clashed')
<1>1. revs[k] = {} /\ revs' \in [TaskId -> SUBSET RevStatuses]
      /\ \A j \in TaskId : j # k => revs'[j] = revs[j]
  BY OnceSaves
  DEF SaveRevision, ReviewTypeInv, TypeInv, TypeOK, RevStatuses
<1>2. k \notin clashed /\ edited' = edited /\ clashed' = clashed
  BY <1>1 DEF OnceInv, review
<1> QED
  BY <1>1, <1>2 DEF Remains, Vouches

\* The workers write back what they read, and approve nothing.
LEMMA ShownPipeline ==
  ASSUME ReviewTypeInv, OnceInv, ShownInv, ~AutoPublish, [Next]_vars, UNCHANGED review
  PROVE  ShownInv'
<1> USE DEF ReviewTypeInv, TypeInv, TypeOK
<1>0. /\ edited' = edited /\ clashed' = clashed /\ esnap' = esnap
      /\ \A k \in TaskId : pc[k] \notin {"apply", "fail"}
  BY DEF review, editor, OnceInv
<1>q. ASSUME revs' = revs,
             column' = column \/ Vouched(revs', edited', clashed', column'),
             meta'.applied = meta.applied \/ meta' = NoMeta
               \/ (\E k \in TaskId : meta'.applied = snap[k].applied),
             \A k \in TaskId : snap'[k] \in {snap[k], meta, NoMeta}
      PROVE  ShownInv'
  BY <1>0, <1>q, RemainsItself, ShownCopies
<1>1. ASSUME NEW r \in Runs, StartAiPipeline(r) PROVE ShownInv'
  BY <1>1, <1>q DEF StartAiPipeline, tool, locals
<1>2. ASSUME NEW k \in TaskId, Work(k) PROVE ShownInv'
  <2>1. CASE Take(k) \/ TakeDeleted(k) \/ CreateAiTask(k) \/ FinishAiTask(k)
    BY <2>1, <1>q DEF Take, TakeDeleted, CreateAiTask, FinishAiTask, tool, locals
  <2>2. CASE ReadQuality(k) \/ ReadPublish(k) \/ ReadMeta(k)
    BY <2>2, <1>q DEF ReadQuality, ReadPublish, ReadMeta, tool
  <2>3. CASE ApplyPipelineArtifacts(k)
    BY <1>0, <2>3 DEF ApplyPipelineArtifacts, At
  <2>4. CASE SaveRevision(k)
    BY <1>0, <2>4, SaveRemains, ShownCopies DEF SaveRevision, tool, locals
  <2>5. CASE WriteMeta(k)
    BY <2>5, <1>q, WrittenFields DEF WriteMeta, locals
  <2>6. CASE EnqueueNextStage(k) \/ Publish(k)
    BY <2>6, <1>q DEF EnqueueNextStage, Publish, Completed, Leave, tool
  <2>7. CASE Fail(k)
    BY <1>0, <2>7 DEF Fail, At
  <2> QED
    BY <1>2, <2>1, <2>2, <2>3, <2>4, <2>5, <2>6, <2>7 DEF Work
<1>3. CASE Recrawl
  <2>1. Vouched(revs', edited', clashed', column')
    BY <1>0, <1>3 DEF Recrawl, Recrawled, Columns, Vouched, ShownInv
  <2> QED
    BY <1>3, <1>q, <2>1 DEF Recrawl, locals
<1>4. CASE UNCHANGED vars
  BY <1>4, <1>q DEF vars, tool, locals
<1> QED
  BY <1>1, <1>2, <1>3, <1>4, NoFault DEF Next, Rest

\* An editor decides on the revision read, or the clash is noted.
LEMMA DecideRemains ==
  ASSUME ReviewTypeInv, NEW e \in Editors, epc[e] # "idle",
         NEW s \in {"APPROVED", "REJECTED"}, Decide(e, s), edited' = edited
  PROVE  /\ Remains(revs, edited, clashed, revs', edited', clashed')
         /\ s = "APPROVED" =>
              \A g : etask[e].stage = g =>
                Vouches(revs', edited', clashed', etask[e], Payload(e), g)
<1> DEFINE k == etask[e]
<1> USE DEF ReviewTypeInv, ReviewTypeOK, TypeInv, TypeOK, FoundTask
<1>1. k \in TaskId
  OBVIOUS
<1>2. revs' = [revs EXCEPT ![k] = {s}] /\ clashed \subseteq clashed'
  BY DEF Decide, NoteClash
<1>3. revs[k] # {"PENDING"} \/ epayload[e] # (k \in edited) => k \in clashed'
  BY DEF Decide, NoteClash, Stale
<1>4. "PENDING" \notin revs'[k]
  BY <1>1, <1>2
<1>5. ASSUME NEW j \in TaskId, NEW a, NEW g, Vouches(revs, edited, clashed, j, a, g)
      PROVE  Vouches(revs', edited', clashed', j, a, g)
  <2>1. CASE j = k
    <3>1. k \in clashed'
      BY <1>2, <1>3, <1>5, <2>1 DEF Vouches
    <3> QED
      BY <1>4, <1>5, <2>1, <3>1 DEF Vouches
  <2>2. CASE j # k
    BY <1>1, <1>2, <1>5, <2>2 DEF Vouches
  <2> QED
    BY <2>1, <2>2
<1>6. ASSUME s = "APPROVED", NEW g, k.stage = g
      PROVE  Vouches(revs', edited', clashed', k, Payload(e), g)
  <2>1. /\ Payload(e).run = k.run /\ Payload(e).round = k.round
        /\ Payload(e).edited = epayload[e]
    BY DEF Payload, Own
  <2>2. revs'[k] = {"APPROVED"}
    BY <1>1, <1>2, <1>6
  <2>3. CASE epayload[e] = (k \in edited)
    BY <1>6, <2>1, <2>2, <2>3 DEF Vouches, Proposed
  <2>4. CASE epayload[e] # (k \in edited)
    BY <1>3, <1>4, <1>6, <2>1, <2>4 DEF Vouches, Proposed
  <2> QED
    BY <2>3, <2>4
<1> QED
  BY <1>5, <1>6 DEF Remains

LEMMA OnceDecides ==
  ASSUME ReviewTypeInv, OnceInv, NEW e \in Editors, epc[e] # "idle",
         NEW s, Decide(e, s), UNCHANGED <<pc, state>>
  PROVE  OnceInv'
<1> DEFINE k == etask[e]
<1> USE DEF ReviewTypeInv, ReviewTypeOK, TypeInv, TypeOK, FoundTask
<1>1. /\ k \in TaskId /\ revs[k] # {}
      /\ revs' = [revs EXCEPT ![k] = {s}]
      /\ clashed' \subseteq clashed \union {k}
  BY DEF Decide, NoteClash, OnceInv
<1>2. \A j \in TaskId : Unrevised(j)' => Unrevised(j)
  BY DEF Unrevised
<1>3. \A j \in TaskId : Unrevised(j)' => revs'[j] = {}
  BY <1>1, <1>2 DEF OnceInv
<1>4. \A d \in Editors : epc'[d] # "idle" => epc[d] # "idle" /\ etask'[d] = etask[d]
  BY DEF Decide, Answer
<1>5. \A j \in TaskId : revs[j] # {} => revs'[j] # {}
  BY <1>1
<1>6. \A d \in Editors : epc'[d] # "idle" => revs'[etask'[d]] # {}
  BY <1>4, <1>5 DEF OnceInv
<1>7. \A j \in clashed' : revs'[j] # {}
  BY <1>1, <1>5 DEF OnceInv
<1> QED
  BY <1>3, <1>6, <1>7 DEF OnceInv

\* Before an edit the revision was PENDING and unread, or a clash is noted.
LEMMA EditRemains ==
  ASSUME ReviewTypeInv, OnceInv, NEW e \in Editors, UpdateRevisionPayload(e)
  PROVE  Remains(revs, edited, clashed, revs', edited', clashed')
<1> DEFINE k == etask[e]
<1>1. /\ k \in TaskId /\ revs' = revs
      /\ edited' = edited \union {k}
      /\ clashed \subseteq clashed'
  BY DEF UpdateRevisionPayload, EditorAt, NoteClash, ReviewTypeInv, FoundTask, vars
<1>2. revs[k] # {"PENDING"} => k \in clashed'
  BY DEF UpdateRevisionPayload, NoteClash, Stale
<1>3. ASSUME NEW j \in TaskId, NEW a, NEW g, Vouches(revs, edited, clashed, j, a, g)
      PROVE  Vouches(revs', edited', clashed', j, a, g)
  <2>1. CASE j = k
    BY <1>1, <1>2, <1>3, <2>1 DEF Vouches
  <2>2. CASE j # k
    <3>1. (j \in edited') = (j \in edited)
      BY <1>1, <2>2
    <3> QED
      BY <1>1, <1>3, <3>1 DEF Vouches
  <2> QED
    BY <2>1, <2>2
<1> QED
  BY <1>3 DEF Remains

LEMMA ManualInit == ReviewInit => ManualInv
BY BlankVouched
DEF ReviewInit, Init, ManualInv, OnceInv, ShownInv, NoMeta

LEMMA ManualStep ==
  ReviewTypeInv /\ ~AutoPublish /\ ManualInv /\ [ReviewNext]_<<vars, review>>
    => ManualInv'
<1> SUFFICES ASSUME ReviewTypeInv, ~AutoPublish, ManualInv,
                    [ReviewNext]_<<vars, review>>
             PROVE  ManualInv'
  OBVIOUS
<1>0. OnceInv /\ ShownInv
  BY DEF ManualInv
<1>1. ASSUME [Next]_vars, UNCHANGED review PROVE ManualInv'
  BY <1>0, <1>1, OnceStep, ShownPipeline DEF ManualInv
<1>2. ASSUME NEW e \in Editors, Edit(e) PROVE ManualInv'
  <2>1. ASSUME NEW k \in TaskId, NEW op \in {"approve", "reject", "edit"},
               FindRevision(e, k, op)
        PROVE  ManualInv'
    <3>1. OnceInv'
      <4>1. \A j \in TaskId : Unrevised(j)' => Unrevised(j)
        BY <2>1 DEF FindRevision, Unrevised, vars, queue
      <4> QED
        BY <1>0, <2>1, <4>1
        DEF FindRevision, OnceInv, ReviewTypeInv, ReviewTypeOK, vars
    <3>2. ShownInv'
      BY <1>0, <2>1, RemainsItself, ShownCopies DEF FindRevision, vars, tool, locals
    <3> QED
      BY <3>1, <3>2 DEF ManualInv
  <2>2. ASSUME NEW s \in {"APPROVED", "REJECTED"}, epc[e] # "idle", Decide(e, s),
               UNCHANGED <<elsewhere, edited>>
        PROVE  /\ OnceInv'
               /\ \A c : Vouched(revs, edited, clashed, c) =>
                           Vouched(revs', edited', clashed', c)
               /\ \A k \in TaskId : Vouched(revs', edited', clashed', snap'[k].applied)
               /\ \A d \in Editors : Vouched(revs', edited', clashed', esnap'[d].applied)
    <3>1. OnceInv'
      BY <1>0, <2>2, OnceDecides DEF elsewhere, queue
    <3>2. \A c : Vouched(revs, edited, clashed, c) => Vouched(revs', edited', clashed', c)
      BY <2>2, DecideRemains, RemainsVouched
    <3>3. snap' = snap /\ \A d \in Editors : esnap'[d] \in {esnap[d], NoMeta}
      BY <2>2 DEF elsewhere, locals, Decide, Answer, ReviewTypeInv, ReviewTypeOK
    <3> QED
      BY <1>0, <3>1, <3>2, <3>3, BlankVouched DEF ShownInv
  <2>3. CASE ApproveMark(e) \/ Reject(e)
    BY <1>0, <2>2, <2>3 DEF ApproveMark, Reject, EditorAt, ManualInv, ShownInv
  <2>4. CASE ApproveColumns(e)
    <3> DEFINE k == etask[e]
    <3>1. /\ Decide(e, "APPROVED") /\ epc[e] # "idle" /\ UNCHANGED <<elsewhere, edited>>
          /\ column' = [column EXCEPT ![k.stage] = Payload(e)] /\ meta' = meta
      BY <2>4 DEF ApproveColumns, EditorAt
    <3>2. Vouches(revs', edited', clashed', k, Payload(e), k.stage) /\ k \in TaskId
      BY <3>1, DecideRemains DEF ReviewTypeInv, FoundTask
    <3>3. Vouched(revs', edited', clashed', column)
      BY <1>0, <2>2, <3>1 DEF ShownInv
    <3>4. Vouched(revs', edited', clashed', column')
      BY <3>1, <3>2, <3>3 DEF Vouched, ReviewTypeInv, TypeInv, TypeOK, Columns
    <3> QED
      BY <1>0, <2>2, <3>1, <3>4 DEF ManualInv, ShownInv
  <2>5. CASE ApproveReadMeta(e)
    <3>1. OnceInv'
      <4>1. \A j \in TaskId : Unrevised(j)' => Unrevised(j)
        BY <2>5 DEF ApproveReadMeta, Unrevised, vars, queue
      <4> QED
        BY <1>0, <2>5, <4>1
        DEF ApproveReadMeta, EditorAt, OnceInv, ReviewTypeInv, ReviewTypeOK, vars
    <3>2. ShownInv'
      BY <1>0, <2>5, RemainsItself, ShownCopies
      DEF ApproveReadMeta, vars, tool, locals, ReviewTypeInv, ReviewTypeOK
    <3> QED
      BY <3>1, <3>2 DEF ManualInv
  <2>6. CASE ApproveWriteMeta(e)
    <3> DEFINE k == etask[e]
    <3>1. /\ Decide(e, "APPROVED") /\ epc[e] # "idle" /\ UNCHANGED <<elsewhere, edited>>
          /\ meta' = [esnap[e] EXCEPT !.applied[k.stage] = Payload(e)] /\ column' = column
      BY <2>6 DEF ApproveWriteMeta, EditorAt
    <3>2. Vouches(revs', edited', clashed', k, Payload(e), k.stage) /\ k \in TaskId
      BY <3>1, DecideRemains DEF ReviewTypeInv, FoundTask
    <3>3. Vouched(revs', edited', clashed', esnap[e].applied)
      BY <1>0, <2>2, <3>1 DEF ShownInv
    <3>4. meta'.applied = [esnap[e].applied EXCEPT ![k.stage] = Payload(e)]
          /\ esnap[e].applied \in Content
      BY <3>1 DEF ReviewTypeInv, ReviewTypeOK, Metadata
    <3>5. Vouched(revs', edited', clashed', meta'.applied)
      BY <3>2, <3>3, <3>4 DEF Vouched, Content
    <3> QED
      BY <1>0, <2>2, <3>1, <3>5 DEF ManualInv, ShownInv
  <2>7. CASE UpdateRevisionPayload(e)
    <3>1. OnceInv'
      <4>1. \A j \in TaskId : Unrevised(j)' => Unrevised(j)
        BY <2>7 DEF UpdateRevisionPayload, Unrevised, vars, queue
      <4>2. clashed' \subseteq clashed \union {etask[e]} /\ revs[etask[e]] # {}
        BY <1>0, <2>7 DEF UpdateRevisionPayload, NoteClash, OnceInv, EditorAt
      <4>3. \A d \in Editors : epc'[d] # "idle" => epc[d] # "idle" /\ etask'[d] = etask[d]
        BY <2>7 DEF UpdateRevisionPayload, Answer, ReviewTypeInv, ReviewTypeOK
      <4> QED
        BY <1>0, <2>7, <4>1, <4>2, <4>3 DEF UpdateRevisionPayload, OnceInv, vars
    <3>2. ShownInv'
      BY <1>0, <2>7, EditRemains, ShownCopies
      DEF UpdateRevisionPayload, Answer, vars, tool, locals, ReviewTypeInv, ReviewTypeOK
    <3> QED
      BY <3>1, <3>2 DEF ManualInv
  <2> QED
    BY <1>2, <2>1, <2>3, <2>4, <2>5, <2>6, <2>7 DEF Edit
<1>3. ASSUME NEW s, SetStatus(s) PROVE ManualInv'
  <2>1. UNCHANGED <<elsewhere, meta, column, revs, editor, edited, clashed>>
    BY <1>3 DEF SetStatus
  <2>2. OnceInv'
    BY <1>0, <2>1 DEF OnceInv, Unrevised, elsewhere, queue, editor
  <2>3. ShownInv'
    BY <1>0, <2>1 DEF ShownInv, elsewhere, locals, editor
  <2> QED
    BY <2>2, <2>3 DEF ManualInv
<1>4. CASE UNCHANGED <<vars, review>>
  BY <1>1, <1>4
<1>5. CASE ReviewNext
  BY <1>1, <1>2, <1>3, <1>5 DEF ReviewNext, PublishTool, ArchiveTool
<1> QED
  BY <1>4, <1>5

\* What an editor approves is an artifact, never a crawl's text.
LEMMA ReviewCrawlStep ==
  ReviewTypeInv /\ CrawlInv /\ [ReviewNext]_<<vars, review>> => CrawlInv'
<1> SUFFICES ASSUME ReviewTypeInv, CrawlInv, [ReviewNext]_<<vars, review>>
             PROVE  CrawlInv'
  OBVIOUS
<1>1. CASE [Next]_vars
  BY <1>1, CrawlStep DEF ReviewTypeInv
<1>2. CASE UNCHANGED <<column, recrawls>>
  BY <1>2 DEF CrawlInv
<1>3. ASSUME NEW e \in Editors, ApproveColumns(e) PROVE CrawlInv'
  <2>1. Payload(e) # CrawlText
    BY <1>3, PayloadType, CrawlTextIsNoArtifact DEF ApproveColumns, EditorAt
  <2> QED
    BY <1>3, <2>1 DEF ApproveColumns, CrawlInv, elsewhere, budget, ReviewTypeInv, TypeInv,
       TypeOK, Columns
<1>4. ASSUME NEW e \in Editors, Edit(e), ~ApproveColumns(e)
      PROVE  UNCHANGED <<column, recrawls>>
  BY <1>4 DEF Edit, FindRevision, ApproveMark, ApproveReadMeta, ApproveWriteMeta, Reject,
     UpdateRevisionPayload, elsewhere, vars, tool, budget
<1>5. CASE PublishTool \/ ArchiveTool
  BY <1>2, <1>5 DEF PublishTool, ArchiveTool, SetStatus, elsewhere, budget
<1>6. CASE UNCHANGED <<vars, review>>
  BY <1>1, <1>6
<1> QED
  BY <1>1, <1>2, <1>3, <1>4, <1>5, <1>6 DEF ReviewNext

\* approve and updateRevisionPayload (ai-review.service.ts) beside a running
\* pipeline: without automatic publishing, whatever copies of the metadata the
\* workers and editors write back, all that is shown is what an approved revision
\* says, unless two editors clashed on that revision, or updateTool
\* (crawl-runtime.ts) overwrote the summary with a crawl's.
THEOREM OnlyApprovedByEditors == ReviewSpec => []ShownAsApproved
<1> DEFINE I == ReviewTypeInv /\ (~AutoPublish => ManualInv) /\ CrawlInv
<1>1. ReviewInit => I
  BY ReviewTypeInit, ManualInit, CrawlInit DEF ReviewInit
<1>2. I /\ [ReviewNext]_<<vars, review>> => I'
  BY ReviewTypeStep, ManualStep, ReviewCrawlStep
<1>3. I => ShownAsApproved
  <2> SUFFICES ASSUME ReviewTypeInv, ManualInv, CrawlInv,
                      NEW s \in Generating, Shown(s) # None, ~ByCrawl(s)
               PROVE  \E k \in TaskId :
                        /\ Proposed(k, Shown(s), s)
                        /\ Agrees(k, Shown(s)) \/ (k \in clashed /\ "PENDING" \notin revs[k])
    BY DEF ShownAsApproved
  <2>1. Shown(s) # CrawlText
    <3>1. meta.applied[s] # CrawlText
      BY CrawlTextIsNoArtifact, MetadataFields DEF ReviewTypeInv, TypeInv, TypeOK, Content
    <3> QED
      BY <3>1 DEF CrawlInv, ByCrawl, Shown
  <2> QED
    BY <2>1 DEF ManualInv, ShownInv, Vouched, Vouches, Shown, Agrees
<1> QED
  BY <1>1, <1>2, <1>3, PTL DEF ReviewSpec
=============================================================================
