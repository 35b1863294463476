----------------------------- MODULE WorkflowRun -----------------------------
(***************************************************************************)
(* The tool-publish workflow of one tool: packages/workflow.  Every time a *)
(* crawl normalizes the tool it opens a run; when a growth job has         *)
(* finished its work it completes the newest run that is still RUNNING, by *)
(* advancing it one step after the other until it is COMPLETED.            *)
(*                                                                         *)
(* advanceWorkflowRun reads currentStep and then writes currentStep + 1,   *)
(* in two statements, so growth jobs of the same tool overwrite each       *)
(* other's steps.  completeToolPublishWorkflow is a subroutine here: a     *)
(* caller enters it with CallComplete and goes on from "back" with Return. *)
(* The results and the log of a run are left out.                          *)
(***************************************************************************)
EXTENDS Naturals, Sequences

CONSTANTS
  Callers,    \* growth jobs that may complete a run
  Steps,      \* number of steps of DEFAULT_TOOL_PUBLISH_WORKFLOW
  MaxRuns     \* bound: runs of the tool

ASSUME WorkflowAssumption == Steps \in Nat \ {0} /\ MaxRuns \in Nat

VARIABLES
  runs,       \* the rows of workflow_runs of this tool, oldest first
  wpc,        \* of each caller: the await executed next in the subroutine
  runOf,      \* of each caller: currentRunId, 0 for none
  stepOf,     \* of each caller: the currentStep it has read
  \* History:
  looked      \* of each caller: the runs there were when it looked last

workflow == <<runs, wpc, runOf, stepOf, looked>>

WorkflowPcs == {"out", "find", "read", "write", "back"}
Run == [status : {"RUNNING", "COMPLETED"}, step : Nat]

NewRun == [status |-> "RUNNING", step |-> 0]

WorkflowInit ==
  /\ runs \in {<< >>, <<NewRun>>}
  /\ wpc = [k \in Callers |-> "out"]
  /\ runOf = [k \in Callers |-> 0]
  /\ stepOf = [k \in Callers |-> 0]
  /\ looked = [k \in Callers |-> 0]

-----------------------------------------------------------------------------
\* startToolPublishWorkflow, called by normalize.  Its failure is swallowed,
\* which is the same as not being called.
StartRun ==
  /\ Len(runs) < MaxRuns
  /\ runs' = Append(runs, NewRun)
  /\ UNCHANGED <<wpc, runOf, stepOf, looked>>

CallComplete(k) ==
  /\ wpc[k] = "out"
  /\ wpc' = [wpc EXCEPT ![k] = "find"]
  /\ UNCHANGED <<runs, runOf, stepOf, looked>>

Open == {r \in DOMAIN runs : runs[r].status = "RUNNING"}

\* Mutant of Chosen: orderBy createdAt "asc".
Oldest(r) == \A s \in Open : r <= s
\* findFirst ... orderBy createdAt desc: the newest open run.
Chosen(r) == \A s \in Open : s <= r

FindRun(k) ==
  /\ wpc[k] = "find"
  /\ \E r \in Open :
       /\ Chosen(r)
       /\ runOf' = [runOf EXCEPT ![k] = r]
  /\ wpc' = [wpc EXCEPT ![k] = "read"]
  /\ looked' = [looked EXCEPT ![k] = Len(runs)]
  /\ UNCHANGED <<runs, stepOf>>

FindNothing(k) ==
  /\ wpc[k] = "find"
  /\ Open = {}
  /\ wpc' = [wpc EXCEPT ![k] = "back"]
  /\ looked' = [looked EXCEPT ![k] = Len(runs)]
  /\ UNCHANGED <<runs, runOf, stepOf>>

AdvanceRead(k) ==
  /\ wpc[k] = "read"
  /\ stepOf' = [stepOf EXCEPT ![k] = runs[runOf[k]].step]
  /\ wpc' = [wpc EXCEPT ![k] = "write"]
  /\ UNCHANGED <<runs, runOf, looked>>

\* (Mutant: the step is not counted up.)
SameIndex(k) == stepOf[k]
NextIndex(k) == stepOf[k] + 1

AdvanceStep(k) ==
  /\ wpc[k] = "write"
  /\ NextIndex(k) < Steps
  /\ runs' = [runs EXCEPT ![runOf[k]].step = NextIndex(k)]
  /\ wpc' = [wpc EXCEPT ![k] = "read"]
  /\ UNCHANGED <<runOf, stepOf, looked>>

\* What the last step writes.  (Mutants: finishing forgets currentStep, or writes a
\* status the database does not know.)
FinishedInPlace(k, run) == [run EXCEPT !.status = "COMPLETED"]
FinishedUnknown(k, run) == [status |-> "DONE", step |-> NextIndex(k)]
Finished(k, run) == [status |-> "COMPLETED", step |-> NextIndex(k)]

AdvanceLast(k) ==
  /\ wpc[k] = "write"
  /\ NextIndex(k) >= Steps
  /\ runs' = [runs EXCEPT ![runOf[k]] = Finished(k, runs[runOf[k]])]
  /\ wpc' = [wpc EXCEPT ![k] = "back"]
  /\ UNCHANGED <<runOf, stepOf, looked>>

\* The caller goes on, or dies: its local variables are gone.
Return(k) ==
  /\ wpc' = [wpc EXCEPT ![k] = "out"]
  /\ runOf' = [runOf EXCEPT ![k] = 0]
  /\ stepOf' = [stepOf EXCEPT ![k] = 0]
  /\ UNCHANGED <<runs, looked>>

WorkflowStep(k) ==
  FindRun(k) \/ FindNothing(k) \/ AdvanceRead(k) \/ AdvanceStep(k) \/ AdvanceLast(k)

-----------------------------------------------------------------------------
(* Properties *)

WorkflowTypeOK ==
  /\ runs \in Seq(Run)
  /\ wpc \in [Callers -> WorkflowPcs]
  /\ runOf \in [Callers -> 0..Len(runs)]
  /\ stepOf \in [Callers -> Nat]
  /\ looked \in [Callers -> 0..Len(runs)]

\* No caller is between reading a step and writing the next one.
Quiet == \A k \in Callers : wpc[k] \in {"out", "back"}
=============================================================================
