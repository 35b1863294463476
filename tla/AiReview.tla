------------------------------ MODULE AiReview ------------------------------
(***************************************************************************)
(* Editors review the revisions of one tool while its AI pipeline runs:    *)
(* apps/api/src/ai/ai-review.service.ts on top of module AiPipeline.       *)
(*                                                                         *)
(* approve, reject and updateRevisionPayload first read the revision, go   *)
(* on only if it is PENDING, and then update it by its id, whatever became *)
(* of it meanwhile.  The payload that approve applies is the one it read.  *)
(* For a stage that lives in the metadata, applyStagePayload also reads    *)
(* and writes that object in two statements, without a lock.               *)
(*                                                                         *)
(* There are no faults here, so a task is executed once and has at most    *)
(* one revision.  regenerate is StartAiPipeline.  Left out are the audit   *)
(* log, and the editor's form (tools.service.ts), which may overwrite any  *)
(* text by hand.                                                           *)
(***************************************************************************)
EXTENDS AiPipeline

CONSTANTS
  Editors,       \* requests of editors that run at the same time
  NoTask,        \* an idle editor looks at no revision
  MaxRequests    \* bound: requests of editors

ASSUME ReviewAssumption ==
  /\ NoTask \notin TaskId
  /\ MaxFaults = 0
  /\ MaxRequests \in Nat

VARIABLES
  epc,           \* of each editor: the await executed next
  etask,         \* of each editor: the task whose revision was read
  epayload,      \* of each editor: that revision's payload was edited
  esnap,         \* of each editor: the metadata that approve read
  requests,      \* requests of editors so far
  edited,        \* tasks whose revision holds an editor's payload
  clashed        \* history: tasks whose revision changed between read and write

editor == <<epc, etask, epayload, esnap>>
review == <<editor, requests, edited, clashed>>

EditorPcs == {"idle", "approve", "applyMeta", "reject", "edit"}

EditorAt(e, p) == epc[e] = p

ReviewInit ==
  /\ Init
  /\ epc = [e \in Editors |-> "idle"]
  /\ etask = [e \in Editors |-> NoTask]
  /\ epayload = [e \in Editors |-> FALSE]
  /\ esnap = [e \in Editors |-> NoMeta]
  /\ requests = 0
  /\ edited = {} /\ clashed = {}

\* What AiPipeline has and an editor's request leaves alone, content aside.
elsewhere == <<deleted, abandoned, queue, pc, locals, budget, history>>

-----------------------------------------------------------------------------
(* The operations of an editor *)

Request ==
  /\ requests < MaxRequests
  /\ requests' = requests + 1

\* findRevision; a revision that is not PENDING is returned as it is.
FindRevision(e, k, operation) ==
  /\ Request
  /\ EditorAt(e, "idle")
  /\ "PENDING" \in revs[k]
  /\ epc' = [epc EXCEPT ![e] = operation]
  /\ etask' = [etask EXCEPT ![e] = k]
  /\ epayload' = [epayload EXCEPT ![e] = k \in edited]
  /\ UNCHANGED <<vars, esnap, edited, clashed>>

\* The request of e is answered.
Answer(e) ==
  /\ epc' = [epc EXCEPT ![e] = "idle"]
  /\ etask' = [etask EXCEPT ![e] = NoTask]
  /\ epayload' = [epayload EXCEPT ![e] = FALSE]
  /\ esnap' = [esnap EXCEPT ![e] = NoMeta]

\* The revision is not what e read any more.
Stale(e) ==
  \/ revs[etask[e]] # {"PENDING"}
  \/ epayload[e] # (etask[e] \in edited)
NoteClash(e) == clashed' = IF Stale(e) THEN clashed \union {etask[e]} ELSE clashed

Decide(e, s) ==
  /\ revs' = [revs EXCEPT ![etask[e]] = {s}]
  /\ NoteClash(e)
  /\ Answer(e)

\* (Mutants: the edit is ignored; the content is labelled with the next round.)
PayloadUnedited(e) == Own(etask[e])
PayloadNextRound(e) == [Own(etask[e]) EXCEPT !.edited = epayload[e], !.round = @ + 1]
Payload(e) == [Own(etask[e]) EXCEPT !.edited = epayload[e]]

\* The transaction of approve, for a stage with columns of its own ...
ApproveColumns(e) ==
  /\ EditorAt(e, "approve")
  /\ etask[e].stage \in Generating \ InMetadata
  /\ column' = [column EXCEPT ![etask[e].stage] = Payload(e)]
  /\ Decide(e, "APPROVED")
  /\ UNCHANGED <<elsewhere, toolStatus, meta, requests, edited>>

\* ... for QUALITY and PUBLISH, which have no content ...
ApproveMark(e) ==
  /\ EditorAt(e, "approve")
  /\ etask[e].stage \notin Generating
  /\ Decide(e, "APPROVED")
  /\ UNCHANGED <<elsewhere, toolStatus, meta, column, requests, edited>>

\* ... and for a stage in the metadata.
ApproveReadMeta(e) ==
  /\ EditorAt(e, "approve")
  /\ etask[e].stage \in InMetadata
  /\ esnap' = [esnap EXCEPT ![e] = meta]
  /\ epc' = [epc EXCEPT ![e] = "applyMeta"]
  /\ UNCHANGED <<vars, etask, epayload, requests, edited, clashed>>

ApproveWriteMeta(e) ==
  /\ EditorAt(e, "applyMeta")
  /\ meta' = [esnap[e] EXCEPT !.applied[etask[e].stage] = Payload(e)]
  /\ Decide(e, "APPROVED")
  /\ UNCHANGED <<elsewhere, toolStatus, column, requests, edited>>

Reject(e) ==
  /\ EditorAt(e, "reject")
  /\ Decide(e, "REJECTED")
  /\ UNCHANGED <<elsewhere, toolStatus, meta, column, requests, edited>>

UpdateRevisionPayload(e) ==
  /\ EditorAt(e, "edit")
  /\ edited' = edited \union {etask[e]}
  /\ NoteClash(e)
  /\ Answer(e)
  /\ UNCHANGED <<vars, requests>>

\* publishTool and archiveTool look only whether the tool is deleted.
SetStatus(s) ==
  /\ Request
  /\ ~deleted
  /\ toolStatus' = s
  /\ UNCHANGED <<elsewhere, meta, column, revs, editor, edited, clashed>>

PublishTool == SetStatus("PUBLISHED")
ArchiveTool == SetStatus("ARCHIVED")

-----------------------------------------------------------------------------
Edit(e) ==
  \/ \E k \in TaskId, op \in {"approve", "reject", "edit"} : FindRevision(e, k, op)
  \/ ApproveColumns(e) \/ ApproveMark(e)
  \/ ApproveReadMeta(e) \/ ApproveWriteMeta(e)
  \/ Reject(e) \/ UpdateRevisionPayload(e)

ReviewNext ==
  \/ Next /\ UNCHANGED review
  \/ \E e \in Editors : Edit(e)
  \/ PublishTool \/ ArchiveTool

ReviewSpec == ReviewInit /\ [][ReviewNext]_<<vars, review>>

-----------------------------------------------------------------------------
(* Properties *)

\* The type invariant, that of the pipeline included.
ReviewTypeOK ==
  /\ TypeOK
  /\ epc \in [Editors -> EditorPcs]
  /\ etask \in [Editors -> TaskId \union {NoTask}]
  /\ epayload \in [Editors -> BOOLEAN]
  /\ esnap \in [Editors -> Metadata]
  /\ requests \in 0..MaxRequests
  /\ edited \subseteq TaskId
  /\ clashed \subseteq TaskId

\* The task whose revision proposed the content a of stage s.
Proposed(k, a, s) == k.stage = s /\ k.run = a.run /\ k.round = a.round

\* Without automatic publishing, everything shown but the summary of a crawl is
\* exactly what an approved revision says, edits included, whatever the workers
\* and crawls do to the metadata in between; only two editors who clash on one
\* revision can break this, and even then the revision was decided on.
Agrees(k, a) == revs[k] = {"APPROVED"} /\ a.edited = (k \in edited)
ShownAsApproved ==
  ~AutoPublish =>
    \A s \in Generating : Shown(s) # None /\ ~ByCrawl(s) =>
      \E k \in TaskId :
        /\ Proposed(k, Shown(s), s)
        /\ Agrees(k, Shown(s)) \/ (k \in clashed /\ "PENDING" \notin revs[k])

\* What docs/01-architecture/RFC/RFC-0003-ai-pipeline.md draws: a revision that
\* an editor rejected, and nobody else decided on, is discarded: its content is
\* not shown.
RejectedIsDiscarded ==
  \A s \in Generating, k \in TaskId :
    Shown(s) # None /\ Proposed(k, Shown(s), s) /\ k \notin clashed
      => revs[k] # {"REJECTED"}
=============================================================================
