----------------------------- MODULE Translations -----------------------------
(***************************************************************************)
(* The translation of one tool into one locale: packages/i18n and the      *)
(* translation worker of apps/worker.                                      *)
(*                                                                         *)
(* Every request creates a job and enqueues it; several jobs of a tool may *)
(* run at the same time.  A job reads the text, has it translated, finds   *)
(* the translation and updates it, or creates it if there was none, which  *)
(* the database accepts once.  Then it marks itself SUCCEEDED and only     *)
(* after that publishes the translation.  Nothing catches a failure: the   *)
(* job stays RUNNING and BullMQ executes it again.                         *)
(*                                                                         *)
(* A text is its version; that a failing translator is replaced by pseudo- *)
(* translation, and the stage of a job, are left out.                      *)
(***************************************************************************)
EXTENDS Naturals, Sequences

CONSTANTS
  MaxJobs,         \* bound: translation jobs
  MaxTexts,        \* bound: versions of the English text
  MaxExecutions,   \* executions of a task before BullMQ gives it up
  MaxLapses        \* bound: rejected awaits and crashes

ASSUME TranslationAssumption ==
  /\ MaxJobs \in Nat /\ MaxTexts \in Nat \ {0}
  /\ MaxExecutions \in Nat \ {0} /\ MaxLapses \in Nat

VARIABLES
  text,            \* the version of the tool's text
  translation,     \* the active tool_translations row; status "none": no row
  trJobs,          \* status of each translation_jobs row
  trTask,          \* of each job: its task in the queue
  trpc,            \* of each job: the await its worker executes next
  trText,          \* of each job: the text its worker has read
  trFails,         \* of each job: failed executions
  lapses,          \* rejected awaits and crashes
  \* History:
  newest,          \* the text that a job read last
  alongside        \* a job read the text while another was being executed

translations ==
  <<text, translation, trJobs, trTask, trpc, trText, trFails, lapses, newest, alongside>>

TrIds == 1..MaxJobs
TrTasks == {"none", "created", "lost", "waiting", "active", "done", "dead"}
TrPcs == {"idle", "run", "read", "find", "update", "create", "succeed", "publish"}
Translation == [text : Nat, status : {"none", "AI_GENERATED", "PUBLISHED"}]

TranslationsInit ==
  /\ text = 1
  /\ translation = [text |-> 0, status |-> "none"]
  /\ trJobs = << >>
  /\ trTask = [j \in TrIds |-> "none"]
  /\ trpc = [j \in TrIds |-> "idle"]
  /\ trText = [j \in TrIds |-> 0]
  /\ trFails = [j \in TrIds |-> 0]
  /\ lapses = 0
  /\ newest = 0 /\ alongside = FALSE

Lapse == lapses < MaxLapses /\ lapses' = lapses + 1

\* An editor changes the text of the tool.
EditText ==
  /\ text < MaxTexts
  /\ text' = text + 1
  /\ UNCHANGED <<translation, trJobs, trTask, trpc, trText, trFails, lapses,
                  newest, alongside>>

\* enqueueTranslationWorkflow
CreateTrJob ==
  /\ Len(trJobs) < MaxJobs
  /\ trJobs' = Append(trJobs, "PENDING")
  /\ trTask' = [trTask EXCEPT ![Len(trJobs')] = "created"]
  /\ UNCHANGED <<text, translation, trpc, trText, trFails, lapses, newest, alongside>>

EnqueueTrJob(j) ==
  /\ trTask[j] = "created"
  /\ trTask' = [trTask EXCEPT ![j] = "waiting"]
  /\ UNCHANGED <<text, translation, trJobs, trpc, trText, trFails, lapses,
                  newest, alongside>>

\* The enqueue rejects or its process dies: the job stays PENDING.
EnqueueTrFault(j) ==
  /\ Lapse
  /\ trTask[j] = "created"
  /\ trTask' = [trTask EXCEPT ![j] = "lost"]
  /\ UNCHANGED <<text, translation, trJobs, trpc, trText, trFails, newest, alongside>>

-----------------------------------------------------------------------------
(* runTranslationWorkflow, concurrency 3 *)

TrAt(j, p) == trTask[j] = "active" /\ trpc[j] = p
TrGoto(j, p) == trpc' = [trpc EXCEPT ![j] = p]

TrLeave(j, t) ==
  /\ trTask' = [trTask EXCEPT ![j] = t]
  /\ TrGoto(j, "idle")
  /\ trText' = [trText EXCEPT ![j] = 0]

TrThrow(j) ==
  /\ trFails' = [trFails EXCEPT ![j] = @ + 1]
  /\ TrLeave(j, IF trFails'[j] < MaxExecutions THEN "waiting" ELSE "dead")

TrTake(j) ==
  /\ trTask[j] = "waiting"
  /\ trTask' = [trTask EXCEPT ![j] = "active"]
  /\ TrGoto(j, "run")
  /\ UNCHANGED <<text, translation, trJobs, trText, trFails, lapses, newest, alongside>>

TrRun(j) ==
  /\ TrAt(j, "run")
  /\ trJobs' = [trJobs EXCEPT ![j] = "RUNNING"]
  /\ TrGoto(j, "read")
  /\ UNCHANGED <<text, translation, trTask, trText, trFails, lapses, newest, alongside>>

\* From here to the write lie a call of the model and two more awaits.
TrRead(j) ==
  /\ TrAt(j, "read")
  /\ trText' = [trText EXCEPT ![j] = text]
  /\ newest' = text
  /\ alongside' = (alongside \/ \E i \in TrIds : trText[i] # 0)
  /\ TrGoto(j, "find")
  /\ UNCHANGED <<text, translation, trJobs, trTask, trFails, lapses>>

TrFind(j) ==
  /\ TrAt(j, "find")
  /\ TrGoto(j, IF translation.status = "none" THEN "create" ELSE "update")
  /\ UNCHANGED <<text, translation, trJobs, trTask, trText, trFails, lapses,
                  newest, alongside>>

\* What the update writes.  (Mutant: only the status.)
StatusOnly(j) == [translation EXCEPT !.status = "AI_GENERATED"]
Translated(j) == [text |-> trText[j], status |-> "AI_GENERATED"]

TrUpdate(j) ==
  /\ TrAt(j, "update")
  /\ translation' = Translated(j)
  /\ TrGoto(j, "succeed")
  /\ UNCHANGED <<text, trJobs, trTask, trText, trFails, lapses, newest, alongside>>

TrCreate(j) ==
  /\ TrAt(j, "create")
  /\ translation.status = "none"
  /\ translation' = [text |-> trText[j], status |-> "AI_GENERATED"]
  /\ TrGoto(j, "succeed")
  /\ UNCHANGED <<text, trJobs, trTask, trText, trFails, lapses, newest, alongside>>

\* Another job created the row since this one looked: the insert is refused.
TrClash(j) ==
  /\ TrAt(j, "create")
  /\ translation.status # "none"
  /\ TrThrow(j)
  /\ UNCHANGED <<text, translation, trJobs, lapses, newest, alongside>>

TrSucceed(j) ==
  /\ TrAt(j, "succeed")
  /\ trJobs' = [trJobs EXCEPT ![j] = "SUCCEEDED"]
  /\ TrGoto(j, "publish")
  /\ UNCHANGED <<text, translation, trTask, trText, trFails, lapses, newest, alongside>>

\* updateMany of whatever row there is.
TrPublish(j) ==
  /\ TrAt(j, "publish")
  /\ translation' = [translation EXCEPT !.status = "PUBLISHED"]
  /\ TrLeave(j, "done")
  /\ UNCHANGED <<text, trJobs, trFails, lapses, newest, alongside>>

\* An await rejects or the worker dies.
TrFault(j) ==
  /\ Lapse
  /\ trTask[j] = "active"
  /\ TrThrow(j)
  /\ UNCHANGED <<text, translation, trJobs, newest, alongside>>

-----------------------------------------------------------------------------
TranslationsQuiet == \A j \in TrIds : trTask[j] \notin {"created", "waiting", "active"}
TranslationsRest == TranslationsQuiet /\ UNCHANGED translations

TrWork(j) ==
  \/ EnqueueTrJob(j) \/ TrTake(j) \/ TrRun(j) \/ TrRead(j) \/ TrFind(j)
  \/ TrUpdate(j) \/ TrCreate(j) \/ TrClash(j) \/ TrSucceed(j) \/ TrPublish(j)

TranslationsNext ==
  \/ EditText \/ CreateTrJob
  \/ \E j \in TrIds : TrWork(j) \/ EnqueueTrFault(j) \/ TrFault(j)
  \/ TranslationsRest

TranslationsSpec == TranslationsInit /\ [][TranslationsNext]_translations

-----------------------------------------------------------------------------
(* Properties *)

TranslationsTypeOK ==
  /\ text \in 1..MaxTexts
  /\ translation \in Translation
  /\ trJobs \in Seq({"PENDING", "RUNNING", "SUCCEEDED"}) /\ Len(trJobs) <= MaxJobs
  /\ trTask \in [TrIds -> TrTasks]
  /\ \A j \in TrIds : trTask[j] # "none" => j \in DOMAIN trJobs
  /\ trpc \in [TrIds -> TrPcs]
  /\ trText \in [TrIds -> 0..MaxTexts]
  /\ trFails \in [TrIds -> 0..MaxExecutions]
  /\ lapses \in 0..MaxLapses
  /\ newest \in 0..MaxTexts /\ alongside \in BOOLEAN

\* When nothing is left to do and a job has succeeded, visitors see the
\* translation, and unless jobs overlapped it is of the text that was read last: a
\* job in the queue behind another never publishes an older text.  Nothing is said
\* once a task was given up, which may be after it wrote, before it published.
PublishedIsNewest ==
  TranslationsQuiet /\ (\E j \in DOMAIN trJobs : trJobs[j] = "SUCCEEDED") =>
    \/ translation.status = "PUBLISHED" /\ (alongside \/ translation.text = newest)
    \/ \E j \in TrIds : trTask[j] = "dead"
=============================================================================
