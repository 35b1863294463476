------------------------------ MODULE Scheduler ------------------------------
(***************************************************************************)
(* The scheduler process: apps/scheduler/src/main.ts.                      *)
(*                                                                         *)
(* Every minute a timer starts a tick, also while an older tick is still   *)
(* running.  A tick finds the sources that are due and, for each of them,  *)
(* creates a crawl job, enqueues it and moves the source's nextRunAt: three *)
(* writes, in three awaits.  Then it runs the daily automation poll if     *)
(* lastDailyAutomationAt, a variable of the process, is a day old.         *)
(*                                                                         *)
(* nextRunAt is reduced to "due", and a source's interval is longer than a *)
(* tick lasts.  There are fewer due sources than a tick takes (20), so     *)
(* their order does not matter.  The weekly poll works like the daily one. *)
(* What a worker does with a job is module CrawlJob.                       *)
(***************************************************************************)
EXTENDS Naturals, FiniteSets, Sequences

CONSTANTS
  Sources,       \* crawl sources with a schedule
  NoSource,      \* a tick that is not working on a source
  Ticks,         \* ticks that may run at the same time
  MaxDue,        \* bound: times a source becomes due
  MaxDays,       \* bound: days
  MaxEvents      \* bound: rejected awaits, crashes, and requests of the API

ASSUME SchedulerAssumption ==
  /\ NoSource \notin Sources
  /\ IsFiniteSet(Sources) /\ IsFiniteSet(Ticks)
  /\ MaxDue \in Nat /\ MaxDays \in Nat /\ MaxEvents \in Nat

VARIABLES
  enabled,       \* of each source: status is ENABLED
  due,           \* of each source: nextRunAt is null or past
  crawlJobs,     \* the crawl_jobs rows that ticks created
  tpc,           \* of each tick: the await executed next
  dueSources,    \* of each tick: the sources it has found and not handled yet
  source,        \* of each tick: the source it is working on
  jobOf,         \* of each tick: the job it created last, 0 for none
  dailyDue,      \* lastDailyAutomationAt is a day old
  requested,     \* requests so far
  \* History:
  dues,          \* of each source: how often it became due
  days,          \* days so far
  overlapped,    \* a tick started while another was running
  rejections,    \* awaits that rejected
  crashes        \* crashes of the process

sources   == <<enabled, due, dues>>
ticks     == <<tpc, dueSources, source, jobOf, overlapped>>
daily     == <<dailyDue, days>>
mishaps   == <<rejections, crashes>>
scheduler == <<sources, crawlJobs, ticks, daily, mishaps, requested>>

CrawlJobRow == [source : Sources, status : {"PENDING", "FAILED"}, queued : BOOLEAN]
TickPcs == {"idle", "loop", "enqueue", "move", "fail", "poll"}

TickGoto(t, p) == tpc' = [tpc EXCEPT ![t] = p]

Eventful == rejections + crashes + requested < MaxEvents

SchedulerInit ==
  /\ enabled = [s \in Sources |-> TRUE]
  /\ due = [s \in Sources |-> FALSE]
  /\ crawlJobs = << >>
  /\ tpc = [t \in Ticks |-> "idle"]
  /\ dueSources = [t \in Ticks |-> {}]
  /\ source = [t \in Ticks |-> NoSource]
  /\ jobOf = [t \in Ticks |-> 0]
  /\ dailyDue = TRUE
  /\ requested = 0
  /\ dues = [s \in Sources |-> 0]
  /\ days = 1
  /\ overlapped = FALSE /\ rejections = 0 /\ crashes = 0

-----------------------------------------------------------------------------
(* Time and the API of crawl sources *)

InHand(s) == \E t \in Ticks : s \in dueSources[t] \/ source[t] = s

ComesDue(s) ==
  /\ ~due[s] /\ ~InHand(s)
  /\ dues[s] < MaxDue
  /\ due' = [due EXCEPT ![s] = TRUE]
  /\ dues' = [dues EXCEPT ![s] = @ + 1]
  /\ UNCHANGED <<enabled, crawlJobs, ticks, daily, mishaps, requested>>

NextDay ==
  /\ days < MaxDays
  /\ days' = days + 1
  /\ dailyDue' = TRUE
  /\ UNCHANGED <<sources, crawlJobs, ticks, mishaps, requested>>

\* setStatus: an enabled source runs after its interval, another one never.
SetSourceStatus(s) ==
  /\ Eventful
  /\ requested' = requested + 1
  /\ enabled' = [enabled EXCEPT ![s] = ~@]
  /\ due' = [due EXCEPT ![s] = ~enabled'[s]]
  /\ UNCHANGED <<dues, crawlJobs, ticks, daily, mishaps>>

\* update and updateFrequency compute nextRunAt anew for an enabled source.
UpdateFrequency(s) ==
  /\ Eventful
  /\ requested' = requested + 1
  /\ due' = [due EXCEPT ![s] = IF enabled[s] THEN FALSE ELSE @]
  /\ UNCHANGED <<enabled, dues, crawlJobs, ticks, daily, mishaps>>

-----------------------------------------------------------------------------
(* A tick *)

\* What findMany finds.  (Mutant: it is asked on the daily poll only.)
DueDaily == {s \in Sources : enabled[s] /\ due[s] /\ dailyDue}
DueNow == {s \in Sources : enabled[s] /\ due[s]}

\* A tick that finds nothing to do is not a step.
TickStart(t) ==
  /\ tpc[t] = "idle"
  /\ dailyDue \/ \E s \in Sources : enabled[s] /\ due[s]
  /\ dueSources' = [dueSources EXCEPT ![t] = DueNow]
  /\ overlapped' = (overlapped \/ \E u \in Ticks : tpc[u] # "idle")
  /\ TickGoto(t, "loop")
  /\ UNCHANGED <<sources, crawlJobs, source, jobOf, daily, mishaps, requested>>

TickCreate(t) ==
  /\ tpc[t] = "loop"
  /\ \E s \in dueSources[t] :
       /\ crawlJobs' = Append(crawlJobs,
                         [source |-> s, status |-> "PENDING", queued |-> FALSE])
       /\ source' = [source EXCEPT ![t] = s]
       /\ dueSources' = [dueSources EXCEPT ![t] = @ \ {s}]
  /\ jobOf' = [jobOf EXCEPT ![t] = Len(crawlJobs')]
  /\ TickGoto(t, "enqueue")
  /\ UNCHANGED <<sources, overlapped, daily, mishaps, requested>>

TickEnqueue(t) ==
  /\ tpc[t] = "enqueue"
  /\ crawlJobs' = [crawlJobs EXCEPT ![jobOf[t]].queued = TRUE]
  /\ TickGoto(t, "move")
  /\ UNCHANGED <<sources, dueSources, source, jobOf, overlapped, daily, mishaps,
                 requested>>

\* The source of this turn of the loop is handled.
NextSource(t) ==
  /\ source' = [source EXCEPT ![t] = NoSource]
  /\ jobOf' = [jobOf EXCEPT ![t] = 0]
  /\ TickGoto(t, "loop")

\* (Mutant: nextRunAt stays.)
Kept(s) == due
Moved(s) == [due EXCEPT ![s] = FALSE]

TickMove(t) ==
  /\ tpc[t] = "move"
  /\ due' = Moved(source[t])
  /\ NextSource(t)
  /\ UNCHANGED <<enabled, dues, crawlJobs, dueSources, overlapped, daily, mishaps,
                 requested>>

\* The enqueue or the update rejects: the job is marked FAILED, also if it is
\* in the queue already.
TickReject(t) ==
  /\ tpc[t] \in {"enqueue", "move"}
  /\ Eventful
  /\ rejections' = rejections + 1
  /\ TickGoto(t, "fail")
  /\ UNCHANGED <<sources, crawlJobs, dueSources, source, jobOf, overlapped, daily,
                 crashes, requested>>

\* (Mutant: the mark is left out.)
Unmarked(t) == crawlJobs
MarkedFailed(t) == [crawlJobs EXCEPT ![jobOf[t]].status = "FAILED"]

TickFail(t) ==
  /\ tpc[t] = "fail"
  /\ crawlJobs' = MarkedFailed(t)
  /\ NextSource(t)
  /\ UNCHANGED <<sources, dueSources, overlapped, daily, mishaps, requested>>

TickLeave(t) ==
  /\ tpc' = [tpc EXCEPT ![t] = "idle"]
  /\ dueSources' = [dueSources EXCEPT ![t] = {}]
  /\ source' = [source EXCEPT ![t] = NoSource]
  /\ jobOf' = [jobOf EXCEPT ![t] = 0]
  /\ UNCHANGED overlapped

\* pollAutomationSchedules: lastDailyAutomationAt is set after the poll.
TickIdle(t) ==
  /\ tpc[t] = "loop" /\ dueSources[t] = {}
  /\ ~dailyDue
  /\ TickLeave(t)
  /\ UNCHANGED <<sources, crawlJobs, daily, mishaps, requested>>

TickPoll(t) ==
  /\ tpc[t] = "loop" /\ dueSources[t] = {}
  /\ dailyDue
  /\ TickGoto(t, "poll")
  /\ UNCHANGED <<sources, crawlJobs, dueSources, source, jobOf, overlapped, dailyDue,
                 days, mishaps, requested>>

TickPolled(t) ==
  /\ tpc[t] = "poll"
  /\ dailyDue' = FALSE
  /\ TickLeave(t)
  /\ UNCHANGED <<sources, crawlJobs, days, mishaps, requested>>

\* An await outside the inner try block rejects: the tick ends.
TickAbort(t) ==
  /\ tpc[t] \in {"loop", "fail", "poll"}
  /\ Eventful
  /\ rejections' = rejections + 1
  /\ TickLeave(t)
  /\ UNCHANGED <<sources, crawlJobs, daily, crashes, requested>>

\* The process dies and is started again: its ticks and variables are gone.
SchedulerCrash ==
  /\ Eventful
  /\ crashes' = crashes + 1
  /\ tpc' = [t \in Ticks |-> "idle"]
  /\ dueSources' = [t \in Ticks |-> {}]
  /\ source' = [t \in Ticks |-> NoSource]
  /\ jobOf' = [t \in Ticks |-> 0]
  /\ dailyDue' = TRUE
  /\ UNCHANGED <<sources, crawlJobs, overlapped, days, rejections, requested>>

-----------------------------------------------------------------------------
SchedulerRest == (\A t \in Ticks : tpc[t] = "idle") /\ UNCHANGED scheduler

TickWork(t) ==
  \/ TickStart(t) \/ TickCreate(t) \/ TickEnqueue(t) \/ TickMove(t) \/ TickFail(t)
  \/ TickIdle(t) \/ TickPoll(t) \/ TickPolled(t)

SchedulerNext ==
  \/ \E s \in Sources : ComesDue(s) \/ SetSourceStatus(s) \/ UpdateFrequency(s)
  \/ \E t \in Ticks : TickWork(t) \/ TickReject(t) \/ TickAbort(t)
  \/ NextDay \/ SchedulerCrash \/ SchedulerRest

\* The timer fires for ever and awaits settle.
SchedulerFair == \A t \in Ticks : WF_scheduler(TickWork(t))
SchedulerSpec == SchedulerInit /\ [][SchedulerNext]_scheduler /\ SchedulerFair

-----------------------------------------------------------------------------
(* Properties *)

SchedulerTypeOK ==
  /\ enabled \in [Sources -> BOOLEAN] /\ due \in [Sources -> BOOLEAN]
  /\ crawlJobs \in Seq(CrawlJobRow)
  /\ tpc \in [Ticks -> TickPcs]
  /\ dueSources \in [Ticks -> SUBSET Sources]
  /\ source \in [Ticks -> Sources \union {NoSource}]
  /\ jobOf \in [Ticks -> 0..Len(crawlJobs)]
  /\ dailyDue \in BOOLEAN /\ overlapped \in BOOLEAN
  /\ requested \in Nat
  /\ dues \in [Sources -> 0..MaxDue]
  /\ days \in Nat
  /\ rejections \in Nat /\ crashes \in Nat
  /\ rejections + crashes + requested <= MaxEvents

JobsOf(s) == {i \in DOMAIN crawlJobs : crawlJobs[i].source = s}

\* PENDING jobs that no task executes and no tick is working on.
Stranded ==
  {i \in DOMAIN crawlJobs :
     /\ crawlJobs[i].status = "PENDING" /\ ~crawlJobs[i].queued
     /\ \A t \in Ticks : jobOf[t] # i}

\* A job that nobody executes and nobody marked FAILED exists only after a crash
\* between its creation and its enqueue, at most one per running tick, or after
\* both the enqueue and the mark were rejected.
StrandedOnlyByFaults ==
  2 * Cardinality(Stranded) <= 2 * Cardinality(Ticks) * crashes + rejections

\* A source gets one job each time it becomes due, in spite of requests that
\* change it meanwhile: another one only if ticks overlapped, or because a fault
\* left it due.
OneJobPerDue ==
  ~overlapped => \A s \in Sources :
    Cardinality(JobsOf(s)) <= dues[s] + rejections + crashes

\* A source that is due and enabled gets its next date, or is disabled: no
\* rejection, crash or overlap leaves it due for ever.
DueIsServed == \A s \in Sources : (due[s] /\ enabled[s]) ~> ~(due[s] /\ enabled[s])
=============================================================================
