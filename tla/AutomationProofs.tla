--------------------------- MODULE AutomationProofs ---------------------------
(***************************************************************************)
(* Proofs about the components of the automation, one part for each:       *)
(* Scheduler, Discovery, Monitors and Newsletter, for every set of         *)
(* sources, ticks, pollers, addresses and people, any number of tasks,     *)
(* executions, and rejected awaits and crashes.                            *)
(***************************************************************************)
EXTENDS Scheduler, Discovery, Monitors, Newsletter, FiniteSetTheorems,
        SequenceTheorems, TLAPS

-----------------------------------------------------------------------------
(* Scheduler: what its steps keep *)

\* What a tick holds at each await.
Tracked ==
  \A t \in Ticks :
    /\ tpc[t] \in {"idle", "loop", "poll"} => jobOf[t] = 0 /\ source[t] = NoSource
    /\ tpc[t] \in {"idle", "poll"} => dueSources[t] = {}
    /\ tpc[t] \in {"enqueue", "move", "fail"} =>
         jobOf[t] \in DOMAIN crawlJobs /\ source[t] \in Sources
    /\ tpc[t] = "move" => crawlJobs[jobOf[t]].queued

SchedulerTypeInv == SchedulerTypeOK /\ Tracked

\* Ticks that still have to mark the job of a rejected await.
Failing == {t \in Ticks : tpc[t] = "fail"}

\* A tick that reaches "fail" has cost one rejection; it strands its job only if it
\* costs another one.
StrandedInv ==
  2 * Cardinality(Stranded) + Cardinality(Failing)
    <= 2 * Cardinality(Ticks) * crashes + rejections

\* As long as ticks do not overlap there is one tick that works.
Alone == ~overlapped => \A t, u \in Ticks : tpc[t] # "idle" /\ tpc[u] # "idle" => t = u

\* The source s may get another job: it is in the hands of a tick, or the next tick
\* will find it, or the tick that failed to move it leaves it due.
Coming(s) ==
  \/ \E t \in Ticks : s \in dueSources[t]
  \/ \E t \in Ticks : source[t] = s /\ tpc[t] = "fail"
  \/ due[s] /\ enabled[s] /\ \A t \in Ticks : source[t] # s

JobsInv ==
  ~overlapped => \A s \in Sources :
    Cardinality(JobsOf(s)) + (IF Coming(s) THEN 1 ELSE 0) <= dues[s] + rejections + crashes

-----------------------------------------------------------------------------
(* Lemmas about the operators of the scheduler *)

LEMMA JobsTyped ==
  ASSUME SchedulerTypeOK
  PROVE  /\ crawlJobs \in Seq(CrawlJobRow)
         /\ Len(crawlJobs) \in Nat /\ DOMAIN crawlJobs = 1..Len(crawlJobs)
         /\ IsFiniteSet(DOMAIN crawlJobs)
         /\ \A i \in DOMAIN crawlJobs : crawlJobs[i] \in CrawlJobRow
<1>1. crawlJobs \in Seq(CrawlJobRow)
  BY DEF SchedulerTypeOK
<1>2. Len(crawlJobs) \in Nat /\ DOMAIN crawlJobs = 1..Len(crawlJobs)
  BY <1>1
<1>3. IsFiniteSet(1..Len(crawlJobs))
  BY <1>2, FS_Interval
<1> QED
  BY <1>1, <1>2, <1>3

\* A set of jobs, or of ticks, has a size.
LEMMA Sized ==
  ASSUME SchedulerTypeOK
  PROVE  /\ \A S \in SUBSET DOMAIN crawlJobs : IsFiniteSet(S) /\ Cardinality(S) \in Nat
         /\ \A S \in SUBSET Ticks : IsFiniteSet(S) /\ Cardinality(S) \in Nat
BY JobsTyped, SchedulerAssumption, FS_Subset, FS_CardinalityType

\* Marking a job FAILED, or queued, changes no source.
LEMMA JobMarked ==
  ASSUME SchedulerTypeOK, NEW i \in DOMAIN crawlJobs,
         \/ crawlJobs' = [crawlJobs EXCEPT ![i].queued = TRUE]
         \/ crawlJobs' = [crawlJobs EXCEPT ![i].status = "FAILED"]
  PROVE  /\ crawlJobs' \in Seq(CrawlJobRow) /\ Len(crawlJobs') = Len(crawlJobs)
         /\ DOMAIN crawlJobs' = DOMAIN crawlJobs
         /\ \A k \in DOMAIN crawlJobs \ {i} : crawlJobs'[k] = crawlJobs[k]
         /\ crawlJobs'[i].source = crawlJobs[i].source
         /\ crawlJobs[i].queued => crawlJobs'[i].queued
         /\ crawlJobs'[i].queued \/ crawlJobs'[i].status = "FAILED"
         /\ crawlJobs' = [crawlJobs EXCEPT ![i].queued = TRUE] => crawlJobs'[i].queued
<1>1. crawlJobs \in Seq(CrawlJobRow) /\ crawlJobs[i] \in CrawlJobRow
  BY JobsTyped
<1> DEFINE q == [crawlJobs[i] EXCEPT !.queued = TRUE]
           f == [crawlJobs[i] EXCEPT !.status = "FAILED"]
<1>2. /\ q \in CrawlJobRow /\ q.source = crawlJobs[i].source /\ q.queued
      /\ f \in CrawlJobRow /\ f.source = crawlJobs[i].source
      /\ f.queued = crawlJobs[i].queued /\ f.status = "FAILED"
  BY <1>1 DEF CrawlJobRow
<1>3. /\ [crawlJobs EXCEPT ![i].queued = TRUE] = [crawlJobs EXCEPT ![i] = q]
      /\ [crawlJobs EXCEPT ![i].status = "FAILED"] = [crawlJobs EXCEPT ![i] = f]
  OBVIOUS
<1> HIDE DEF q, f
<1>4. CASE crawlJobs' = [crawlJobs EXCEPT ![i].queued = TRUE]
  <2>1. crawlJobs' = [crawlJobs EXCEPT ![i] = q]
    BY <1>3, <1>4
  <2>2. crawlJobs'[i] = q /\ \A k \in DOMAIN crawlJobs \ {i} : crawlJobs'[k] = crawlJobs[k]
    BY <1>1, <2>1
  <2>3. /\ crawlJobs' \in Seq(CrawlJobRow) /\ Len(crawlJobs') = Len(crawlJobs)
        /\ DOMAIN crawlJobs' = DOMAIN crawlJobs
    BY <1>1, <1>2, <2>1
  <2> QED
    BY <1>2, <2>2, <2>3
<1>5. CASE crawlJobs' # [crawlJobs EXCEPT ![i].queued = TRUE]
  BY <1>1, <1>2, <1>3, <1>5
<1> QED
  BY <1>4, <1>5

LEMMA JobAppended ==
  ASSUME SchedulerTypeOK, NEW row \in CrawlJobRow, crawlJobs' = Append(crawlJobs, row)
  PROVE  /\ crawlJobs' \in Seq(CrawlJobRow)
         /\ Len(crawlJobs') = Len(crawlJobs) + 1
         /\ DOMAIN crawlJobs' = DOMAIN crawlJobs \union {Len(crawlJobs')}
         /\ Len(crawlJobs') \notin DOMAIN crawlJobs
         /\ \A k \in DOMAIN crawlJobs : crawlJobs'[k] = crawlJobs[k]
         /\ crawlJobs'[Len(crawlJobs')] = row
BY JobsTyped

-----------------------------------------------------------------------------
(* The types of the scheduler *)

LEMMA SchedulerTypeInit == SchedulerInit => SchedulerTypeInv
<1> SUFFICES ASSUME SchedulerInit PROVE SchedulerTypeInv
  OBVIOUS
<1>1. crawlJobs \in Seq(CrawlJobRow) /\ Len(crawlJobs) = 0
  BY DEF SchedulerInit
<1> QED
  <2>1. jobOf \in [Ticks -> 0..Len(crawlJobs)]
    BY <1>1 DEF SchedulerInit
  <2>2. SchedulerTypeOK
    <3>1. /\ dues \in [Sources -> 0..MaxDue]
          /\ rejections + crashes + requested <= MaxEvents
      BY SchedulerAssumption DEF SchedulerInit
    <3> QED
      BY <1>1, <2>1, <3>1 DEF SchedulerInit, SchedulerTypeOK, TickPcs
  <2> QED
    BY <2>2 DEF SchedulerInit, Tracked, SchedulerTypeInv

LEMMA SchedulerTypeStep ==
  ASSUME SchedulerTypeInv, [SchedulerNext]_scheduler
  PROVE  SchedulerTypeInv'
<1>0. /\ SchedulerTypeOK /\ Tracked /\ SchedulerTypeInv
      /\ Len(crawlJobs) \in Nat /\ DOMAIN crawlJobs = 1..Len(crawlJobs)
      /\ MaxDue \in Nat /\ MaxDays \in Nat /\ MaxEvents \in Nat /\ NoSource \notin Sources
  BY JobsTyped, SchedulerAssumption DEF SchedulerTypeInv
<1> USE DEF SchedulerTypeOK, Tracked, TickPcs, sources, ticks, daily, mishaps, TickGoto
<1>1. ASSUME NEW s \in Sources, ComesDue(s) \/ SetSourceStatus(s) \/ UpdateFrequency(s)
      PROVE  SchedulerTypeInv'
  <2>1. CASE ComesDue(s)
    BY <1>0, <2>1 DEF ComesDue, SchedulerTypeInv
  <2>2. CASE SetSourceStatus(s)
    BY <1>0, <2>2 DEF SetSourceStatus, Eventful, SchedulerTypeInv
  <2>3. CASE UpdateFrequency(s)
    <3>1. due' \in [Sources -> BOOLEAN]
      <4>1. (IF enabled[s] THEN FALSE ELSE due[s]) \in BOOLEAN
        BY <1>0
      <4> QED
        BY <1>0, <2>3, <4>1 DEF UpdateFrequency
    <3>2. /\ requested' \in Nat /\ rejections + crashes + requested' <= MaxEvents
          /\ UNCHANGED <<enabled, dues, crawlJobs, ticks, daily, mishaps>>
      BY <1>0, <2>3 DEF UpdateFrequency, Eventful
    <3> QED
      BY <1>0, <3>1, <3>2 DEF SchedulerTypeInv
  <2> QED
    BY <1>1, <2>1, <2>2, <2>3
<1>2. CASE NextDay
  BY <1>0, <1>2 DEF NextDay, SchedulerTypeInv
<1>3. ASSUME NEW t \in Ticks, TickStart(t) PROVE SchedulerTypeInv'
  BY <1>0, <1>3 DEF TickStart, DueNow, SchedulerTypeInv
<1>4. ASSUME NEW t \in Ticks, TickCreate(t) PROVE SchedulerTypeInv'
  <2>1. PICK s \in dueSources[t] :
          /\ crawlJobs' = Append(crawlJobs,
                            [source |-> s, status |-> "PENDING", queued |-> FALSE])
          /\ source' = [source EXCEPT ![t] = s]
          /\ dueSources' = [dueSources EXCEPT ![t] = @ \ {s}]
    BY <1>4 DEF TickCreate
  <2>2. /\ s \in Sources
        /\ [source |-> s, status |-> "PENDING", queued |-> FALSE] \in CrawlJobRow
    BY <1>0, <2>1 DEF CrawlJobRow
  <2>3. /\ crawlJobs' \in Seq(CrawlJobRow) /\ Len(crawlJobs') = Len(crawlJobs) + 1
        /\ DOMAIN crawlJobs' = DOMAIN crawlJobs \union {Len(crawlJobs')}
        /\ \A k \in DOMAIN crawlJobs : crawlJobs'[k] = crawlJobs[k]
    BY <1>0, <2>1, <2>2, JobAppended
  <2>4. SchedulerTypeOK'
    BY <1>0, <1>4, <2>1, <2>2, <2>3 DEF TickCreate
  <2>5. Tracked'
    BY <1>0, <1>4, <2>1, <2>2, <2>3 DEF TickCreate
  <2> QED
    BY <2>4, <2>5 DEF SchedulerTypeInv
<1>5. ASSUME NEW t \in Ticks, TickEnqueue(t) \/ TickFail(t) PROVE SchedulerTypeInv'
  <2>1. /\ jobOf[t] \in DOMAIN crawlJobs
        /\ \/ crawlJobs' = [crawlJobs EXCEPT ![jobOf[t]].queued = TRUE]
           \/ crawlJobs' = [crawlJobs EXCEPT ![jobOf[t]].status = "FAILED"]
        /\ TickEnqueue(t) => crawlJobs' = [crawlJobs EXCEPT ![jobOf[t]].queued = TRUE]
    BY <1>0, <1>5 DEF TickEnqueue, TickFail, MarkedFailed
  <2>2. /\ crawlJobs' \in Seq(CrawlJobRow) /\ Len(crawlJobs') = Len(crawlJobs)
        /\ DOMAIN crawlJobs' = DOMAIN crawlJobs
        /\ \A k \in DOMAIN crawlJobs : crawlJobs[k].queued => crawlJobs'[k].queued
        /\ TickEnqueue(t) => crawlJobs'[jobOf[t]].queued
    BY <1>0, <2>1, JobMarked
  <2>3. CASE TickEnqueue(t)
    BY <1>0, <2>1, <2>2, <2>3 DEF TickEnqueue, SchedulerTypeInv
  <2>4. CASE TickFail(t)
    BY <1>0, <2>1, <2>2, <2>4, SMTT(30) DEF TickFail, NextSource, SchedulerTypeInv
  <2> QED
    BY <1>5, <2>3, <2>4
<1>6. ASSUME NEW t \in Ticks, TickMove(t) PROVE SchedulerTypeInv'
  BY <1>0, <1>6 DEF TickMove, Moved, NextSource, SchedulerTypeInv
<1>7. ASSUME NEW t \in Ticks, TickIdle(t) \/ TickPoll(t) \/ TickPolled(t) PROVE SchedulerTypeInv'
  <2>1. CASE TickIdle(t)
    BY <1>0, <2>1 DEF TickIdle, TickLeave, SchedulerTypeInv
  <2>2. CASE TickPoll(t)
    BY <1>0, <2>2 DEF TickPoll, SchedulerTypeInv
  <2>3. CASE TickPolled(t)
    BY <1>0, <2>3 DEF TickPolled, TickLeave, SchedulerTypeInv
  <2> QED
    BY <1>7, <2>1, <2>2, <2>3
<1>8. ASSUME NEW t \in Ticks, TickReject(t) PROVE SchedulerTypeInv'
  BY <1>0, <1>8 DEF TickReject, Eventful, SchedulerTypeInv
<1>9. ASSUME NEW t \in Ticks, TickAbort(t) PROVE SchedulerTypeInv'
  BY <1>0, <1>9 DEF TickAbort, TickLeave, Eventful, SchedulerTypeInv
<1>10. CASE SchedulerCrash
  BY <1>0, <1>10 DEF SchedulerCrash, Eventful, SchedulerTypeInv
<1>11. CASE UNCHANGED scheduler
  BY <1>0, <1>11 DEF scheduler, SchedulerTypeInv
<1> QED
  BY <1>1, <1>2, <1>3, <1>4, <1>5, <1>6, <1>7, <1>8, <1>9, <1>10, <1>11
     DEF SchedulerNext, TickWork, SchedulerRest

\* No fairness is needed.
LEMMA SchedulerTyped == SchedulerInit /\ [][SchedulerNext]_scheduler => []SchedulerTypeOK
<1>1. SchedulerTypeInv /\ [SchedulerNext]_scheduler => SchedulerTypeInv'
  BY SchedulerTypeStep
<1>2. SchedulerTypeInv => SchedulerTypeOK
  BY DEF SchedulerTypeInv
<1> QED
  BY SchedulerTypeInit, <1>1, <1>2, PTL

\* The type invariant of the scheduler, its ticks and the jobs they create.
THEOREM SchedulerTypeCorrect == SchedulerSpec => []SchedulerTypeOK
BY SchedulerTyped, PTL DEF SchedulerSpec

-----------------------------------------------------------------------------
(* Jobs that nobody executes *)

\* Steps that strand no job and let no await reject.
LEMMA StrandedKept ==
  ASSUME SchedulerTypeInv, StrandedInv, UNCHANGED mishaps,
         Stranded' \subseteq Stranded, Failing' \subseteq Failing
  PROVE  StrandedInv'
<1>1. /\ IsFiniteSet(Stranded) /\ Cardinality(Stranded) \in Nat
      /\ IsFiniteSet(Failing) /\ Cardinality(Failing) \in Nat
  BY Sized DEF SchedulerTypeInv, Stranded, Failing
<1>2. /\ Cardinality(Stranded') \in Nat /\ Cardinality(Stranded') <= Cardinality(Stranded)
      /\ Cardinality(Failing') \in Nat /\ Cardinality(Failing') <= Cardinality(Failing)
  BY <1>1, FS_Subset, FS_CardinalityType
<1> DEFINE bound == 2 * Cardinality(Ticks) * crashes + rejections
<1>3. bound \in Nat /\ bound' = bound
  <2>1. Cardinality(Ticks) \in Nat /\ crashes \in Nat /\ rejections \in Nat
    BY Sized DEF SchedulerTypeInv, SchedulerTypeOK
  <2> QED
    BY <2>1 DEF mishaps
<1> QED
  BY <1>1, <1>2, <1>3 DEF StrandedInv

LEMMA StrandedStep ==
  ASSUME SchedulerTypeInv, StrandedInv, [SchedulerNext]_scheduler
  PROVE  StrandedInv'
<1>0. /\ SchedulerTypeInv /\ SchedulerTypeOK /\ Tracked
      /\ tpc \in [Ticks -> TickPcs] /\ jobOf \in [Ticks -> 0..Len(crawlJobs)]
      /\ Len(crawlJobs) \in Nat /\ DOMAIN crawlJobs = 1..Len(crawlJobs)
      /\ rejections \in Nat /\ crashes \in Nat /\ Cardinality(Ticks) \in Nat
  BY JobsTyped, Sized DEF SchedulerTypeInv, SchedulerTypeOK
<1>a. /\ IsFiniteSet(Stranded) /\ Cardinality(Stranded) \in Nat
      /\ IsFiniteSet(Failing) /\ Cardinality(Failing) \in Nat
  BY <1>0, Sized DEF Stranded, Failing
<1>1. CASE \/ \E s \in Sources : ComesDue(s) \/ SetSourceStatus(s) \/ UpdateFrequency(s)
           \/ NextDay \/ UNCHANGED scheduler
  <2>1. UNCHANGED <<crawlJobs, tpc, jobOf, mishaps>>
    BY <1>1 DEF ComesDue, SetSourceStatus, UpdateFrequency, NextDay, scheduler, ticks
  <2> QED
    BY <2>1, StrandedKept DEF Stranded, Failing
<1>2. ASSUME NEW t \in Ticks, TickStart(t) \/ TickPoll(t) PROVE StrandedInv'
  <2>1. /\ UNCHANGED <<crawlJobs, jobOf, mishaps>>
        /\ \E p \in {"loop", "poll"} : tpc' = [tpc EXCEPT ![t] = p]
    BY <1>2 DEF TickStart, TickPoll, TickGoto
  <2> QED
    BY <1>0, <2>1, StrandedKept DEF Stranded, Failing
<1>3. ASSUME NEW t \in Ticks, TickIdle(t) \/ TickPolled(t) PROVE StrandedInv'
  <2>1. /\ UNCHANGED <<crawlJobs, mishaps>> /\ jobOf[t] = 0
        /\ jobOf' = [jobOf EXCEPT ![t] = 0] /\ tpc' = [tpc EXCEPT ![t] = "idle"]
    BY <1>0, <1>3 DEF TickIdle, TickPolled, TickLeave, Tracked
  <2> QED
    BY <1>0, <2>1, StrandedKept DEF Stranded, Failing
<1>4. ASSUME NEW t \in Ticks, TickCreate(t) PROVE StrandedInv'
  <2>1. PICK s \in dueSources[t] :
          crawlJobs' = Append(crawlJobs, [source |-> s, status |-> "PENDING", queued |-> FALSE])
    BY <1>4 DEF TickCreate
  <2>2. /\ jobOf[t] = 0 /\ jobOf' = [jobOf EXCEPT ![t] = Len(crawlJobs')]
        /\ tpc' = [tpc EXCEPT ![t] = "enqueue"] /\ UNCHANGED mishaps
    BY <1>0, <1>4 DEF TickCreate, TickGoto, Tracked
  <2>3. /\ DOMAIN crawlJobs' = DOMAIN crawlJobs \union {Len(crawlJobs')}
        /\ \A k \in DOMAIN crawlJobs : crawlJobs'[k] = crawlJobs[k]
    <3>1. [source |-> s, status |-> "PENDING", queued |-> FALSE] \in CrawlJobRow
      BY <1>0, <2>1 DEF CrawlJobRow, SchedulerTypeOK
    <3> QED
      BY <1>0, <2>1, <3>1, JobAppended
  <2>4. Stranded' \subseteq Stranded
    <3> SUFFICES ASSUME NEW i \in Stranded' PROVE i \in Stranded
      OBVIOUS
    <3>1. /\ i \in DOMAIN crawlJobs' /\ \A u \in Ticks : jobOf'[u] # i
          /\ crawlJobs'[i].status = "PENDING" /\ ~crawlJobs'[i].queued
      BY DEF Stranded
    <3>2. jobOf'[t] = Len(crawlJobs')
      BY <1>0, <2>2
    <3>3. i \in DOMAIN crawlJobs /\ crawlJobs'[i] = crawlJobs[i] /\ i # 0
      <4>1. i # Len(crawlJobs')
        BY <3>1, <3>2
      <4>2. i \in DOMAIN crawlJobs /\ crawlJobs'[i] = crawlJobs[i]
        BY <2>3, <3>1, <4>1, Zenon
      <4> QED
        BY <1>0, <4>2
    <3>4. \A u \in Ticks : jobOf[u] # i
      BY <1>0, <2>2, <3>1, <3>3
    <3> QED
      BY <3>1, <3>3, <3>4 DEF Stranded
  <2> QED
    BY <1>0, <2>2, <2>4, StrandedKept DEF Failing
<1>5. ASSUME NEW t \in Ticks, TickEnqueue(t) PROVE StrandedInv'
  <2>1. /\ jobOf[t] \in DOMAIN crawlJobs /\ UNCHANGED <<jobOf, mishaps>>
        /\ crawlJobs' = [crawlJobs EXCEPT ![jobOf[t]].queued = TRUE]
        /\ tpc' = [tpc EXCEPT ![t] = "move"]
    BY <1>0, <1>5 DEF TickEnqueue, TickGoto, Tracked
  <2>2. Stranded' \subseteq Stranded
    BY <1>0, <2>1, JobMarked DEF Stranded
  <2> QED
    BY <1>0, <2>1, <2>2, StrandedKept DEF Failing
<1>6. ASSUME NEW t \in Ticks, TickMove(t) PROVE StrandedInv'
  <2>1. /\ crawlJobs[jobOf[t]].queued /\ UNCHANGED <<crawlJobs, mishaps>>
        /\ jobOf' = [jobOf EXCEPT ![t] = 0] /\ tpc' = [tpc EXCEPT ![t] = "loop"]
    BY <1>0, <1>6 DEF TickMove, NextSource, TickGoto, Tracked
  <2> QED
    BY <1>0, <2>1, StrandedKept DEF Stranded, Failing
<1>7. ASSUME NEW t \in Ticks, TickFail(t) PROVE StrandedInv'
  <2>1. /\ jobOf[t] \in DOMAIN crawlJobs /\ UNCHANGED mishaps
        /\ crawlJobs' = [crawlJobs EXCEPT ![jobOf[t]].status = "FAILED"]
        /\ jobOf' = [jobOf EXCEPT ![t] = 0] /\ tpc' = [tpc EXCEPT ![t] = "loop"]
    BY <1>0, <1>7 DEF TickFail, MarkedFailed, NextSource, TickGoto, Tracked
  <2>2. Stranded' \subseteq Stranded
    BY <1>0, <2>1, JobMarked DEF Stranded
  <2> QED
    BY <1>0, <2>1, <2>2, StrandedKept DEF Failing
<1> DEFINE S == Cardinality(Stranded)  F == Cardinality(Failing)
           c == 2 * Cardinality(Ticks) * crashes
<1>b. c \in Nat
  BY <1>0
<1>8. ASSUME NEW t \in Ticks, TickReject(t) PROVE StrandedInv'
  <2>1. /\ UNCHANGED <<crawlJobs, jobOf, crashes>> /\ rejections' = rejections + 1
        /\ tpc' = [tpc EXCEPT ![t] = "fail"] /\ tpc[t] # "fail"
    BY <1>8 DEF TickReject, TickGoto
  <2>2. Stranded' = Stranded
    BY <2>1 DEF Stranded
  <2>3. Failing' = Failing \union {t} /\ t \notin Failing
    BY <1>0, <2>1 DEF Failing
  <2>4. Cardinality(Failing') = Cardinality(Failing) + 1
    BY <1>a, <2>3, FS_AddElement
  <2> QED
    BY <1>0, <1>a, <1>b, <2>1, <2>2, <2>4, SMTT(30) DEF StrandedInv
<1>9. ASSUME NEW t \in Ticks, TickAbort(t) PROVE StrandedInv'
  <2>1. /\ UNCHANGED <<crawlJobs, crashes>> /\ rejections' = rejections + 1
        /\ tpc' = [tpc EXCEPT ![t] = "idle"] /\ jobOf' = [jobOf EXCEPT ![t] = 0]
        /\ tpc[t] = "fail" \/ jobOf[t] = 0
    BY <1>0, <1>9 DEF TickAbort, TickLeave, Tracked
  <2>2. CASE jobOf[t] = 0
    <3>1. Stranded' = Stranded /\ Failing' \subseteq Failing
      BY <1>0, <2>1, <2>2 DEF Stranded, Failing
    <3>2. Cardinality(Failing') \in Nat /\ Cardinality(Failing') <= F
      BY <1>a, <3>1, FS_Subset, FS_CardinalityType
    <3> QED
      BY <1>0, <1>a, <1>b, <2>1, <3>1, <3>2, SMTT(30) DEF StrandedInv
  <2>3. CASE tpc[t] = "fail"
    <3>1. Stranded' \subseteq Stranded \union {jobOf[t]}
      BY <1>0, <2>1 DEF Stranded
    <3>2. Failing' = Failing \ {t} /\ t \in Failing
      BY <1>0, <2>1, <2>3 DEF Failing
    <3>3. Cardinality(Failing') = F - 1
      BY <1>a, <3>2, FS_RemoveElement
    <3>4. /\ IsFiniteSet(Stranded \union {jobOf[t]})
          /\ Cardinality(Stranded \union {jobOf[t]}) \in Nat
          /\ Cardinality(Stranded \union {jobOf[t]}) <= S + 1
      <4>1. /\ IsFiniteSet(Stranded \union {jobOf[t]})
            /\ Cardinality(Stranded \union {jobOf[t]}) \in {S, S + 1}
        BY <1>a, FS_AddElement
      <4> QED
        BY <1>a, <4>1
    <3>5. Cardinality(Stranded') \in Nat /\ Cardinality(Stranded') <= S + 1
      BY <1>a, <3>1, <3>4, FS_Subset, FS_CardinalityType
    <3> QED
      <4>1. 2 * S + F <= c + rejections
        BY DEF StrandedInv
      <4>2. 2 * Cardinality(Ticks) * crashes' = c
        BY <2>1
      <4> HIDE DEF S, F, c
      <4>3. 2 * Cardinality(Stranded') + (F - 1) <= c + (rejections + 1)
        BY <1>0, <1>a, <1>b, <3>5, <4>1 DEF S, F
      <4> QED
        BY <2>1, <3>3, <4>2, <4>3 DEF StrandedInv
  <2> QED
    BY <2>1, <2>2, <2>3
<1>10. CASE SchedulerCrash
  <2>1. /\ UNCHANGED <<crawlJobs, rejections>> /\ crashes' = crashes + 1
        /\ tpc' = [t \in Ticks |-> "idle"] /\ jobOf' = [t \in Ticks |-> 0]
    BY <1>10 DEF SchedulerCrash
  <2> DEFINE held == {jobOf[t] : t \in Ticks}
  <2>2. Stranded' \subseteq Stranded \union held
    BY <1>0, <2>1 DEF Stranded
  <2>3. Failing' = {}
    BY <2>1 DEF Failing
  <2>4. IsFiniteSet(held) /\ Cardinality(held) \in Nat /\ Cardinality(held) <= Cardinality(Ticks)
    <3>1. jobOf \in Surjection(Ticks, held)
      BY <1>0 DEF Surjection
    <3> HIDE DEF held
    <3> QED
      BY <3>1, SchedulerAssumption, FS_Surjection, FS_CardinalityType
  <2> HIDE DEF held
  <2>5. /\ IsFiniteSet(Stranded \union held)
        /\ Cardinality(Stranded \union held) \in Nat
        /\ Cardinality(Stranded \union held) <= S + Cardinality(held)
    <3>1. /\ IsFiniteSet(Stranded \union held)
          /\ Cardinality(Stranded \union held) =
               S + Cardinality(held) - Cardinality(Stranded \intersect held)
      BY <1>a, <2>4, FS_Union
    <3>2. Cardinality(Stranded \intersect held) \in Nat
      BY <1>a, FS_Subset, FS_CardinalityType
    <3> QED
      BY <1>a, <2>4, <3>1, <3>2, FS_CardinalityType
  <2>6. Cardinality(Stranded') \in Nat /\ Cardinality(Stranded') <= S + Cardinality(Ticks)
    BY <1>0, <1>a, <2>2, <2>4, <2>5, FS_Subset, FS_CardinalityType
  <2>7. 2 * Cardinality(Ticks) * (crashes + 1) = c + 2 * Cardinality(Ticks)
    BY <1>0
  <2>8. Cardinality(Failing') = 0
    BY <2>3, FS_EmptySet
  <2> QED
    <3>1. 2 * S + F <= c + rejections
      BY DEF StrandedInv
    <3>2. 2 * Cardinality(Ticks) * crashes' + rejections'
            = c + 2 * Cardinality(Ticks) + rejections
      BY <2>1, <2>7
    <3> HIDE DEF S, F, c
    <3>3. 2 * Cardinality(Stranded') + 0 <= c + 2 * Cardinality(Ticks) + rejections
      BY <1>0, <1>a, <1>b, <2>6, <3>1 DEF S, F
    <3> QED
      BY <2>8, <3>2, <3>3 DEF StrandedInv
<1> QED
  BY <1>1, <1>2, <1>3, <1>4, <1>5, <1>6, <1>7, <1>8, <1>9, <1>10
     DEF SchedulerNext, TickWork, SchedulerRest

\* No fairness is needed.
LEMMA StrandedAlways == SchedulerInit /\ [][SchedulerNext]_scheduler => []StrandedOnlyByFaults
<1>1. SchedulerInit => StrandedInv
  <2> SUFFICES ASSUME SchedulerInit PROVE StrandedInv
    OBVIOUS
  <2>1. Stranded = {} /\ Failing = {}
    BY DEF SchedulerInit, Stranded, Failing
  <2>2. Cardinality(Ticks) \in Nat /\ crashes = 0 /\ rejections = 0
    BY SchedulerAssumption, FS_CardinalityType DEF SchedulerInit
  <2> QED
    BY <2>1, <2>2, FS_EmptySet DEF StrandedInv
<1>2. SchedulerTypeInv /\ StrandedInv /\ [SchedulerNext]_scheduler
     => (SchedulerTypeInv /\ StrandedInv)'
  BY SchedulerTypeStep, StrandedStep
<1>3. SchedulerTypeInv /\ StrandedInv => StrandedOnlyByFaults
  <2> SUFFICES ASSUME SchedulerTypeInv, StrandedInv PROVE StrandedOnlyByFaults
    OBVIOUS
  <2>1. Cardinality(Stranded) \in Nat /\ Cardinality(Failing) \in Nat
    BY Sized DEF SchedulerTypeInv, Stranded, Failing
  <2>2. 2 * Cardinality(Ticks) * crashes + rejections \in Nat
    <3>1. Cardinality(Ticks) \in Nat /\ crashes \in Nat /\ rejections \in Nat
      BY Sized DEF SchedulerTypeInv, SchedulerTypeOK
    <3> QED
      BY <3>1
  <2> QED
    BY <2>1, <2>2 DEF StrandedInv, StrandedOnlyByFaults
<1> QED
  BY SchedulerTypeInit, <1>1, <1>2, <1>3, PTL

\* A job that nobody executes and nobody marked FAILED exists only after a crash, at
\* most one per tick, or after both its enqueue and its mark were rejected.
THEOREM JobsAreStrandedByFaults == SchedulerSpec => []StrandedOnlyByFaults
BY StrandedAlways, PTL DEF SchedulerSpec

-----------------------------------------------------------------------------
(* The jobs of a source *)

\* The jobs of a source are as many as before.
LEMMA JobsOfSame ==
  ASSUME DOMAIN crawlJobs' = DOMAIN crawlJobs,
         \A i \in DOMAIN crawlJobs : crawlJobs'[i].source = crawlJobs[i].source, NEW s
  PROVE  JobsOf(s)' = JobsOf(s)
BY DEF JobsOf

\* Steps that create no job, let no await reject and make no job come.
LEMMA JobsKept ==
  ASSUME SchedulerTypeInv, JobsInv, ~overlapped' => ~overlapped, UNCHANGED <<dues, mishaps>>,
         DOMAIN crawlJobs' = DOMAIN crawlJobs,
         \A i \in DOMAIN crawlJobs : crawlJobs'[i].source = crawlJobs[i].source,
         ~overlapped' => \A s \in Sources : Coming(s)' => Coming(s)
  PROVE  JobsInv'
<1>1. \A s \in Sources : /\ JobsOf(s)' = JobsOf(s) /\ Cardinality(JobsOf(s)) \in Nat
                         /\ dues[s] \in Nat
  BY JobsOfSame, Sized DEF JobsOf, SchedulerTypeInv, SchedulerTypeOK
<1>2. rejections \in Nat /\ crashes \in Nat
  BY DEF SchedulerTypeInv, SchedulerTypeOK
<1> QED
  BY <1>1, <1>2 DEF JobsInv, mishaps

\* After a fault the bound allows one more job of each source.
LEMMA JobsAfterFault ==
  ASSUME SchedulerTypeInv, JobsInv, UNCHANGED <<dues, crawlJobs, overlapped>>,
         \/ rejections' = rejections + 1 /\ crashes' = crashes
         \/ crashes' = crashes + 1 /\ rejections' = rejections
  PROVE  JobsInv'
<1>1. \A s \in Sources : /\ JobsOf(s)' = JobsOf(s) /\ Cardinality(JobsOf(s)) \in Nat
                         /\ dues[s] \in Nat
  BY JobsOfSame, Sized DEF JobsOf, SchedulerTypeInv, SchedulerTypeOK
<1>2. rejections \in Nat /\ crashes \in Nat
  BY DEF SchedulerTypeInv, SchedulerTypeOK
<1> QED
  BY <1>1, <1>2 DEF JobsInv

LEMMA AloneStep == ASSUME SchedulerTypeInv, Alone, [SchedulerNext]_scheduler PROVE Alone'
<1>0. tpc \in [Ticks -> TickPcs] /\ overlapped \in BOOLEAN
  BY DEF SchedulerTypeInv, SchedulerTypeOK
<1>1. ASSUME NEW t \in Ticks, TickStart(t) PROVE Alone'
  BY <1>0, <1>1 DEF TickStart, TickGoto, Alone
<1>2. CASE /\ UNCHANGED overlapped
           /\ \A t \in Ticks : tpc'[t] # "idle" => tpc[t] # "idle"
  BY <1>2 DEF Alone
<1>3. ASSUME NEW t \in Ticks, \/ TickCreate(t) \/ TickEnqueue(t) \/ TickMove(t) \/ TickFail(t)
                              \/ TickIdle(t) \/ TickPoll(t) \/ TickPolled(t)
                              \/ TickReject(t) \/ TickAbort(t)
      PROVE  Alone'
  <2>1. tpc[t] # "idle" /\ UNCHANGED overlapped
    BY <1>3 DEF TickCreate, TickEnqueue, TickMove, TickFail, TickIdle, TickPoll, TickPolled,
                TickReject, TickAbort, TickLeave
  <2>2. \A u \in Ticks \ {t} : tpc'[u] = tpc[u]
    BY <1>0, <1>3 DEF TickCreate, TickEnqueue, TickMove, TickFail, TickIdle, TickPoll,
                TickPolled, TickReject, TickAbort, TickLeave, NextSource, TickGoto
  <2> QED
    BY <1>2, <2>1, <2>2
<1>4. CASE SchedulerCrash
  BY <1>2, <1>4 DEF SchedulerCrash
<1>5. CASE \/ \E s \in Sources : ComesDue(s) \/ SetSourceStatus(s) \/ UpdateFrequency(s)
           \/ NextDay \/ UNCHANGED scheduler
  BY <1>2, <1>5 DEF ComesDue, SetSourceStatus, UpdateFrequency, NextDay, scheduler, ticks
<1> QED
  BY <1>1, <1>3, <1>4, <1>5 DEF SchedulerNext, TickWork, SchedulerRest

LEMMA JobsStep ==
  ASSUME SchedulerTypeInv, Alone, JobsInv, [SchedulerNext]_scheduler
  PROVE  JobsInv'
<1>0. /\ SchedulerTypeInv /\ SchedulerTypeOK /\ Tracked /\ NoSource \notin Sources
      /\ tpc \in [Ticks -> TickPcs] /\ source \in [Ticks -> Sources \union {NoSource}]
      /\ dueSources \in [Ticks -> SUBSET Sources]
      /\ due \in [Sources -> BOOLEAN] /\ enabled \in [Sources -> BOOLEAN]
      /\ overlapped \in BOOLEAN
  BY SchedulerAssumption DEF SchedulerTypeInv, SchedulerTypeOK
<1>a. /\ \A s \in Sources : /\ IsFiniteSet(JobsOf(s)) /\ Cardinality(JobsOf(s)) \in Nat
                            /\ dues[s] \in Nat
      /\ rejections \in Nat /\ crashes \in Nat
  BY <1>0, Sized DEF JobsOf, SchedulerTypeOK
<1>1. ASSUME NEW s \in Sources, ComesDue(s) PROVE JobsInv'
  <2>1. /\ ~due[s] /\ ~InHand(s) /\ due' = [due EXCEPT ![s] = TRUE]
        /\ dues' = [dues EXCEPT ![s] = @ + 1]
        /\ UNCHANGED <<enabled, crawlJobs, tpc, dueSources, source, overlapped, rejections,
                       crashes>>
    BY <1>1 DEF ComesDue, ticks, mishaps
  <2>2. \A r \in Sources : JobsOf(r)' = JobsOf(r)
    BY <2>1, JobsOfSame
  <2>3. ~Coming(s)
    BY <2>1 DEF Coming, InHand
  <2>4. \A r \in Sources \ {s} : Coming(r)' => Coming(r)
    BY <1>0, <2>1 DEF Coming
  <2>5. dues'[s] = dues[s] + 1 /\ \A r \in Sources \ {s} : dues'[r] = dues[r]
    BY <1>0, <2>1 DEF SchedulerTypeOK
  <2> SUFFICES ASSUME ~overlapped', NEW r \in Sources
               PROVE  Cardinality(JobsOf(r)') + (IF Coming(r)' THEN 1 ELSE 0)
                        <= dues'[r] + rejections' + crashes'
    BY DEF JobsInv
  <2> QED
    BY <1>a, <2>1, <2>2, <2>3, <2>4, <2>5 DEF JobsInv
<1>2. ASSUME NEW s \in Sources, SetSourceStatus(s) \/ UpdateFrequency(s) PROVE JobsInv'
  <2>1. /\ UNCHANGED <<dues, crawlJobs, tpc, dueSources, source, overlapped, mishaps>>
        /\ \A r \in Sources : due'[r] /\ enabled'[r] => due[r] /\ enabled[r]
    BY <1>0, <1>2 DEF SetSourceStatus, UpdateFrequency, ticks
  <2>2. \A r \in Sources : Coming(r)' => Coming(r)
    BY <2>1 DEF Coming
  <2> QED
    BY <1>0, <2>1, <2>2, JobsKept
<1>3. CASE NextDay \/ UNCHANGED scheduler
  <2>1. UNCHANGED <<sources, crawlJobs, ticks, mishaps>>
    BY <1>3 DEF NextDay, scheduler
  <2>2. \A r \in Sources : Coming(r)' => Coming(r)
    BY <2>1 DEF Coming, sources, ticks
  <2> QED
    BY <1>0, <2>1, <2>2, JobsKept DEF sources, ticks
<1>4. ASSUME NEW t \in Ticks, TickStart(t) PROVE JobsInv'
  <2>1. /\ UNCHANGED <<due, enabled, dues, crawlJobs, source, mishaps>>
        /\ dueSources' = [dueSources EXCEPT ![t] = DueNow]
        /\ tpc' = [tpc EXCEPT ![t] = "loop"]
        /\ ~overlapped' => ~overlapped /\ \A u \in Ticks : tpc[u] = "idle"
    BY <1>0, <1>4 DEF TickStart, TickGoto, sources
  <2>2. ASSUME ~overlapped', NEW r \in Sources, Coming(r)' PROVE Coming(r)
    <3>1. \A u \in Ticks : source[u] = NoSource /\ dueSources[u] = {}
      BY <1>0, <2>1, <2>2 DEF Tracked
    <3>2. CASE \E u \in Ticks : r \in dueSources'[u]
      <4>1. r \in DueNow
        BY <1>0, <2>1, <3>1, <3>2
      <4> QED
        BY <1>0, <3>1, <4>1 DEF DueNow, Coming
    <3>3. CASE ~\E u \in Ticks : r \in dueSources'[u]
      BY <1>0, <2>1, <2>2, <3>1, <3>3 DEF Coming
    <3> QED
      BY <3>2, <3>3
  <2> QED
    BY <1>0, <2>1, <2>2, JobsKept
<1>5. ASSUME NEW t \in Ticks, TickCreate(t) PROVE JobsInv'
  <2>1. PICK s \in dueSources[t] :
          /\ crawlJobs' = Append(crawlJobs,
                            [source |-> s, status |-> "PENDING", queued |-> FALSE])
          /\ source' = [source EXCEPT ![t] = s]
          /\ dueSources' = [dueSources EXCEPT ![t] = @ \ {s}]
    BY <1>5 DEF TickCreate
  <2>2. /\ UNCHANGED <<due, enabled, dues, overlapped, rejections, crashes>>
        /\ tpc[t] = "loop" /\ tpc' = [tpc EXCEPT ![t] = "enqueue"]
        /\ s \in Sources /\ source[t] = NoSource
    BY <1>0, <1>5, <2>1 DEF TickCreate, TickGoto, Tracked, sources, mishaps
  <2> SUFFICES ASSUME ~overlapped' PROVE JobsInv'
    BY DEF JobsInv
  <2>3. \A u \in Ticks \ {t} : source[u] = NoSource /\ dueSources[u] = {}
    BY <1>0, <2>2 DEF Alone, Tracked
  <2>4. Coming(s) /\ ~Coming(s)'
    BY <1>0, <2>1, <2>2, <2>3 DEF Coming
  <2>5. \A r \in Sources \ {s} : Coming(r)' => Coming(r)
    BY <1>0, <2>1, <2>2, <2>3 DEF Coming
  <2> DEFINE row == [source |-> s, status |-> "PENDING", queued |-> FALSE]
  <2>6. PICK n : /\ DOMAIN crawlJobs' = DOMAIN crawlJobs \union {n}
                 /\ n \notin DOMAIN crawlJobs
                 /\ \A k \in DOMAIN crawlJobs : crawlJobs'[k] = crawlJobs[k]
                 /\ crawlJobs'[n] = row
    <3>1. row \in CrawlJobRow
      BY <2>2 DEF CrawlJobRow
    <3> QED
      BY <1>0, <2>1, <3>1, JobAppended
  <2>7. row.source = s
    OBVIOUS
  <2> HIDE DEF row
  <2>8. JobsOf(s)' = JobsOf(s) \union {n} /\ n \notin JobsOf(s)
    BY <2>6, <2>7 DEF JobsOf
  <2>9. Cardinality(JobsOf(s)') = Cardinality(JobsOf(s)) + 1
    BY <1>a, <2>2, <2>8, FS_AddElement
  <2>10. \A r \in Sources \ {s} : JobsOf(r)' = JobsOf(r)
    BY <2>6, <2>7 DEF JobsOf
  <2> QED
    BY <1>a, <2>2, <2>4, <2>5, <2>9, <2>10 DEF JobsInv
<1>6. ASSUME NEW t \in Ticks, TickEnqueue(t) PROVE JobsInv'
  <2>1. /\ jobOf[t] \in DOMAIN crawlJobs
        /\ crawlJobs' = [crawlJobs EXCEPT ![jobOf[t]].queued = TRUE]
        /\ UNCHANGED <<due, enabled, dues, dueSources, source, overlapped, mishaps>>
        /\ tpc' = [tpc EXCEPT ![t] = "move"]
    BY <1>0, <1>6 DEF TickEnqueue, TickGoto, Tracked, sources
  <2>2. /\ DOMAIN crawlJobs' = DOMAIN crawlJobs
        /\ \A i \in DOMAIN crawlJobs : crawlJobs'[i].source = crawlJobs[i].source
    BY <1>0, <2>1, JobMarked
  <2>3. \A r \in Sources : Coming(r)' => Coming(r)
    BY <1>0, <2>1 DEF Coming
  <2> QED
    BY <1>0, <2>1, <2>2, <2>3, JobsKept
<1>7. ASSUME NEW t \in Ticks, TickMove(t) PROVE JobsInv'
  <2>1. /\ source[t] \in Sources /\ due' = [due EXCEPT ![source[t]] = FALSE]
        /\ source' = [source EXCEPT ![t] = NoSource] /\ tpc' = [tpc EXCEPT ![t] = "loop"]
        /\ UNCHANGED <<enabled, dues, crawlJobs, dueSources, overlapped, mishaps>>
    BY <1>0, <1>7 DEF TickMove, Moved, NextSource, TickGoto, Tracked
  <2>2. \A r \in Sources : Coming(r)' => Coming(r)
    BY <1>0, <2>1 DEF Coming
  <2> QED
    BY <1>0, <2>1, <2>2, JobsKept
<1>8. ASSUME NEW t \in Ticks, TickFail(t) PROVE JobsInv'
  <2>1. /\ jobOf[t] \in DOMAIN crawlJobs /\ source[t] \in Sources /\ tpc[t] = "fail"
        /\ crawlJobs' = [crawlJobs EXCEPT ![jobOf[t]].status = "FAILED"]
        /\ source' = [source EXCEPT ![t] = NoSource] /\ tpc' = [tpc EXCEPT ![t] = "loop"]
        /\ UNCHANGED <<due, enabled, dues, dueSources, overlapped, mishaps>>
    BY <1>0, <1>8 DEF TickFail, MarkedFailed, NextSource, TickGoto, Tracked, sources
  <2>2. /\ DOMAIN crawlJobs' = DOMAIN crawlJobs
        /\ \A i \in DOMAIN crawlJobs : crawlJobs'[i].source = crawlJobs[i].source
    BY <1>0, <2>1, JobMarked
  <2>3. Coming(source[t])
    BY <2>1 DEF Coming
  <2>4. \A r \in Sources \ {source[t]} : Coming(r)' => Coming(r)
    BY <1>0, <2>1 DEF Coming
  <2> QED
    BY <1>0, <2>1, <2>2, <2>3, <2>4, JobsKept
<1>9. ASSUME NEW t \in Ticks, TickIdle(t) \/ TickPoll(t) \/ TickPolled(t) PROVE JobsInv'
  <2>1. /\ UNCHANGED <<due, enabled, dues, crawlJobs, overlapped, mishaps>>
        /\ \E p \in {"idle", "poll"} : tpc' = [tpc EXCEPT ![t] = p]
        /\ source' = source \/ source' = [source EXCEPT ![t] = NoSource]
        /\ dueSources' = dueSources \/ dueSources' = [dueSources EXCEPT ![t] = {}]
        /\ source[t] = NoSource
    BY <1>0, <1>9
       DEF TickIdle, TickPoll, TickPolled, TickLeave, TickGoto, Tracked, sources
  <2>2. \A r \in Sources : Coming(r)' => Coming(r)
    BY <1>0, <2>1 DEF Coming
  <2> QED
    BY <1>0, <2>1, <2>2, JobsKept
<1>10. ASSUME NEW t \in Ticks, TickReject(t) \/ TickAbort(t) PROVE JobsInv'
  BY <1>0, <1>10, JobsAfterFault DEF TickReject, TickAbort, TickLeave, sources
<1>11. CASE SchedulerCrash
  BY <1>0, <1>11, JobsAfterFault DEF SchedulerCrash, sources
<1> QED
  BY <1>1, <1>2, <1>3, <1>4, <1>5, <1>6, <1>7, <1>8, <1>9, <1>10, <1>11
     DEF SchedulerNext, TickWork, SchedulerRest

\* No fairness is needed.
LEMMA OneJobAlways == SchedulerInit /\ [][SchedulerNext]_scheduler => []OneJobPerDue
<1>1. SchedulerInit => Alone /\ JobsInv
  <2> SUFFICES ASSUME SchedulerInit PROVE Alone /\ JobsInv
    OBVIOUS
  <2>1. \A s \in Sources : /\ JobsOf(s) = {} /\ ~Coming(s) /\ dues[s] = 0
    BY DEF SchedulerInit, JobsOf, Coming
  <2>2. Cardinality({}) = 0 /\ rejections = 0 /\ crashes = 0
    BY FS_EmptySet DEF SchedulerInit
  <2> QED
    <3>1. Alone
      BY DEF Alone, SchedulerInit
    <3>2. \A s \in Sources : Cardinality(JobsOf(s)) = 0
      BY <2>1, <2>2
    <3>3. JobsInv
      BY <2>1, <2>2, <3>2 DEF JobsInv
    <3> QED
      BY <3>1, <3>3
<1>2. SchedulerTypeInv /\ Alone /\ JobsInv /\ [SchedulerNext]_scheduler
     => (SchedulerTypeInv /\ Alone /\ JobsInv)'
  BY SchedulerTypeStep, AloneStep, JobsStep
<1>3. SchedulerTypeInv /\ JobsInv => OneJobPerDue
  <2> SUFFICES ASSUME SchedulerTypeInv, JobsInv, ~overlapped, NEW s \in Sources
               PROVE  Cardinality(JobsOf(s)) <= dues[s] + rejections + crashes
    BY DEF OneJobPerDue
  <2>1. /\ Cardinality(JobsOf(s)) \in Nat /\ dues[s] \in Nat
        /\ rejections \in Nat /\ crashes \in Nat
    BY Sized DEF JobsOf, SchedulerTypeInv, SchedulerTypeOK
  <2> QED
    BY <2>1 DEF JobsInv
<1> QED
  BY SchedulerTypeInit, <1>1, <1>2, <1>3, PTL

\* As long as ticks do not overlap, a source gets one job each time it becomes due, in
\* spite of requests that change it meanwhile, and another one only for a fault.
THEOREM JobsPerDue == SchedulerSpec => []OneJobPerDue
BY OneJobAlways, PTL DEF SchedulerSpec

-----------------------------------------------------------------------------
(* Discovery *)

\* A task is enqueued by the poll that created it, once, and executed no more often
\* than BullMQ allows.
Handed ==
  /\ \A p \in Pollers : pollpc[p] = "enqueue" =>
       pollTask[p] \in DOMAIN tasks /\ dTask[pollTask[p]] = "none"
  /\ \A p, q \in Pollers :
       pollpc[p] = "enqueue" /\ pollpc[q] = "enqueue" /\ pollTask[p] = pollTask[q] => p = q
  /\ \A t \in DIds : dTask[t] # "none" => t \in DOMAIN tasks
  /\ \A t \in DIds : dTask[t] # "dead" => dFails[t] < MaxSearches
DiscoveryTypeInv == DiscoveryTypeOK /\ Handed

\* A task that was completed, and what it found, is left alone until it is executed
\* again, from its start; every URL that is known was NEW once.
Everything == {u \in Urls : results[u].NEW > 0}
Positive(bag) == {u \in Urls : bag[u] > 0}
CompletedInv ==
  /\ \A u \in Urls : results[u].DUPLICATE > 0 => results[u].NEW > 0
  /\ \A t \in DIds : /\ existingUrls[t] \subseteq Everything
                     /\ Positive(inserted[t]) \subseteq Everything
  /\ \A t \in DOMAIN tasks : tasks[t].status = "COMPLETED" =>
       /\ dpc[t] \notin {"discover", "known", "record"}
       /\ Positive(candidates[t]) \subseteq Everything

\* Until two tasks record side by side, what the one that records does not know, and
\* has not recorded itself, nobody has recorded, unless the query missed it.
Plain == Urls \ (repeated \union missed)
OnceInv ==
  /\ \A t \in DIds : \A u \in Plain : candidates[t][u] <= 1
  /\ ~sideBySide =>
       /\ \A s, t \in DIds : DAt(s, "record") /\ DAt(t, "record") => s = t
       /\ \A t \in DIds : DAt(t, "record") =>
            \A u \in Plain \ existingUrls[t] :
              candidates[t][u] > 0 /\ inserted[t][u] = 0 => results[u].NEW = 0
       /\ \A u \in Plain : results[u].NEW <= 1

LEMMA DiscoveryTyped ==
  ASSUME DiscoveryTypeInv
  PROVE  /\ Len(tasks) \in Nat /\ DOMAIN tasks = 1..Len(tasks) /\ DOMAIN tasks \subseteq DIds
         /\ \A i \in DOMAIN tasks : tasks[i] \in Task
         /\ MaxTasks \in Nat /\ MaxSearches \in Nat /\ MaxUpsets \in Nat
         /\ MaxFound \in Nat /\ Nowhere \in [Urls -> 0..MaxFound]
BY DiscoveryAssumption DEF DiscoveryTypeInv, DiscoveryTypeOK, DIds, Nowhere

LEMMA DiscoveryTypeInit == DiscoveryInit => DiscoveryTypeInv
<1> SUFFICES ASSUME DiscoveryInit PROVE DiscoveryTypeInv
  OBVIOUS
<1>1. << >> \in Seq(Task) /\ Len(<< >>) = 0
  OBVIOUS
<1>2. [NEW |-> 0, DUPLICATE |-> 0] \in [{"NEW", "DUPLICATE"} -> Nat]
  OBVIOUS
<1>3. results \in [Urls -> [{"NEW", "DUPLICATE"} -> Nat]]
  BY <1>2 DEF DiscoveryInit
<1>4. DiscoveryTypeOK
  <2>1. tasks \in Seq(Task) /\ Len(tasks) = 0 /\ MaxTasks \in Nat /\ MaxSearches \in Nat
        /\ MaxUpsets \in Nat
    BY <1>1, DiscoveryAssumption DEF DiscoveryInit
  <2>2. /\ searchDue \in BOOLEAN /\ sideBySide \in BOOLEAN
        /\ pollpc \in [Pollers -> {"idle", "create", "enqueue"}]
    BY DEF DiscoveryInit
  <2>5. upsets \in 0..MaxUpsets
    BY <2>1 DEF DiscoveryInit
  <2>6. pollTask \in [Pollers -> 0..Len(tasks)]
    <3>1. 0 \in 0..Len(tasks)
      BY <2>1
    <3> QED
      BY <3>1 DEF DiscoveryInit
  <2>3. /\ dTask \in [DIds -> {"none", "waiting", "active", "done", "dead"}]
        /\ dpc \in [DIds -> {"idle", "run", "discover", "known", "record", "source", "catch"}]
        /\ dFails \in [DIds -> 0..MaxSearches]
    BY <2>1 DEF DiscoveryInit
  <2>4. /\ candidates \in [DIds -> [Urls -> 0..MaxFound]]
        /\ inserted \in [DIds -> [Urls -> 0..MaxFound]]
        /\ existingUrls \in [DIds -> SUBSET Urls]
        /\ repeated \subseteq Urls /\ missed \subseteq Urls
    <3>1. Nowhere \in [Urls -> 0..MaxFound]
      BY DiscoveryAssumption DEF Nowhere
    <3> QED
      BY <3>1 DEF DiscoveryInit
  <2> QED
    BY <1>3, <2>1, <2>2, <2>3, <2>4, <2>5, <2>6 DEF DiscoveryTypeOK
<1>5. Handed
  BY DiscoveryAssumption DEF DiscoveryInit, Handed
<1> QED
  BY <1>4, <1>5 DEF DiscoveryTypeInv

\* The status of a task is written.
LEMMA TaskMarked ==
  ASSUME DiscoveryTypeInv, NEW t \in DIds, NEW s \in {"PENDING", "RUNNING", "COMPLETED", "FAILED"},
         tasks' = [tasks EXCEPT ![t].status = s]
  PROVE  /\ tasks' \in Seq(Task) /\ Len(tasks') = Len(tasks) /\ DOMAIN tasks' = DOMAIN tasks
         /\ \A i \in DOMAIN tasks : i # t => tasks'[i] = tasks[i]
         /\ t \in DOMAIN tasks => tasks'[t].status = s
<1>1. /\ tasks \in Seq(Task) /\ \A i \in DOMAIN tasks : tasks[i] \in Task
      /\ Len(tasks) \in Nat /\ DOMAIN tasks = 1..Len(tasks)
  BY DEF DiscoveryTypeInv, DiscoveryTypeOK
<1>2. CASE t \in DOMAIN tasks
  <2>1. [tasks[t] EXCEPT !.status = s] \in Task
    BY <1>1, <1>2 DEF Task
  <2>2. [tasks[t] EXCEPT !.status = s].status = s
    BY <1>1, <1>2 DEF Task
  <2>3. tasks' = [tasks EXCEPT ![t] = [tasks[t] EXCEPT !.status = s]]
    OBVIOUS
  <2>4. tasks' \in Seq(Task) /\ Len(tasks') = Len(tasks) /\ DOMAIN tasks' = DOMAIN tasks
    BY <1>1, <1>2, <2>1, <2>3
  <2>5. /\ \A i \in DOMAIN tasks : i # t => tasks'[i] = tasks[i]
        /\ tasks'[t] = [tasks[t] EXCEPT !.status = s]
    BY <1>2, <2>3
  <2> QED
    BY <2>2, <2>4, <2>5
<1>3. CASE t \notin DOMAIN tasks
  <2>1. tasks' = tasks
    BY <1>1, <1>3
  <2> QED
    BY <1>1, <1>3, <2>1
<1> QED
  BY <1>2, <1>3

\* Whichever rows the query returns, they are of URLs that are known.
LEMMA ReturnedIsKnown ==
  ASSUME NEW t, NEW K \in Returned(t)
  PROVE  K \subseteq KnownUrls(t)
BY DEF Returned

LEMMA DiscoveryTypeStep ==
  ASSUME DiscoveryTypeInv, [DiscoveryNext]_discovery PROVE DiscoveryTypeInv'
<1>0. /\ DiscoveryTypeOK /\ Handed
      /\ Len(tasks) \in Nat /\ DOMAIN tasks = 1..Len(tasks) /\ DOMAIN tasks \subseteq DIds
      /\ MaxTasks \in Nat /\ MaxSearches \in Nat /\ MaxUpsets \in Nat
      /\ MaxFound \in Nat /\ Nowhere \in [Urls -> 0..MaxFound]
  BY DiscoveryTyped DEF DiscoveryTypeInv
<1> USE DEF DiscoveryTypeOK, Handed, missteps, DIds, poll, execution, Upset, DAt, DGoto
<1>1. ASSUME NEW p \in Pollers, PollFind(p) \/ PollEnqueue(p) \/ PollFault(p)
      PROVE  DiscoveryTypeInv'
  <2>1. CASE PollFind(p)
    BY <1>0, <2>1 DEF PollFind, DiscoveryTypeInv
  <2>2. CASE PollEnqueue(p)
    <3>1. /\ dTask' = [dTask EXCEPT ![pollTask[p]] = "waiting"] /\ PollLeave(p)
          /\ UNCHANGED <<searchDue, tasks, results, execution, dFails, upsets, missteps>>
          /\ pollpc[p] = "enqueue" /\ pollTask[p] \in DOMAIN tasks
      BY <1>0, <2>2 DEF PollEnqueue
    <3>2. DiscoveryTypeOK'
      BY SMTT(60), <1>0, <3>1 DEF PollLeave
    <3>3. Handed'
      BY <1>0, <3>1 DEF PollLeave
    <3> QED
      BY <3>2, <3>3 DEF DiscoveryTypeInv
  <2>3. CASE PollFault(p)
    BY SMTT(60), <1>0, <2>3 DEF PollFault, PollLeave, DiscoveryTypeInv
  <2> QED
    BY <1>1, <2>1, <2>2, <2>3
<1>2. ASSUME NEW p \in Pollers, PollCreate(p) PROVE DiscoveryTypeInv'
  <2>1. [status |-> "PENDING"] \in Task
    BY DEF Task
  <2>2. /\ tasks' = Append(tasks, [status |-> "PENDING"]) /\ Len(tasks) < MaxTasks
        /\ pollTask' = [pollTask EXCEPT ![p] = Len(tasks')]
        /\ pollpc' = [pollpc EXCEPT ![p] = "enqueue"]
        /\ UNCHANGED <<searchDue, results, dTask, execution, dFails, upsets, missteps>>
    BY <1>2 DEF PollCreate
  <2>3. /\ tasks' \in Seq(Task) /\ Len(tasks') = Len(tasks) + 1
        /\ DOMAIN tasks' = 1..(Len(tasks) + 1)
    BY <1>0, <2>1, <2>2
  <2>4. DiscoveryTypeOK'
    BY SMTT(60), <1>0, <2>2, <2>3
  <2>5. Handed'
    <3>1. dTask[Len(tasks) + 1] = "none"
      BY <1>0, <2>2
    <3> QED
      BY <1>0, <2>2, <2>3, <3>1
  <2> QED
    BY <2>4, <2>5 DEF DiscoveryTypeInv
<1>3. CASE SearchComesDue
  BY <1>0, <1>3 DEF SearchComesDue, DiscoveryTypeInv
<1>4. ASSUME NEW t \in DIds, DRun(t) \/ Complete(t) PROVE DiscoveryTypeInv'
  <2>1. PICK s \in {"PENDING", "RUNNING", "COMPLETED", "FAILED"} :
          tasks' = [tasks EXCEPT ![t].status = s]
    BY <1>4 DEF DRun, Complete
  <2>2. tasks' \in Seq(Task) /\ Len(tasks') = Len(tasks) /\ DOMAIN tasks' = DOMAIN tasks
    BY <2>1, TaskMarked
  <2>3. /\ UNCHANGED <<searchDue, results, poll, dTask, candidates, existingUrls, inserted,
                       dFails, upsets, missteps>>
        /\ dpc' \in [DIds -> {"idle", "run", "discover", "known", "record", "source", "catch"}]
    <3>1. CASE DRun(t)
      BY <1>0, <3>1 DEF DRun
    <3>2. CASE Complete(t)
      BY <1>0, <3>2 DEF Complete
    <3> QED
      BY <1>4, <3>1, <3>2
  <2>4. DiscoveryTypeOK'
    BY <1>0, <2>2, <2>3
  <2>5. Handed'
    BY <1>0, <2>2, <2>3
  <2> QED
    BY <2>4, <2>5 DEF DiscoveryTypeInv
<1>5. ASSUME NEW t \in DIds, DTake(t) \/ Discover(t) \/ AskKnown(t) PROVE DiscoveryTypeInv'
  <2>1. CASE DTake(t)
    BY <1>0, <2>1 DEF DTake, DiscoveryTypeInv
  <2>2. CASE Discover(t)
    BY <1>0, <2>2 DEF Discover, CandidateBags, DiscoveryTypeInv
  <2>3. CASE AskKnown(t)
    <3>1. PICK K \in Returned(t) :
            /\ existingUrls' = [existingUrls EXCEPT ![t] = K]
            /\ missed' = missed \union (KnownUrls(t) \ K)
      BY <2>3 DEF AskKnown
    <3>2. KnownUrls(t) \subseteq Urls /\ K \subseteq Urls
      BY <3>1, ReturnedIsKnown DEF KnownUrls
    <3> QED
      BY <1>0, <2>3, <3>1, <3>2 DEF AskKnown, DiscoveryTypeInv
  <2> QED
    BY <1>5, <2>1, <2>2, <2>3
<1>6. ASSUME NEW t \in DIds, Record(t) PROVE DiscoveryTypeInv'
  <2>1. PICK u \in Urls :
          /\ inserted[t][u] < candidates[t][u]
          /\ results' = [results EXCEPT ![u][StatusOf(t, u)] = @ + 1]
          /\ inserted' = [inserted EXCEPT ![t][u] = @ + 1]
    BY <1>6 DEF Record
  <2>2. u \in Urls /\ StatusOf(t, u) \in {"NEW", "DUPLICATE"}
    BY <1>0, <2>1 DEF StatusOf
  <2>3. results' \in [Urls -> [{"NEW", "DUPLICATE"} -> Nat]]
    BY SMTT(60), <1>0, <2>1, <2>2
  <2>4. inserted' \in [DIds -> [Urls -> 0..MaxFound]]
    <3>1. inserted[t][u] + 1 \in 0..MaxFound
      BY <1>0, <2>1
    <3> QED
      BY <1>0, <2>1, <3>1
  <2>5. UNCHANGED <<searchDue, tasks, poll, dTask, dpc, candidates, existingUrls, dFails,
                    upsets, missteps>>
    BY <1>6 DEF Record
  <2>6. DiscoveryTypeOK'
    BY <1>0, <2>3, <2>4, <2>5
  <2>7. Handed'
    BY <1>0, <2>5
  <2> QED
    BY <2>6, <2>7 DEF DiscoveryTypeInv
<1>7. ASSUME NEW t \in DIds, MoveSource(t) \/ DReject(t) PROVE DiscoveryTypeInv'
  <2>1. CASE MoveSource(t)
    <3>1. DiscoveryTypeOK'
      BY <1>0, <2>1 DEF MoveSource, DLeave
    <3>2. Handed'
      BY <1>0, <2>1 DEF MoveSource, DLeave
    <3> QED
      BY <3>1, <3>2 DEF DiscoveryTypeInv
  <2>2. CASE DReject(t)
    <3>1. DiscoveryTypeOK'
      BY SMTT(60), <1>0, <2>2 DEF DReject
    <3>2. Handed'
      BY <1>0, <2>2 DEF DReject
    <3> QED
      BY <3>1, <3>2 DEF DiscoveryTypeInv
  <2> QED
    BY <1>7, <2>1, <2>2
<1>8. ASSUME NEW t \in DIds, DCatch(t) \/ DFault(t) PROVE DiscoveryTypeInv'
  <2>1. /\ tasks' \in Seq(Task) /\ Len(tasks') = Len(tasks) /\ DOMAIN tasks' = DOMAIN tasks
    <3>1. CASE DCatch(t)
      BY <3>1, TaskMarked DEF DCatch
    <3>2. CASE DFault(t)
      BY <1>0, <3>2 DEF DFault
    <3> QED
      BY <1>8, <3>1, <3>2
  <2>2. /\ dTask[t] = "active" /\ DThrow(t) /\ upsets' \in 0..MaxUpsets
        /\ UNCHANGED <<searchDue, results, poll, candidates, missteps>>
    BY <1>0, <1>8 DEF DCatch, DFault
  <2>3. /\ dFails' = [dFails EXCEPT ![t] = dFails[t] + 1] /\ dFails[t] \in Nat
        /\ dFails[t] < MaxSearches /\ dFails'[t] = dFails[t] + 1
        /\ dTask' = [dTask EXCEPT ![t] = IF dFails[t] + 1 < MaxSearches THEN "waiting" ELSE "dead"]
        /\ dpc' = [dpc EXCEPT ![t] = "idle"]
        /\ existingUrls' = [existingUrls EXCEPT ![t] = {}]
        /\ inserted' = [inserted EXCEPT ![t] = Nowhere]
    BY <1>0, <2>2 DEF DThrow, DLeave
  <2>4. DiscoveryTypeOK'
    BY SMTT(60), <1>0, <2>1, <2>2, <2>3
  <2>5. Handed'
    BY <1>0, <2>1, <2>2, <2>3
  <2> QED
    BY <2>4, <2>5 DEF DiscoveryTypeInv
<1>9. CASE UNCHANGED discovery
  BY <1>0, <1>9 DEF discovery, DiscoveryTypeInv
<1> QED
  BY <1>1, <1>2, <1>3, <1>4, <1>5, <1>6, <1>7, <1>8, <1>9
     DEF DiscoveryNext, DWork, DiscoveryRest

\* The type invariant of the discovery: no task is executed more often than BullMQ
\* allows, whatever is rejected.
THEOREM DiscoveryTypeCorrect == DiscoverySpec => []DiscoveryTypeOK
<1>1. DiscoveryTypeInv /\ [DiscoveryNext]_discovery => DiscoveryTypeInv'
  BY DiscoveryTypeStep
<1>2. DiscoveryTypeInv => DiscoveryTypeOK
  BY DEF DiscoveryTypeInv
<1> QED
  BY DiscoveryTypeInit, <1>1, <1>2, PTL DEF DiscoverySpec

\* What a recorded URL changes.
LEMMA UrlRecorded ==
  ASSUME DiscoveryTypeInv, NEW t \in DIds, NEW u \in Urls,
         results' = [results EXCEPT ![u][StatusOf(t, u)] = @ + 1]
  PROVE  /\ \A v \in Urls \ {u} : results'[v] = results[v]
         /\ u \in existingUrls[t] => /\ results'[u].NEW = results[u].NEW
                                     /\ results'[u].DUPLICATE = results[u].DUPLICATE + 1
         /\ u \notin existingUrls[t] => /\ results'[u].NEW = results[u].NEW + 1
                                        /\ results'[u].DUPLICATE = results[u].DUPLICATE
         /\ results[u].NEW \in Nat /\ results[u].DUPLICATE \in Nat
<1>1. results \in [Urls -> [{"NEW", "DUPLICATE"} -> Nat]]
  BY DEF DiscoveryTypeInv, DiscoveryTypeOK
<1>2. results[u] \in [{"NEW", "DUPLICATE"} -> Nat] /\ StatusOf(t, u) \in {"NEW", "DUPLICATE"}
  BY <1>1 DEF StatusOf
<1>3. results' = [results EXCEPT ![u] = [results[u] EXCEPT ![StatusOf(t, u)] = @ + 1]]
  OBVIOUS
<1>4. results'[u] = [results[u] EXCEPT ![StatusOf(t, u)] = @ + 1]
  BY <1>1, <1>3
<1> QED
  BY <1>1, <1>2, <1>3, <1>4 DEF StatusOf

LEMMA CompletedStep ==
  ASSUME DiscoveryTypeInv, CompletedInv, [DiscoveryNext]_discovery PROVE CompletedInv'
<1>0. /\ DiscoveryTypeOK /\ Handed /\ CompletedInv
      /\ results \in [Urls -> [{"NEW", "DUPLICATE"} -> Nat]]
      /\ Len(tasks) \in Nat /\ DOMAIN tasks = 1..Len(tasks) /\ DOMAIN tasks \subseteq DIds
      /\ candidates \in [DIds -> [Urls -> 0..MaxFound]]
      /\ inserted \in [DIds -> [Urls -> 0..MaxFound]]
      /\ existingUrls \in [DIds -> SUBSET Urls] /\ DOMAIN dpc = DIds
      /\ MaxFound \in Nat /\ Positive(Nowhere) = {}
  BY DiscoveryTyped DEF DiscoveryTypeInv, DiscoveryTypeOK, Positive, Nowhere
<1> USE DEF CompletedInv, Everything, poll, execution, DAt, DGoto
<1>1. ASSUME NEW p \in Pollers, PollCreate(p) PROVE CompletedInv'
  <2>1. /\ tasks' = Append(tasks, [status |-> "PENDING"])
        /\ UNCHANGED <<results, execution>>
    BY <1>1 DEF PollCreate
  <2>2. \A t \in DOMAIN tasks' : tasks'[t].status = "COMPLETED" =>
          t \in DOMAIN tasks /\ tasks'[t] = tasks[t]
    BY <1>0, <2>1 DEF DiscoveryTypeOK
  <2> QED
    BY <1>0, <2>1, <2>2
<1>2. CASE \/ \E p \in Pollers : PollFind(p) \/ PollEnqueue(p) \/ PollFault(p)
           \/ SearchComesDue \/ UNCHANGED discovery
  <2>1. UNCHANGED <<tasks, results, execution>>
    BY <1>2 DEF PollFind, PollEnqueue, PollFault, SearchComesDue, discovery
  <2> QED
    BY <1>0, <2>1
<1>3. ASSUME NEW t \in DIds, DRun(t) \/ Complete(t) \/ DCatch(t) PROVE CompletedInv'
  <2>1. /\ UNCHANGED <<results, candidates>>
        /\ \A i \in DIds : /\ existingUrls'[i] \subseteq existingUrls[i]
                           /\ inserted'[i] \in {inserted[i], Nowhere}
    BY <1>0, <1>3 DEF DRun, Complete, DCatch, DThrow, DLeave
  <2>2. PICK s \in {"PENDING", "RUNNING", "COMPLETED", "FAILED"} :
          /\ tasks' = [tasks EXCEPT ![t].status = s]
          /\ s = "COMPLETED" => inserted[t] = candidates[t] /\ dpc' = [dpc EXCEPT ![t] = "source"]
    BY <1>3 DEF DRun, Complete, DCatch
  <2>3. /\ DOMAIN tasks' = DOMAIN tasks /\ \A i \in DOMAIN tasks : i # t => tasks'[i] = tasks[i]
        /\ t \in DOMAIN tasks => tasks'[t].status = s
    BY <2>2, TaskMarked
  <2>4. \A i \in DIds \ {t} : dpc'[i] = dpc[i]
    BY <1>0, <1>3 DEF DRun, Complete, DCatch, DThrow, DLeave
  <2>5. Everything' = Everything
    BY <2>1
  <2>6. \A i \in DIds : /\ existingUrls'[i] \subseteq Everything'
                        /\ Positive(inserted'[i]) \subseteq Everything'
    BY <1>0, <2>1, <2>5
  <2>7. \A i \in DOMAIN tasks' : tasks'[i].status = "COMPLETED" =>
          /\ dpc'[i] \notin {"discover", "known", "record"}
          /\ Positive(candidates'[i]) \subseteq Everything'
    <3> SUFFICES ASSUME NEW i \in DOMAIN tasks', tasks'[i].status = "COMPLETED"
                 PROVE  /\ dpc'[i] \notin {"discover", "known", "record"}
                        /\ Positive(candidates'[i]) \subseteq Everything'
      OBVIOUS
    <3>1. CASE i # t
      BY <1>0, <2>1, <2>3, <2>4, <2>5, <3>1
    <3>2. CASE i = t
      <4>1. s = "COMPLETED"
        BY <2>3, <3>2
      <4>2. inserted[t] = candidates[t] /\ dpc'[t] = "source"
        BY <1>0, <2>2, <4>1
      <4>3. Positive(candidates'[t]) \subseteq Everything'
        BY <1>0, <2>1, <2>5, <4>2
      <4> QED
        BY <3>2, <4>2, <4>3
    <3> QED
      BY <3>1, <3>2
  <2> QED
    BY <1>0, <2>1, <2>6, <2>7
<1>4. ASSUME NEW t \in DIds, DTake(t) PROVE CompletedInv'
  BY <1>0, <1>4 DEF DTake
<1>5. ASSUME NEW t \in DIds, Discover(t) \/ AskKnown(t) PROVE CompletedInv'
  <2>1. /\ UNCHANGED <<tasks, results, inserted>>
        /\ dpc[t] \in {"discover", "known"}
        /\ \A i \in DIds \ {t} : /\ dpc'[i] = dpc[i] /\ candidates'[i] = candidates[i]
                                 /\ existingUrls'[i] = existingUrls[i]
        /\ existingUrls'[t] \subseteq existingUrls[t] \union KnownUrls(t)
    BY <1>0, <1>5, ReturnedIsKnown DEF Discover, AskKnown
  <2>2. KnownUrls(t) \subseteq Everything
    BY <1>0 DEF KnownUrls, RowsOf
  <2> QED
    BY <1>0, <2>1, <2>2
<1>6. ASSUME NEW t \in DIds, Record(t) PROVE CompletedInv'
  <2>1. PICK u \in Urls :
          /\ inserted[t][u] < candidates[t][u]
          /\ results' = [results EXCEPT ![u][StatusOf(t, u)] = @ + 1]
          /\ inserted' = [inserted EXCEPT ![t][u] = @ + 1]
    BY <1>6 DEF Record
  <2>2. u \in Urls /\ UNCHANGED <<tasks, dpc, candidates, existingUrls>>
    BY <1>0, <1>6, <2>1 DEF Record
  <2>3. /\ \A v \in Urls \ {u} : results'[v] = results[v]
        /\ u \in existingUrls[t] => /\ results'[u].NEW = results[u].NEW
                                    /\ results'[u].DUPLICATE = results[u].DUPLICATE + 1
        /\ u \notin existingUrls[t] => /\ results'[u].NEW = results[u].NEW + 1
                                       /\ results'[u].DUPLICATE = results[u].DUPLICATE
        /\ results[u].NEW \in Nat /\ results[u].DUPLICATE \in Nat
    BY <2>1, <2>2, UrlRecorded
  <2>0. results'[u].NEW > 0
    <3>1. u \in existingUrls[t] => results[u].NEW > 0
      BY <1>0
    <3> QED
      BY <2>3, <3>1
  <2>4. results'[u].NEW > 0 /\ Everything \subseteq Everything'
    BY <2>2, <2>3, <2>0
  <2>5. \A v \in Urls : results'[v].DUPLICATE > 0 => results'[v].NEW > 0
    BY <1>0, <2>3, <2>4
  <2>6. /\ Positive(inserted'[t]) \subseteq Everything'
        /\ \A i \in DIds \ {t} : inserted'[i] = inserted[i]
    <3>1. Positive(inserted'[t]) \subseteq Positive(inserted[t]) \union {u}
      BY <1>0, <2>1 DEF Positive
    <3> QED
      BY <1>0, <2>1, <2>2, <2>4, <3>1
  <2> QED
    BY <1>0, <2>2, <2>4, <2>5, <2>6
<1>7. ASSUME NEW t \in DIds, MoveSource(t) \/ DReject(t) \/ DFault(t) PROVE CompletedInv'
  <2>1. /\ UNCHANGED <<tasks, results, candidates>>
        /\ dpc'[t] \in {"idle", "catch"} /\ \A i \in DIds \ {t} : dpc'[i] = dpc[i]
        /\ \A i \in DIds : /\ existingUrls'[i] \subseteq existingUrls[i]
                           /\ inserted'[i] \in {inserted[i], Nowhere}
    BY <1>0, <1>7 DEF MoveSource, DReject, DFault, DThrow, DLeave
  <2> QED
    BY <1>0, <2>1
<1> QED
  BY <1>1, <1>2, <1>3, <1>4, <1>5, <1>6, <1>7 DEF DiscoveryNext, DWork, DiscoveryRest

LEMMA OnceStep ==
  ASSUME DiscoveryTypeInv, CompletedInv, OnceInv, [DiscoveryNext]_discovery PROVE OnceInv'
<1>0. /\ DiscoveryTypeOK /\ OnceInv
      /\ results \in [Urls -> [{"NEW", "DUPLICATE"} -> Nat]]
      /\ candidates \in [DIds -> [Urls -> 0..MaxFound]]
      /\ inserted \in [DIds -> [Urls -> 0..MaxFound]]
      /\ existingUrls \in [DIds -> SUBSET Urls] /\ sideBySide \in BOOLEAN
      /\ MaxFound \in Nat
      /\ dTask \in [DIds -> {"none", "waiting", "active", "done", "dead"}]
      /\ DOMAIN dpc = DIds
  BY DiscoveryTyped DEF DiscoveryTypeInv, DiscoveryTypeOK
<1>1. ASSUME UNCHANGED <<results, sideBySide>>, Plain' \subseteq Plain,
             \A t \in DIds : \A u \in Plain' : candidates'[t][u] <= 1,
             \A t \in DIds : DAt(t, "record")' =>
               /\ DAt(t, "record") /\ candidates'[t] = candidates[t]
               /\ existingUrls'[t] = existingUrls[t] /\ inserted'[t] = inserted[t]
      PROVE  OnceInv'
  <2>1. SUFFICES ASSUME ~sideBySide' PROVE OnceInv'
    BY <1>1 DEF OnceInv
  <2> QED
    BY <1>0, <1>1, <2>1 DEF OnceInv
<1> USE DEF DAt, missteps, Plain, DGoto, poll, execution
<1>2. CASE \/ \E p \in Pollers : PollFind(p) \/ PollCreate(p) \/ PollFault(p)
           \/ SearchComesDue \/ UNCHANGED discovery
  <2>1. UNCHANGED <<results, missteps, dTask, execution>>
    BY <1>2 DEF PollFind, PollCreate, PollFault, SearchComesDue, discovery
  <2> QED
    BY <1>0, <1>1, <2>1 DEF OnceInv
<1>3. ASSUME NEW p \in Pollers, PollEnqueue(p) PROVE OnceInv'
  <2>1. UNCHANGED <<results, missteps, execution>> /\ dTask' = [dTask EXCEPT ![pollTask[p]] = "waiting"]
    BY <1>3 DEF PollEnqueue
  <2>2. \A t \in DIds : dTask'[t] = "active" => dTask[t] = "active"
    BY <1>0, <2>1
  <2> QED
    BY <1>0, <1>1, <2>1, <2>2 DEF OnceInv
<1>4. ASSUME NEW t \in DIds, \/ DTake(t) \/ DRun(t) \/ Discover(t) \/ Complete(t)
                             \/ MoveSource(t) \/ DReject(t) \/ DCatch(t) \/ DFault(t)
      PROVE  OnceInv'
  <2>1. /\ UNCHANGED <<results, sideBySide>> /\ dpc'[t] # "record"
        /\ missed' = missed /\ repeated \subseteq repeated'
        /\ \A u \in Plain' : candidates'[t][u] <= 1
        /\ \A i \in DIds \ {t} :
             /\ dpc'[i] = dpc[i] /\ dTask'[i] = dTask[i] /\ candidates'[i] = candidates[i]
             /\ existingUrls'[i] = existingUrls[i] /\ inserted'[i] = inserted[i]
    <3>1. CASE DTake(t)
      BY <1>0, <3>1 DEF DTake, Nowhere
    <3>2. CASE Discover(t)
      BY <1>0, <3>2 DEF Discover, CandidateBags
    <3>3. CASE ~DTake(t) /\ ~Discover(t)
      <4>1. candidates' = candidates /\ UNCHANGED missteps
        BY <1>4, <3>3 DEF DRun, Complete, MoveSource, DReject, DCatch, DFault
      <4> QED
        BY <1>0, <1>4, <3>3, <4>1 DEF DRun, Complete, MoveSource, DReject, DCatch,
           DFault, DThrow, DLeave, OnceInv
    <3> QED
      BY <3>1, <3>2, <3>3
  <2>2. Plain' \subseteq Plain
    BY <2>1
  <2>3. \A i \in DIds : \A u \in Plain' : candidates'[i][u] <= 1
    BY <1>0, <2>1, <2>2 DEF OnceInv
  <2> QED
    BY <1>1, <2>1, <2>2, <2>3
<1>5. ASSUME NEW t \in DIds, AskKnown(t) PROVE OnceInv'
  <2>1. PICK K \in Returned(t) :
        /\ existingUrls' = [existingUrls EXCEPT ![t] = K]
        /\ missed' = missed \union (KnownUrls(t) \ K)
        /\ sideBySide' = (sideBySide \/ \E s \in DIds : DAt(s, "record"))
        /\ dpc' = [dpc EXCEPT ![t] = "record"]
        /\ UNCHANGED <<results, dTask, candidates, inserted, repeated>>
    BY <1>5 DEF AskKnown
  <2>6. Plain' \subseteq Plain /\ Plain' \subseteq Urls /\ Plain' \cap KnownUrls(t) \subseteq K
    BY <2>1
  <2>7. \A i \in DIds : \A u \in Plain' : candidates'[i][u] <= 1
    BY <1>0, <2>1, <2>6 DEF OnceInv
  <2>2. SUFFICES ASSUME ~sideBySide' PROVE OnceInv'
    BY <2>7 DEF OnceInv
  <2>3. ~sideBySide /\ \A s \in DIds : ~DAt(s, "record")
    BY <2>1, <2>2
  <2>4. \A s \in DIds : DAt(s, "record")' => s = t
    BY <1>0, <2>1, <2>3
  <2>5. \A u \in Plain' \ K : candidates[t][u] > 0 => results[u].NEW = 0
    <3> SUFFICES ASSUME NEW u \in Plain', u \notin K, candidates[t][u] > 0
                 PROVE  results[u].NEW = 0
      OBVIOUS
    <3>1. u \in Urls /\ results[u].NEW \in Nat /\ results[u].DUPLICATE \in Nat
      BY <1>0, <2>6
    <3>2. ~(results[u].NEW + results[u].DUPLICATE > 0)
      BY <2>6, <3>1 DEF KnownUrls, RowsOf
    <3> QED
      BY <3>1, <3>2
  <2>8. existingUrls'[t] = K
    BY <1>0, <2>1
  <2>9. \A u \in Plain' : results'[u].NEW <= 1
    BY <1>0, <2>1, <2>3, <2>6 DEF OnceInv
  <2>10. \A i \in DIds : DAt(i, "record")' =>
           \A u \in Plain' \ existingUrls'[i] :
             candidates'[i][u] > 0 /\ inserted'[i][u] = 0 => results'[u].NEW = 0
    BY <2>1, <2>4, <2>5, <2>8
  <2> QED
    BY <2>4, <2>7, <2>9, <2>10 DEF OnceInv
<1>6. ASSUME NEW t \in DIds, Record(t) PROVE OnceInv'
  <2>1. PICK u \in Urls :
          /\ inserted[t][u] < candidates[t][u]
          /\ results' = [results EXCEPT ![u][StatusOf(t, u)] = @ + 1]
          /\ inserted' = [inserted EXCEPT ![t][u] = @ + 1]
    BY <1>6 DEF Record
  <2>2. /\ u \in Urls /\ DAt(t, "record")
        /\ UNCHANGED <<dTask, dpc, candidates, existingUrls, missteps>> /\ Plain' = Plain
    BY <1>0, <1>6, <2>1 DEF Record
  <2>3. /\ \A v \in Urls \ {u} : results'[v] = results[v]
        /\ u \in existingUrls[t] => results'[u].NEW = results[u].NEW
        /\ u \notin existingUrls[t] => results'[u].NEW = results[u].NEW + 1
    BY <2>1, <2>2, UrlRecorded
  <2>4. SUFFICES ASSUME ~sideBySide' PROVE OnceInv'
    BY <1>0, <2>2 DEF OnceInv
  <2>5. \A s \in DIds : DAt(s, "record") => s = t
    BY <1>0, <2>2, <2>4 DEF OnceInv
  <2>6. u \in Plain /\ u \notin existingUrls[t] => results[u].NEW = 0
    <3> SUFFICES ASSUME u \in Plain, u \notin existingUrls[t] PROVE results[u].NEW = 0
      OBVIOUS
    <3>1. candidates[t][u] <= 1 /\ inserted[t][u] \in Nat /\ candidates[t][u] \in Nat
      BY <1>0 DEF OnceInv
    <3>2. candidates[t][u] > 0 /\ inserted[t][u] = 0
      BY <2>1, <3>1
    <3> QED
      BY <1>0, <2>2, <2>4, <3>2 DEF OnceInv
  <2>7. \A v \in Plain : results'[v].NEW <= 1
    BY <1>0, <2>2, <2>3, <2>4, <2>6 DEF OnceInv
  <2>8. inserted'[t][u] > 0 /\ \A v \in Urls \ {u} : inserted'[t][v] = inserted[t][v]
    BY <1>0, <2>1
  <2>9. \A v \in Plain \ existingUrls[t] :
          candidates[t][v] > 0 /\ inserted'[t][v] = 0 => results'[v].NEW = 0
    BY <1>0, <2>2, <2>3, <2>4, <2>8 DEF OnceInv
  <2>10. \A s \in DIds : \A v \in Plain' : candidates'[s][v] <= 1
    BY <1>0, <2>2 DEF OnceInv
  <2> QED
    BY <2>2, <2>5, <2>7, <2>9, <2>10 DEF OnceInv
<1> QED
  BY <1>2, <1>3, <1>4, <1>5, <1>6 DEF DiscoveryNext, DWork, DiscoveryRest

\* A URL is NEW once (runDiscoveryTask), however often its task is executed again,
\* unless two tasks record side by side, a search lists it twice or the query with
\* take: 500 leaves it out; and at least once if a task that was completed found it.
THEOREM UrlsAreNewOnce == DiscoverySpec => []NewOnce
<1>1. DiscoveryInit => CompletedInv /\ OnceInv
  <2> SUFFICES ASSUME DiscoveryInit PROVE CompletedInv /\ OnceInv
    OBVIOUS
  <2>1. /\ tasks = << >> /\ results = [u \in Urls |-> [NEW |-> 0, DUPLICATE |-> 0]]
        /\ dTask = [t \in DIds |-> "none"]
        /\ candidates = [t \in DIds |-> Nowhere]
        /\ existingUrls = [t \in DIds |-> {}] /\ inserted = [t \in DIds |-> Nowhere]
    BY DEF DiscoveryInit
  <2>2. \A u \in Urls : Nowhere[u] = 0 /\ results[u].NEW = 0 /\ results[u].DUPLICATE = 0
    BY <2>1 DEF Nowhere
  <2>3. Positive(Nowhere) = {} /\ DOMAIN tasks = {}
    BY <2>1, <2>2 DEF Positive
  <2>4. CompletedInv
    BY <2>1, <2>2, <2>3 DEF CompletedInv
  <2>5. OnceInv
    BY <2>1, <2>2 DEF OnceInv, DAt, Plain
  <2> QED
    BY <2>4, <2>5
<1>2. DiscoveryTypeInv /\ CompletedInv /\ OnceInv /\ [DiscoveryNext]_discovery
        => (DiscoveryTypeInv /\ CompletedInv /\ OnceInv)'
  BY DiscoveryTypeStep, CompletedStep, OnceStep
<1>3. DiscoveryTypeInv /\ CompletedInv /\ OnceInv => NewOnce
  BY DEF CompletedInv, OnceInv, NewOnce, Everything, Positive, Plain
<1> QED
  BY DiscoveryTypeInit, <1>1, <1>2, <1>3, PTL DEF DiscoverySpec

-----------------------------------------------------------------------------
(* Monitors *)

\* What a check holds at each await, and how often it may still be executed.
CheckHolds ==
  /\ \A k \in KIds : checks[k] # "active" => kpc[k] = "idle"
  /\ \A k \in KIds : kpc[k] \notin {"idle", "read", "fetch"} => kPage[k] \in 1..MaxPages
  /\ \A k \in KIds : kpc[k] \in {"recrawl", "enqueue", "pipeline"} => kind = "website"
  /\ \A k \in KIds : checks[k] # "dead" => kFails[k] < MaxCheckTries
MonitorTypeInv == MonitorsTypeOK /\ CheckHolds

\* A check that found a change, and recorded it.
Differs(k) == kSeen[k] \notin {0, kPage[k]}
MovedInv ==
  /\ \A k \in KIds : kpc[k] = "event" => Differs(k)
  /\ \A k \in KIds : kpc[k] = "move" =>
       /\ kind = "website" => Differs(k)
       /\ Differs(k) => \E i \in DOMAIN changes : changes[i].after = kPage[k]
  /\ \A v \in moved : \E i \in DOMAIN changes : changes[i].after = v

\* The monitor has the content of the last event; or that event's check is about to
\* move it there; or it failed before it did.
LastEvent == changes[Len(changes)]
AtLast ==
  \/ changes = << >>
  \/ seen = LastEvent.after
  \/ seen = LastEvent.before /\ breaks > 0
Moving(k) == /\ kpc[k] = "move" /\ Differs(k) /\ changes # << >>
             /\ LastEvent.before = seen /\ LastEvent.after = kPage[k]
ChainInv ==
  ~crossing =>
    /\ \A j, k \in KIds : checks[j] = "active" /\ checks[k] = "active" => j = k
    /\ \A k \in KIds : kpc[k] \in {"fetch", "event", "move", "touch"} => kSeen[k] = seen
    /\ AtLast \/ \E k \in KIds : Moving(k)
    /\ \A k \in KIds : kpc[k] = "move" /\ Differs(k) => Moving(k)
    /\ seen = 0 => changes = << >>
    /\ \A i \in DOMAIN changes : changes[i].before # 0 /\ changes[i].after # 0
    /\ \A i \in 2..Len(changes) :
         \/ changes[i].before = changes[i - 1].after
         \/ changes[i].before = changes[i - 1].before /\ breaks > 0

\* A version that the monitor was moved to without the pipeline being started is in the
\* hands of a check, or was lost to a failure.
Late == {k \in KIds : kpc[k] \in {"recrawl", "enqueue", "pipeline"}}
Enqueuing == {k \in KIds : kpc[k] = "enqueue"}
Lost == (moved \ pipelines) \ {kPage[k] : k \in Late}
LostInv ==
  kind = "website" =>
    /\ Cardinality(Lost) <= breaks
    /\ recrawls.created - recrawls.enqueued <= breaks + Cardinality(Enqueuing)

LEMMA MonitorTyped ==
  ASSUME MonitorTypeInv
  PROVE  /\ page \in 1..MaxPages /\ seen \in 0..MaxPages /\ MaxPages \in Nat
         /\ changes \in Seq(Change) /\ Len(changes) \in Nat /\ DOMAIN changes = 1..Len(changes)
         /\ \A i \in DOMAIN changes : changes[i] \in Change
         /\ pipelines \subseteq 1..MaxPages /\ moved \subseteq 1..MaxPages
         /\ checks \in [KIds -> {"none", "waiting", "active", "done", "dead"}]
         /\ kpc \in [KIds -> KPcs]
         /\ kSeen \in [KIds -> 0..MaxPages] /\ kPage \in [KIds -> 0..MaxPages]
         /\ kFails \in [KIds -> 0..MaxCheckTries] /\ MaxCheckTries \in Nat
         /\ breaks \in 0..MaxBreaks /\ MaxBreaks \in Nat /\ crossing \in BOOLEAN
         /\ recrawls \in [created : Nat, enqueued : Nat] /\ kind \in {"website", "price"}
BY MonitorAssumption DEF MonitorTypeInv, MonitorsTypeOK

LEMMA MonitorTypeInit == MonitorsInit => MonitorTypeInv
<1> SUFFICES ASSUME MonitorsInit PROVE MonitorTypeInv
  OBVIOUS
<1>1. changes \in Seq(Change) /\ recrawls \in [created : Nat, enqueued : Nat]
  BY DEF MonitorsInit
<1>2. MonitorsTypeOK
  <2>1. /\ page \in 1..MaxPages /\ seen \in 0..MaxPages /\ breaks \in 0..MaxBreaks
        /\ 0 \in 0..MaxPages /\ 0 \in 0..MaxCheckTries
    BY MonitorAssumption DEF MonitorsInit
  <2>2. /\ kpc \in [KIds -> KPcs] /\ kSeen \in [KIds -> 0..MaxPages]
        /\ kPage \in [KIds -> 0..MaxPages] /\ kFails \in [KIds -> 0..MaxCheckTries]
        /\ checks \in [KIds -> {"none", "waiting", "active", "done", "dead"}]
    BY <2>1 DEF MonitorsInit, KPcs
  <2> QED
    BY <1>1, <2>1, <2>2 DEF MonitorsInit, MonitorsTypeOK
<1>3. CheckHolds
  BY MonitorAssumption DEF MonitorsInit, CheckHolds
<1> QED
  BY <1>2, <1>3 DEF MonitorTypeInv

LEMMA MonitorTypeStep ==
  ASSUME MonitorTypeInv, [MonitorsNext]_monitors PROVE MonitorTypeInv'
<1>0. MonitorTypeInv /\ MonitorsTypeOK /\ CheckHolds /\ MaxCheckTries \in Nat
      /\ MaxBreaks \in Nat /\ MaxPages \in Nat
  BY MonitorTyped DEF MonitorTypeInv
<1> USE DEF local, KAt, KGoto, KLeave
<1>1. CASE PageChanges \/ UNCHANGED monitors
  <2>1. CASE PageChanges
    BY <1>0, <2>1 DEF PageChanges, MonitorsTypeOK, CheckHolds, MonitorTypeInv
  <2>2. CASE UNCHANGED monitors
    BY <1>0, <2>2 DEF monitors, MonitorsTypeOK, CheckHolds, MonitorTypeInv
  <2> QED
    BY <1>1, <2>1, <2>2
<1>2. ASSUME NEW k \in KIds, EnqueueCheck(k) \/ TakeCheck(k) \/ ReadMonitor(k) \/ Fetch(k)
      PROVE  MonitorTypeInv'
  <2>1. MonitorsTypeOK'
    <3>1. CASE EnqueueCheck(k)
      BY <1>0, <3>1 DEF EnqueueCheck, MonitorsTypeOK
    <3>2. CASE TakeCheck(k)
      BY <1>0, <3>2 DEF TakeCheck, MonitorsTypeOK, KPcs
    <3>3. CASE ReadMonitor(k)
      BY <1>0, <3>3 DEF ReadMonitor, MonitorsTypeOK, KPcs
    <3>4. CASE Fetch(k)
      BY <1>0, <3>4 DEF Fetch, MonitorsTypeOK, KPcs
    <3> QED
      BY <1>2, <3>1, <3>2, <3>3, <3>4
  <2>2. CheckHolds'
    BY <1>0, <1>2 DEF EnqueueCheck, TakeCheck, ReadMonitor, Fetch, MonitorsTypeOK,
       CheckHolds
  <2> QED
    BY <2>1, <2>2 DEF MonitorTypeInv
<1>3. ASSUME NEW k \in KIds, RecordChange(k) PROVE MonitorTypeInv'
  <2>1. /\ changes' = Append(changes, [before |-> kSeen[k], after |-> kPage[k]])
        /\ [before |-> kSeen[k], after |-> kPage[k]] \in Change
    BY <1>0, <1>3 DEF RecordChange, WithEvent, Change, MonitorsTypeOK
  <2>2. changes' \in Seq(Change)
    BY <1>0, <2>1 DEF MonitorsTypeOK
  <2>3. MonitorsTypeOK'
    BY <1>0, <1>3, <2>2 DEF RecordChange, MonitorsTypeOK, KPcs
  <2>4. CheckHolds'
    BY <1>0, <1>3 DEF RecordChange, MonitorsTypeOK, CheckHolds
  <2> QED
    BY <2>3, <2>4 DEF MonitorTypeInv
<1>4. ASSUME NEW k \in KIds, MovePrice(k) \/ MoveWebsite(k) \/ Touch(k) PROVE MonitorTypeInv'
  <2>1. kPage[k] \in 1..MaxPages
    BY <1>0, <1>4 DEF MovePrice, MoveWebsite, Touch, CheckHolds
  <2>2. MonitorsTypeOK'
    <3>1. CASE MovePrice(k)
      <4>1. /\ seen' = kPage[k] /\ moved' \subseteq moved \union {kPage[k]}
            /\ UNCHANGED <<kind, page, changes, pipelines, recrawls, kFails, breaks, crossing>>
            /\ KLeave(k, "done")
        BY <3>1 DEF MovePrice
      <4> QED
        BY <1>0, <2>1, <4>1 DEF MonitorsTypeOK, KPcs
    <3>2. CASE MoveWebsite(k)
      BY <1>0, <2>1, <3>2 DEF MoveWebsite, MonitorsTypeOK, KPcs
    <3>3. CASE Touch(k)
      BY <1>0, <2>1, <3>3 DEF Touch, MonitorsTypeOK, KPcs
    <3> QED
      BY <1>4, <3>1, <3>2, <3>3
  <2>3. CheckHolds'
    BY <1>0, <1>4 DEF MovePrice, MoveWebsite, Touch, MonitorsTypeOK, CheckHolds
  <2> QED
    BY <2>2, <2>3 DEF MonitorTypeInv
<1>5. ASSUME NEW k \in KIds, Recrawl(k) \/ EnqueueRecrawl(k) PROVE MonitorTypeInv'
  <2>1. recrawls' \in [created : Nat, enqueued : Nat]
    BY <1>0, <1>5 DEF Recrawl, EnqueueRecrawl, MonitorsTypeOK
  <2>2. MonitorsTypeOK'
    BY <1>0, <1>5, <2>1 DEF Recrawl, EnqueueRecrawl, MonitorsTypeOK, KPcs
  <2>3. CheckHolds'
    BY <1>0, <1>5 DEF Recrawl, EnqueueRecrawl, MonitorsTypeOK, CheckHolds
  <2> QED
    BY <2>2, <2>3 DEF MonitorTypeInv
<1>6. ASSUME NEW k \in KIds, StartPipeline(k) PROVE MonitorTypeInv'
  <2>1. kPage[k] \in 1..MaxPages
    BY <1>0, <1>6 DEF StartPipeline, CheckHolds
  <2>2. MonitorsTypeOK'
    <3>1. /\ pipelines' = pipelines \union {kPage[k]} /\ KLeave(k, "done")
          /\ UNCHANGED <<kind, page, seen, changes, recrawls, kFails, breaks, crossing, moved>>
      BY <1>6 DEF StartPipeline, Started
    <3>2. pipelines' \subseteq 1..MaxPages
      BY <1>0, <2>1, <3>1 DEF MonitorsTypeOK
    <3>3. /\ checks' \in [KIds -> {"none", "waiting", "active", "done", "dead"}]
          /\ kpc' \in [KIds -> KPcs]
      BY <1>0, <3>1 DEF MonitorsTypeOK, KPcs
    <3>4. kSeen' \in [KIds -> 0..MaxPages] /\ kPage' \in [KIds -> 0..MaxPages]
      BY <1>0, <3>1 DEF MonitorsTypeOK
    <3> QED
      BY <1>0, <3>1, <3>2, <3>3, <3>4 DEF MonitorsTypeOK
  <2>3. CheckHolds'
    BY <1>0, <1>6 DEF StartPipeline, MonitorsTypeOK, CheckHolds
  <2> QED
    BY <2>2, <2>3 DEF MonitorTypeInv
<1>7. ASSUME NEW k \in KIds, CheckFault(k) PROVE MonitorTypeInv'
  <2>1. /\ kFails' = [kFails EXCEPT ![k] = kFails[k] + 1] /\ kFails'[k] = kFails[k] + 1
        /\ kFails[k] \in Nat /\ kFails[k] < MaxCheckTries
        /\ checks' = [checks EXCEPT ![k] =
                        IF kFails[k] + 1 < MaxCheckTries THEN "waiting" ELSE "dead"]
    BY <1>0, <1>7 DEF CheckFault, MonitorsTypeOK, CheckHolds
  <2>2. MonitorsTypeOK'
    BY <1>0, <1>7, <2>1 DEF CheckFault, MonitorsTypeOK, KPcs
  <2>3. CheckHolds'
    BY <1>0, <1>7, <2>1 DEF CheckFault, MonitorsTypeOK, CheckHolds
  <2> QED
    BY <2>2, <2>3 DEF MonitorTypeInv
<1> QED
  BY <1>1, <1>2, <1>3, <1>4, <1>5, <1>6, <1>7
     DEF MonitorsNext, CheckWork, MonitorsRest

\* The type invariant of a monitor, its checks and its events: no check is executed
\* more often than BullMQ allows.
THEOREM MonitorsTypeCorrect == MonitorsSpec => []MonitorsTypeOK
<1>1. MonitorTypeInv /\ [MonitorsNext]_monitors => MonitorTypeInv'
  BY MonitorTypeStep
<1>2. MonitorTypeInv => MonitorsTypeOK
  BY DEF MonitorTypeInv
<1> QED
  BY MonitorTypeInit, <1>1, <1>2, PTL DEF MonitorsSpec

\* An event is appended.
LEMMA EventAppended ==
  ASSUME MonitorTypeInv, NEW k \in KIds, RecordChange(k)
  PROVE  /\ Len(changes') = Len(changes) + 1 /\ DOMAIN changes' = 1..(Len(changes) + 1)
         /\ changes' # << >>
         /\ \A i \in DOMAIN changes : changes'[i] = changes[i]
         /\ changes'[Len(changes')].before = kSeen[k]
         /\ changes'[Len(changes')].after = kPage[k]
<1>1. /\ changes' = Append(changes, [before |-> kSeen[k], after |-> kPage[k]])
      /\ [before |-> kSeen[k], after |-> kPage[k]] \in Change
  BY MonitorTyped DEF RecordChange, WithEvent, Change
<1>2. /\ changes \in Seq(Change) /\ Len(changes) \in Nat /\ DOMAIN changes = 1..Len(changes)
  BY MonitorTyped
<1>3. /\ Len(changes') = Len(changes) + 1 /\ DOMAIN changes' = 1..(Len(changes) + 1)
      /\ \A i \in DOMAIN changes : changes'[i] = changes[i]
      /\ changes'[Len(changes')] = [before |-> kSeen[k], after |-> kPage[k]]
      /\ changes' \in Seq(Change)
  BY <1>1, <1>2
<1>4. changes' # << >>
  BY <1>2, <1>3, EmptySeq
<1> QED
  BY <1>3, <1>4

\* Some event of a list has the content v.
EventOf(list, v) == \E i \in DOMAIN list : list[i].after = v

LEMMA MovedKept ==
  ASSUME MovedInv, NEW k \in KIds, UNCHANGED kind,
         \A v : EventOf(changes, v) => EventOf(changes', v),
         kpc'[k] = "event" => Differs(k)',
         kpc'[k] = "move" => /\ kind = "website" => Differs(k)'
                             /\ Differs(k)' => EventOf(changes', kPage'[k]),
         \A j \in KIds \ {k} :
           kpc'[j] = kpc[j] /\ kSeen'[j] = kSeen[j] /\ kPage'[j] = kPage[j],
         \A v \in moved' : v \in moved \/ EventOf(changes', v),
         kpc'[k] = "move" => kPage'[k] = kPage[k]
  PROVE  MovedInv'
<1>1. /\ \A j \in KIds : kpc[j] = "event" => Differs(j)
      /\ \A j \in KIds : kpc[j] = "move" => /\ kind = "website" => Differs(j)
                                            /\ Differs(j) => EventOf(changes, kPage[j])
      /\ \A v \in moved : EventOf(changes, v)
  BY DEF MovedInv, EventOf
<1>2. \A j \in KIds \ {k} : Differs(j)' <=> Differs(j)
  BY DEF Differs
<1>3. \A j \in KIds : kpc'[j] = "event" => Differs(j)'
  BY <1>1, <1>2
<1>4. \A j \in KIds : kpc'[j] = "move" => /\ kind' = "website" => Differs(j)'
                                          /\ Differs(j)' => EventOf(changes', kPage'[j])
  <2> SUFFICES ASSUME NEW j \in KIds, kpc'[j] = "move"
               PROVE  /\ kind' = "website" => Differs(j)'
                      /\ Differs(j)' => EventOf(changes', kPage'[j])
    OBVIOUS
  <2>1. CASE j = k
    BY <2>1 DEF EventOf
  <2>2. CASE j # k
    BY <1>1, <1>2, <2>2
  <2> QED
    BY <2>1, <2>2
<1>5. \A v \in moved' : EventOf(changes', v)
  BY <1>1
<1> QED
  BY <1>3, <1>4, <1>5 DEF MovedInv, EventOf

LEMMA MovedStep ==
  ASSUME MonitorTypeInv, MovedInv, [MonitorsNext]_monitors PROVE MovedInv'
<1>0. /\ kpc \in [KIds -> KPcs] /\ kSeen \in [KIds -> 0..MaxPages]
      /\ kPage \in [KIds -> 0..MaxPages] /\ kind \in {"website", "price"}
      /\ Len(changes) \in Nat /\ DOMAIN changes = 1..Len(changes)
      /\ page \in 1..MaxPages /\ MaxPages \in Nat
  BY MonitorTyped
<1> USE DEF KAt, KGoto, KLeave
<1>1. CASE PageChanges \/ UNCHANGED monitors
  BY <1>1 DEF PageChanges, monitors, local, MovedInv, Differs
<1>2. ASSUME NEW k \in KIds,
             \/ EnqueueCheck(k) \/ TakeCheck(k) \/ ReadMonitor(k) \/ Recrawl(k)
             \/ EnqueueRecrawl(k) \/ StartPipeline(k) \/ Touch(k) \/ CheckFault(k)
      PROVE  MovedInv'
  <2>1. CASE EnqueueCheck(k)
    BY <2>1 DEF EnqueueCheck, local, MovedInv, Differs
  <2>2. /\ ~EnqueueCheck(k) => kpc'[k] \notin {"event", "move"}
        /\ UNCHANGED <<kind, changes, moved>>
        /\ \A j \in KIds \ {k} : /\ kpc'[j] = kpc[j] /\ kSeen'[j] = kSeen[j]
                                 /\ kPage'[j] = kPage[j]
    BY <1>0, <1>2 DEF EnqueueCheck, TakeCheck, ReadMonitor, Recrawl, EnqueueRecrawl,
                      StartPipeline, Touch, CheckFault, local
  <2>3. \A v : EventOf(changes, v) => EventOf(changes', v)
    BY <2>2 DEF EventOf
  <2> QED
    BY <2>1, <2>2, <2>3, MovedKept
<1>3. ASSUME NEW k \in KIds, Fetch(k) PROVE MovedInv'
  <2>1. /\ kPage' = [kPage EXCEPT ![k] = page] /\ UNCHANGED <<kind, changes, kSeen, moved>>
        /\ kpc' = [kpc EXCEPT ![k] = IF kSeen[k] \notin {0, page} THEN "event"
                                     ELSE IF kind = "website" THEN "touch" ELSE "move"]
    BY <1>3 DEF Fetch
  <2>2. /\ kPage'[k] = page /\ kSeen'[k] = kSeen[k]
        /\ \A j \in KIds \ {k} : kpc'[j] = kpc[j] /\ kPage'[j] = kPage[j]
        /\ kpc'[k] = IF kSeen[k] \notin {0, page} THEN "event"
                     ELSE IF kind = "website" THEN "touch" ELSE "move"
    BY <1>0, <2>1
  <2>3. /\ kpc'[k] = "event" => Differs(k)'
        /\ kpc'[k] = "move" => kind # "website" /\ ~Differs(k)'
    BY <2>2 DEF Differs
  <2>4. \A v : EventOf(changes, v) => EventOf(changes', v)
    BY <2>1 DEF EventOf
  <2>5. \A j \in KIds \ {k} : Differs(j)' <=> Differs(j)
    BY <2>1, <2>2 DEF Differs
  <2> QED
    BY <2>1, <2>2, <2>3, <2>4, <2>5 DEF MovedInv, EventOf
<1>4. ASSUME NEW k \in KIds, RecordChange(k) PROVE MovedInv'
  <2>1. /\ kpc[k] = "event" /\ kpc' = [kpc EXCEPT ![k] = "move"]
        /\ UNCHANGED <<kind, kSeen, kPage, moved>>
    BY <1>4 DEF RecordChange
  <2>2. /\ DOMAIN changes' = 1..(Len(changes) + 1) /\ Len(changes') = Len(changes) + 1
        /\ \A i \in DOMAIN changes : changes'[i] = changes[i]
        /\ changes'[Len(changes')].after = kPage[k]
    BY <1>4, EventAppended
  <2>3. \A v : EventOf(changes, v) => EventOf(changes', v)
    BY <1>0, <2>2 DEF EventOf
  <2>4. EventOf(changes', kPage'[k])
    <3>1. Len(changes') \in DOMAIN changes' /\ changes'[Len(changes')].after = kPage'[k]
      BY <1>0, <2>1, <2>2
    <3> QED
      BY <3>1 DEF EventOf
  <2>5. Differs(k)'
    BY <2>1 DEF MovedInv, Differs
  <2> QED
    BY <1>0, <2>1, <2>3, <2>4, <2>5, MovedKept
<1>5. ASSUME NEW k \in KIds, MovePrice(k) \/ MoveWebsite(k) PROVE MovedInv'
  <2>1. moved' \subseteq moved \union {kPage[k]} /\ (moved' # moved => EventOf(changes, kPage[k]))
    <3>1. CASE MovePrice(k)
      BY <3>1 DEF MovePrice, MovedInv, Differs, EventOf
    <3>2. CASE MoveWebsite(k)
      BY <3>2 DEF MoveWebsite, MovedInv, EventOf
    <3> QED
      BY <1>5, <3>1, <3>2
  <2>2. /\ kpc'[k] \in {"idle", "recrawl"} /\ UNCHANGED <<kind, changes>>
        /\ \A j \in KIds \ {k} : /\ kpc'[j] = kpc[j] /\ kSeen'[j] = kSeen[j]
                                 /\ kPage'[j] = kPage[j]
    BY <1>0, <1>5 DEF MovePrice, MoveWebsite
  <2>3. \A v : EventOf(changes, v) => EventOf(changes', v)
    BY <2>2 DEF EventOf
  <2>4. \A v \in moved' : v \in moved \/ EventOf(changes', v)
    BY <2>1, <2>3
  <2> QED
    BY <2>2, <2>3, <2>4, MovedKept
<1> QED
  BY <1>1, <1>2, <1>3, <1>4, <1>5 DEF MonitorsNext, CheckWork, MonitorsRest

\* The check that is executed is the only one that is not idle.
LEMMA SoleCheck ==
  ASSUME MonitorTypeInv, ChainInv, ~crossing, NEW k \in KIds, checks[k] = "active"
  PROVE  \A j \in KIds \ {k} : checks[j] # "active" /\ kpc[j] = "idle"
BY DEF MonitorTypeInv, CheckHolds, ChainInv

\* The events are a chain.
Chained(list, some) ==
  /\ \A i \in DOMAIN list : list[i].before # 0 /\ list[i].after # 0
  /\ \A i \in 2..Len(list) :
       \/ list[i].before = list[i - 1].after
       \/ list[i].before = list[i - 1].before /\ some > 0

LEMMA ChainKept ==
  ASSUME MonitorTypeInv, ChainInv, ~crossing, NEW k \in KIds, checks[k] = "active",
         \A j \in KIds \ {k} : kpc'[j] = kpc[j],
         \A j \in KIds : checks'[j] = "active" => checks[j] = "active",
         kpc'[k] \in {"fetch", "event", "move", "touch"} => kSeen'[k] = seen',
         AtLast' \/ Moving(k)',
         kpc'[k] = "move" /\ Differs(k)' => Moving(k)',
         seen' = 0 => changes' = << >>,
         Chained(changes', breaks')
  PROVE  ChainInv'
<1>1. \A j \in KIds \ {k} : kpc'[j] = "idle"
  BY SoleCheck
<1>2. \A j, i \in KIds : checks'[j] = "active" /\ checks'[i] = "active" => j = i
  BY DEF ChainInv
<1>3. \A j \in KIds : kpc'[j] \in {"fetch", "event", "move", "touch"} => kSeen'[j] = seen'
  BY <1>1
<1>4. \A j \in KIds : kpc'[j] = "move" /\ Differs(j)' => Moving(j)'
  BY <1>1
<1> QED
  BY <1>2, <1>3, <1>4 DEF ChainInv, Chained

LEMMA ChainStep ==
  ASSUME MonitorTypeInv, MovedInv, ChainInv, [MonitorsNext]_monitors PROVE ChainInv'
<1> SUFFICES ASSUME ~crossing' PROVE ChainInv'
  BY DEF ChainInv
<1>0. /\ kpc \in [KIds -> KPcs] /\ kSeen \in [KIds -> 0..MaxPages]
      /\ kPage \in [KIds -> 0..MaxPages] /\ kind \in {"website", "price"}
      /\ checks \in [KIds -> {"none", "waiting", "active", "done", "dead"}]
      /\ Len(changes) \in Nat /\ DOMAIN changes = 1..Len(changes)
      /\ page \in 1..MaxPages /\ MaxPages \in Nat /\ breaks \in Nat
      /\ crossing \in BOOLEAN /\ seen \in Nat
  BY MonitorTyped
<1> USE DEF KAt, KGoto, KLeave
<1>1. ~crossing
  BY <1>0 DEF MonitorsNext, CheckWork, MonitorsRest, monitors, PageChanges, EnqueueCheck,
              TakeCheck, ReadMonitor, Fetch, RecordChange, MovePrice, MoveWebsite, Recrawl,
              EnqueueRecrawl, StartPipeline, Touch, CheckFault
<1>2. /\ \A j, k \in KIds : checks[j] = "active" /\ checks[k] = "active" => j = k
      /\ \A k \in KIds : kpc[k] \in {"fetch", "event", "move", "touch"} => kSeen[k] = seen
      /\ AtLast \/ \E k \in KIds : Moving(k)
      /\ \A k \in KIds : kpc[k] = "move" /\ Differs(k) => Moving(k)
      /\ seen = 0 => changes = << >>
      /\ Chained(changes, breaks)
  BY <1>1 DEF ChainInv, Chained
<1>3. CASE PageChanges \/ UNCHANGED monitors
  BY <1>3 DEF PageChanges, monitors, local, ChainInv, Differs, Moving, AtLast, LastEvent
<1>4. ASSUME NEW k \in KIds, EnqueueCheck(k) PROVE ChainInv'
  <2>1. /\ UNCHANGED <<seen, changes, kpc, kSeen, kPage, breaks, crossing>>
        /\ \A j \in KIds : checks'[j] = "active" => checks[j] = "active"
    BY <1>0, <1>4 DEF EnqueueCheck, local
  <2> QED
    BY <2>1 DEF ChainInv, Differs, Moving, AtLast, LastEvent
<1>5. ASSUME NEW k \in KIds, TakeCheck(k) PROVE ChainInv'
  <2>1. \A j \in KIds : checks[j] # "active" /\ kpc[j] = "idle"
    BY <1>5 DEF TakeCheck, KRunning, MonitorTypeInv, CheckHolds
  <2>2. /\ UNCHANGED <<seen, changes, kSeen, kPage, breaks>>
        /\ \A j \in KIds : checks'[j] = "active" => j = k
        /\ \A j \in KIds : kpc'[j] \in {"idle", "read"}
    BY <1>0, <1>5, <2>1 DEF TakeCheck
  <2>3. AtLast
    BY <1>2, <2>1 DEF Moving
  <2>4. AtLast'
    BY <2>2, <2>3 DEF AtLast, LastEvent
  <2>5. Chained(changes', breaks')
    BY <1>2, <2>2
  <2>6. seen' = 0 => changes' = << >>
    BY <1>2, <2>2
  <2> QED
    BY <2>2, <2>4, <2>5, <2>6 DEF ChainInv, Chained
<1>6. ASSUME NEW k \in KIds, CheckWork(k) \/ CheckFault(k), ~TakeCheck(k) PROVE ChainInv'
  <2>0. checks[k] = "active"
    BY <1>6 DEF CheckWork, ReadMonitor, Fetch, RecordChange, MovePrice, MoveWebsite,
       Recrawl,
                EnqueueRecrawl, StartPipeline, Touch, CheckFault
  <2>1. \A j \in KIds \ {k} : checks[j] # "active" /\ kpc[j] = "idle"
    BY <1>1, <2>0, SoleCheck
  <2>2. AtLast \/ Moving(k)
    BY <1>2, <2>1 DEF Moving
  <2>3. CASE ReadMonitor(k)
    <3>1. /\ UNCHANGED <<seen, changes, breaks, checks>> /\ kpc'[k] = "fetch"
          /\ kSeen'[k] = seen /\ \A j \in KIds \ {k} : kpc'[j] = kpc[j]
      BY <1>0, <2>3 DEF ReadMonitor
    <3>2. AtLast'
      BY <2>2, <2>3, <3>1 DEF ReadMonitor, Moving, AtLast, LastEvent
    <3> QED
      BY <1>1, <1>2, <2>0, <3>1, <3>2, ChainKept
  <2>4. CASE Fetch(k)
    <3>1. /\ UNCHANGED <<seen, changes, breaks, checks, kSeen>> /\ kPage'[k] = page
          /\ kpc'[k] = IF kSeen[k] \notin {0, page} THEN "event"
                       ELSE IF kind = "website" THEN "touch" ELSE "move"
          /\ kpc[k] = "fetch" /\ \A j \in KIds \ {k} : kpc'[j] = kpc[j]
      BY <1>0, <2>4 DEF Fetch
    <3>2. AtLast'
      BY <2>2, <3>1 DEF Moving, AtLast, LastEvent
    <3>3. kpc'[k] = "move" => ~Differs(k)'
      BY <3>1 DEF Differs
    <3>4. kSeen'[k] = seen'
      BY <1>2, <3>1
    <3> QED
      BY <1>1, <1>2, <2>0, <3>1, <3>2, <3>3, <3>4, ChainKept
  <2>5. CASE RecordChange(k)
    <3>1. /\ kpc[k] = "event" /\ UNCHANGED <<seen, breaks, checks, kSeen, kPage>>
          /\ kpc'[k] = "move" /\ \A j \in KIds \ {k} : kpc'[j] = kpc[j]
      BY <1>0, <2>5 DEF RecordChange
    <3>2. /\ kSeen[k] = seen /\ seen # 0 /\ kPage[k] # 0
      BY <1>0, <1>2, <3>1 DEF MovedInv, Differs, MonitorTypeInv, CheckHolds
    <3>3. /\ Len(changes') = Len(changes) + 1 /\ DOMAIN changes' = 1..(Len(changes) + 1)
          /\ changes' # << >>
          /\ \A i \in DOMAIN changes : changes'[i] = changes[i]
          /\ changes'[Len(changes')].before = seen
          /\ changes'[Len(changes')].after = kPage[k]
      BY <2>5, <3>2, EventAppended
    <3>4. Moving(k)'
      BY <3>1, <3>2, <3>3 DEF Moving, Differs, LastEvent, MovedInv
    <3>5. AtLast
      BY <2>2, <3>1 DEF Moving
    <3>6. Chained(changes', breaks')
      <4>1. \A i \in DOMAIN changes' : changes'[i].before # 0 /\ changes'[i].after # 0
        <5>1. \A i \in DOMAIN changes : changes'[i].before # 0 /\ changes'[i].after # 0
          BY <1>2, <3>3 DEF Chained
        <5>2. changes'[Len(changes')].before # 0 /\ changes'[Len(changes')].after # 0
          BY <3>2, <3>3
        <5> QED
          BY <1>0, <3>3, <5>1, <5>2
      <4>2. ASSUME NEW i \in 2..Len(changes')
            PROVE  \/ changes'[i].before = changes'[i - 1].after
                   \/ changes'[i].before = changes'[i - 1].before /\ breaks' > 0
        <5>1. CASE i \in 2..Len(changes)
          <6>1. i \in DOMAIN changes /\ i - 1 \in DOMAIN changes
            BY <1>0, <5>1
          <6> QED
            BY <1>2, <3>1, <3>3, <5>1, <6>1 DEF Chained
        <5>2. CASE i = Len(changes')
          <6>1. i - 1 = Len(changes) /\ i - 1 \in DOMAIN changes /\ changes # << >>
            BY <1>0, <3>3, <4>2, <5>2
          <6> QED
            BY <3>1, <3>3, <3>5, <5>2, <6>1 DEF AtLast, LastEvent
        <5> QED
          BY <1>0, <3>3, <4>2, <5>1, <5>2
      <4> QED
        BY <4>1, <4>2 DEF Chained
    <3>7. seen' # 0
      BY <3>1, <3>2
    <3> QED
      BY <1>1, <2>0, <3>1, <3>2, <3>4, <3>6, <3>7, ChainKept
  <2>6. CASE MovePrice(k) \/ MoveWebsite(k)
    <3>1. /\ kpc[k] = "move" /\ UNCHANGED <<changes, breaks>> /\ seen' = kPage[k]
          /\ kpc'[k] \in {"idle", "recrawl"} /\ \A j \in KIds \ {k} : kpc'[j] = kpc[j]
          /\ \A j \in KIds : checks'[j] = "active" => checks[j] = "active"
      BY <1>0, <2>6 DEF MovePrice, MoveWebsite
    <3>2. kSeen[k] = seen /\ kPage[k] # 0
      <4>1. kSeen[k] = seen
        BY <1>2, <3>1
      <4>2. kPage[k] \in 1..MaxPages
        BY <3>1 DEF MonitorTypeInv, CheckHolds
      <4> QED
        BY <1>0, <4>1, <4>2
    <3>3. AtLast'
      <4>1. CASE Differs(k)
        BY <1>2, <3>1, <4>1 DEF Moving, AtLast, LastEvent
      <4>2. CASE ~Differs(k)
        BY <1>2, <2>2, <3>1, <3>2, <4>2 DEF Moving, Differs, AtLast, LastEvent
      <4> QED
        BY <4>1, <4>2
    <3>4. seen' # 0
      BY <3>1, <3>2
    <3> QED
      BY <1>1, <1>2, <2>0, <3>1, <3>3, <3>4, ChainKept
  <2>7. CASE Touch(k)
    <3>1. /\ kpc[k] = "touch" /\ UNCHANGED <<changes, breaks>>
          /\ seen' = IF kSeen[k] = 0 THEN kPage[k] ELSE kSeen[k]
          /\ kpc'[k] = "idle" /\ \A j \in KIds \ {k} : kpc'[j] = kpc[j]
          /\ \A j \in KIds : checks'[j] = "active" => checks[j] = "active"
      BY <1>0, <2>7 DEF Touch
    <3>2. kSeen[k] = seen /\ kPage[k] # 0
      <4>1. kSeen[k] = seen
        BY <1>2, <3>1
      <4>2. kPage[k] \in 1..MaxPages
        BY <3>1 DEF MonitorTypeInv, CheckHolds
      <4> QED
        BY <1>0, <4>1, <4>2
    <3>3. AtLast'
      BY <1>2, <2>2, <3>1, <3>2 DEF Moving, AtLast, LastEvent
    <3>4. seen' # 0
      BY <3>1, <3>2
    <3> QED
      BY <1>1, <1>2, <2>0, <3>1, <3>3, <3>4, ChainKept
  <2>8. CASE Recrawl(k) \/ EnqueueRecrawl(k) \/ StartPipeline(k)
    <3>1. /\ kpc[k] # "move" /\ UNCHANGED <<changes, breaks, seen>>
          /\ kpc'[k] \in {"idle", "enqueue", "pipeline"}
          /\ \A j \in KIds \ {k} : kpc'[j] = kpc[j]
          /\ \A j \in KIds : checks'[j] = "active" => checks[j] = "active"
      BY <1>0, <2>8 DEF Recrawl, EnqueueRecrawl, StartPipeline
    <3>2. AtLast'
      BY <2>2, <3>1 DEF Moving, AtLast, LastEvent
    <3> QED
      BY <1>1, <1>2, <2>0, <3>1, <3>2, ChainKept
  <2>9. CASE CheckFault(k)
    <3>1. /\ UNCHANGED <<changes, seen>> /\ breaks' = breaks + 1
          /\ kpc'[k] = "idle" /\ \A j \in KIds \ {k} : kpc'[j] = kpc[j]
          /\ \A j \in KIds : checks'[j] = "active" => checks[j] = "active"
      BY <1>0, <2>9 DEF CheckFault
    <3>2. breaks' > 0 /\ (breaks > 0 => breaks' > 0)
      BY <1>0, <3>1
    <3>3. AtLast'
      BY <2>2, <3>1, <3>2 DEF Moving, AtLast, LastEvent
    <3>4. Chained(changes', breaks')
      BY <1>2, <3>1, <3>2 DEF Chained
    <3> QED
      BY <1>1, <1>2, <2>0, <3>1, <3>3, <3>4, ChainKept
  <2> QED
    BY <1>6, <2>3, <2>4, <2>5, <2>6, <2>7, <2>8, <2>9 DEF CheckWork
<1> QED
  BY <1>3, <1>4, <1>5, <1>6 DEF MonitorsNext, CheckWork, MonitorsRest

\* Without overlapping checks the events are a history of the page, however often a check
\* fails between its writes and is executed again, and every version that the monitor
\* has moved to has its event.
THEOREM EventsAreAHistory == MonitorsSpec => []ChangesChain
<1> DEFINE Chain == MonitorTypeInv /\ MovedInv /\ ChainInv
<1>1. MonitorsInit => Chain
  <2> SUFFICES ASSUME MonitorsInit PROVE Chain
    OBVIOUS
  <2>1. MovedInv
    BY DEF MonitorsInit, MovedInv
  <2>2. ChainInv
    BY DEF MonitorsInit, ChainInv, AtLast
  <2> QED
    BY <2>1, <2>2, MonitorTypeInit
<1>2. Chain /\ [MonitorsNext]_monitors => Chain'
  BY MonitorTypeStep, MovedStep, ChainStep
<1>3. Chain => ChangesChain
  BY DEF MovedInv, ChainInv, ChangesChain
<1> QED
  BY <1>1, <1>2, <1>3, PTL DEF MonitorsSpec

-----------------------------------------------------------------------------
(* What the failures of a monitor lose *)

LEMMA ChecksFinite ==
  /\ IsFiniteSet(KIds)
  /\ \A S \in SUBSET KIds : IsFiniteSet(S) /\ Cardinality(S) \in Nat
<1>1. 1 \in Int /\ MaxChecks \in Int
  BY MonitorAssumption
<1>2. IsFiniteSet(KIds)
  BY <1>1, FS_Interval DEF KIds
<1> QED
  BY <1>2, FS_Subset, FS_CardinalityType

\* The versions that did not start the pipeline are the lost ones, and at most one for
\* each check that holds one.
LEMMA LostBounds ==
  ASSUME MonitorTypeInv
  PROVE  /\ IsFiniteSet(Lost) /\ Cardinality(Lost) \in Nat
         /\ IsFiniteSet(Late) /\ Cardinality(Late) \in Nat
         /\ Cardinality(moved \ pipelines) <= Cardinality(Lost) + Cardinality(Late)
<1> DEFINE held == {kPage[k] : k \in Late}
           f == [k \in Late |-> kPage[k]]
<1>1. IsFiniteSet(1..MaxPages)
  BY MonitorTyped, FS_Interval
<1>2. Lost \in SUBSET (1..MaxPages) /\ moved \ pipelines \in SUBSET (1..MaxPages)
  BY MonitorTyped DEF Lost
<1>3. IsFiniteSet(Late) /\ Cardinality(Late) \in Nat
  BY ChecksFinite DEF Late
<1>4. f \in Surjection(Late, held)
  BY DEF Surjection
<1>5. IsFiniteSet(held) /\ Cardinality(held) <= Cardinality(Late)
  BY ONLY <1>3, <1>4, FS_Surjection
<1>6. IsFiniteSet(Lost) /\ Cardinality(Lost) \in Nat /\ Cardinality(held) \in Nat
  BY <1>1, <1>2, <1>5, FS_Subset, FS_CardinalityType
<1>7. /\ IsFiniteSet(Lost \union held)
      /\ Cardinality(Lost \union held)
           = Cardinality(Lost) + Cardinality(held) - Cardinality(Lost \intersect held)
  BY <1>5, <1>6, FS_Union
<1>8. Cardinality(Lost \intersect held) \in Nat
  BY <1>6, FS_Intersection, FS_CardinalityType
<1>9. moved \ pipelines \in SUBSET (Lost \union held)
  BY DEF Lost
<1>10. Cardinality(moved \ pipelines) <= Cardinality(Lost \union held)
  BY <1>7, <1>9, FS_Subset
<1>11. Cardinality(moved \ pipelines) \in Nat
  BY <1>1, <1>2, FS_Subset, FS_CardinalityType
<1> QED
  BY <1>3, <1>5, <1>6, <1>7, <1>8, <1>10, <1>11

\* A failure loses the version its check holds; nothing else loses one.
LEMMA LostStep ==
  ASSUME MonitorTypeInv, MonitorTypeInv', LostInv, [MonitorsNext]_monitors PROVE LostInv'
<1> SUFFICES ASSUME kind' = "website" PROVE LostInv'
  BY DEF LostInv
<1>0. /\ kpc \in [KIds -> KPcs] /\ kPage \in [KIds -> 0..MaxPages]
      /\ breaks \in Nat /\ recrawls \in [created : Nat, enqueued : Nat]
  BY MonitorTyped
<1> USE DEF KAt, KGoto, KLeave
<1>1. kind = "website"
  BY DEF MonitorsNext, CheckWork, MonitorsRest, monitors, PageChanges, EnqueueCheck,
         TakeCheck, ReadMonitor, Fetch, RecordChange, MovePrice, MoveWebsite, Recrawl,
         EnqueueRecrawl, StartPipeline, Touch, CheckFault
<1>2. /\ Cardinality(Lost) <= breaks
      /\ recrawls.created - recrawls.enqueued <= breaks + Cardinality(Enqueuing)
  BY <1>1 DEF LostInv
<1>3. /\ IsFiniteSet(Lost) /\ Cardinality(Lost) \in Nat
      /\ IsFiniteSet(Lost') /\ Cardinality(Lost') \in Nat
  <2>1. IsFiniteSet(Lost) /\ Cardinality(Lost) \in Nat
    BY LostBounds
  <2>2. IsFiniteSet(1..MaxPages)
    BY FS_Interval, MonitorTyped
  <2>3. moved' \subseteq 1..MaxPages
    BY DEF MonitorTypeInv, MonitorsTypeOK
  <2>4. Lost' \in SUBSET (1..MaxPages)
    BY <2>3 DEF Lost
  <2> QED
    BY <2>1, <2>2, <2>4, FS_Subset, FS_CardinalityType
<1>4. /\ IsFiniteSet(Enqueuing) /\ Cardinality(Enqueuing) \in Nat
      /\ Cardinality(Enqueuing)' \in Nat
  BY ChecksFinite DEF Enqueuing
<1>5. ASSUME Lost' \subseteq Lost, breaks <= breaks', breaks' \in Nat
      PROVE  Cardinality(Lost)' <= breaks'
  BY <1>0, <1>2, <1>3, <1>5, FS_Subset
<1>6. ASSUME UNCHANGED <<moved, pipelines, breaks, recrawls, kpc, kPage>> PROVE LostInv'
  BY <1>6, <1>2 DEF Lost, Late, LostInv, Enqueuing
<1>7. CASE PageChanges \/ UNCHANGED monitors
  BY <1>6, <1>7 DEF PageChanges, monitors, local
<1>8. ASSUME NEW k \in KIds, EnqueueCheck(k) PROVE LostInv'
  BY <1>6, <1>8 DEF EnqueueCheck, local
<1>9. ASSUME NEW k \in KIds, TakeCheck(k) \/ ReadMonitor(k) \/ Fetch(k) \/ RecordChange(k)
                             \/ Touch(k)
      PROVE  LostInv'
  <2>1. /\ kpc[k] \notin {"recrawl", "enqueue", "pipeline"}
        /\ kpc'[k] \notin {"recrawl", "enqueue", "pipeline"}
        /\ UNCHANGED <<moved, pipelines, breaks, recrawls>>
        /\ \A j \in KIds \ {k} : kpc'[j] = kpc[j] /\ kPage'[j] = kPage[j]
    BY <1>0, <1>9 DEF TakeCheck, ReadMonitor, Fetch, RecordChange, Touch, MonitorTypeInv,
                      CheckHolds
  <2>2. Lost' \subseteq Lost
    BY <2>1 DEF Lost, Late
  <2>3. Enqueuing' = Enqueuing
    BY <2>1 DEF Enqueuing
  <2> QED
    BY <1>0, <1>2, <1>5, <2>1, <2>2, <2>3 DEF LostInv
<1>10. ASSUME NEW k \in KIds, MovePrice(k) \/ MoveWebsite(k) PROVE LostInv'
  <2>1. /\ kpc[k] = "move" /\ kpc'[k] = "recrawl" /\ UNCHANGED <<pipelines, breaks, recrawls, kPage>>
        /\ moved' = moved \union {kPage[k]}
        /\ \A j \in KIds \ {k} : kpc'[j] = kpc[j]
    BY <1>0, <1>1, <1>10 DEF MovePrice, MoveWebsite
  <2>2. Lost' \subseteq Lost
    BY <2>1 DEF Lost, Late
  <2>3. Enqueuing' = Enqueuing
    BY <2>1 DEF Enqueuing
  <2> QED
    BY <1>0, <1>2, <1>5, <2>1, <2>2, <2>3 DEF LostInv
<1>11. ASSUME NEW k \in KIds, Recrawl(k) PROVE LostInv'
  <2>1. /\ kpc[k] = "recrawl" /\ UNCHANGED <<moved, pipelines, breaks, kPage>>
        /\ \A j \in KIds \ {k} : kpc'[j] = kpc[j]
        /\ \/ /\ recrawls'.created = recrawls.created + 1
              /\ recrawls'.enqueued = recrawls.enqueued /\ kpc'[k] = "enqueue"
           \/ recrawls' = recrawls /\ kpc'[k] = "pipeline"
    BY <1>0, <1>11 DEF Recrawl
  <2>2. Lost' \subseteq Lost
    BY <2>1 DEF Lost, Late
  <2>3. \/ Enqueuing' = Enqueuing \union {k} /\ k \notin Enqueuing /\ kpc'[k] = "enqueue"
        \/ Enqueuing' = Enqueuing /\ kpc'[k] = "pipeline"
    BY <2>1 DEF Enqueuing
  <2>4. \/ Cardinality(Enqueuing') = Cardinality(Enqueuing) + 1 /\ kpc'[k] = "enqueue"
        \/ Enqueuing' = Enqueuing /\ kpc'[k] = "pipeline"
    BY <1>4, <2>3, FS_AddElement
  <2> QED
    BY <1>0, <1>2, <1>4, <1>5, <2>1, <2>2, <2>4 DEF LostInv
<1>12. ASSUME NEW k \in KIds, EnqueueRecrawl(k) PROVE LostInv'
  <2>1. /\ kpc[k] = "enqueue" /\ UNCHANGED <<moved, pipelines, breaks, kPage>>
        /\ \A j \in KIds \ {k} : kpc'[j] = kpc[j]
        /\ recrawls'.enqueued = recrawls.enqueued + 1
        /\ recrawls'.created = recrawls.created /\ kpc'[k] = "pipeline"
    BY <1>0, <1>12 DEF EnqueueRecrawl
  <2>2. Lost' \subseteq Lost
    BY <2>1 DEF Lost, Late
  <2>3. Enqueuing' = Enqueuing \ {k} /\ k \in Enqueuing
    BY <2>1 DEF Enqueuing
  <2>4. Cardinality(Enqueuing') = Cardinality(Enqueuing) - 1
    BY <1>4, <2>3, FS_RemoveElement
  <2> QED
    BY <1>0, <1>2, <1>4, <1>5, <2>1, <2>2, <2>4 DEF LostInv
<1>13. ASSUME NEW k \in KIds, StartPipeline(k) PROVE LostInv'
  <2>1. /\ kpc[k] = "pipeline" /\ kpc'[k] = "idle" /\ UNCHANGED <<moved, breaks, recrawls>>
        /\ pipelines' = pipelines \union {kPage[k]}
        /\ \A j \in KIds \ {k} : kpc'[j] = kpc[j] /\ kPage'[j] = kPage[j]
    BY <1>0, <1>13 DEF StartPipeline, Started
  <2>2. Lost' \subseteq Lost
    BY <2>1 DEF Lost, Late
  <2>3. Enqueuing' = Enqueuing
    BY <2>1 DEF Enqueuing
  <2> QED
    BY <1>0, <1>2, <1>5, <2>1, <2>2, <2>3 DEF LostInv
<1>14. ASSUME NEW k \in KIds, CheckFault(k) PROVE LostInv'
  <2>1. /\ kpc'[k] = "idle" /\ UNCHANGED <<moved, pipelines, recrawls>>
        /\ breaks' = breaks + 1
        /\ \A j \in KIds \ {k} : kpc'[j] = kpc[j] /\ kPage'[j] = kPage[j]
    BY <1>0, <1>14 DEF CheckFault
  <2>2. Lost' \subseteq Lost \union {kPage[k]}
    BY <2>1 DEF Lost, Late
  <2>3. Cardinality(Lost') <= Cardinality(Lost) + 1
    <3>1. /\ IsFiniteSet(Lost \union {kPage[k]})
          /\ Cardinality(Lost \union {kPage[k]}) <= Cardinality(Lost) + 1
      BY <1>3, FS_AddElement
    <3>2. Cardinality(Lost') <= Cardinality(Lost \union {kPage[k]})
      BY <2>2, <3>1, FS_Subset
    <3>3. Cardinality(Lost \union {kPage[k]}) \in Nat
      BY <3>1, FS_CardinalityType
    <3> QED
      BY <1>3, <3>1, <3>2, <3>3
  <2>4. Enqueuing' = Enqueuing \ {k}
    BY <2>1 DEF Enqueuing
  <2>5. Cardinality(Enqueuing) <= Cardinality(Enqueuing') + 1
    <3>1. Cardinality(Enqueuing \ {k}) = IF k \in Enqueuing THEN Cardinality(Enqueuing) - 1
                                         ELSE Cardinality(Enqueuing)
      BY <1>4, FS_RemoveElement
    <3> QED
      BY <1>4, <2>4, <3>1
  <2> QED
    BY <1>0, <1>2, <1>3, <1>4, <2>1, <2>3, <2>5 DEF LostInv
<1> QED
  BY <1>7, <1>8, <1>9, <1>10, <1>11, <1>12, <1>13, <1>14
     DEF MonitorsNext, CheckWork, MonitorsRest

\* The new hash is written before the pipeline is started (website-monitor.ts): each
\* failure loses one version of the page at most, and one task of a crawl job.
THEOREM FailuresLoseOneVersion == MonitorsSpec => []LostOnlyByBreaks
<1>1. MonitorsInit => LostInv
  <2> SUFFICES ASSUME MonitorsInit PROVE LostInv
    OBVIOUS
  <2>1. Lost = {} /\ Enqueuing = {} /\ breaks = 0
        /\ recrawls.created = 0 /\ recrawls.enqueued = 0
    BY DEF MonitorsInit, Lost, Enqueuing
  <2> QED
    BY <2>1, FS_EmptySet DEF LostInv
<1>2. MonitorTypeInv /\ LostInv /\ [MonitorsNext]_monitors => MonitorTypeInv' /\ LostInv'
  BY MonitorTypeStep, LostStep
<1>3. MonitorTypeInv /\ LostInv => LostOnlyByBreaks
  <2> SUFFICES ASSUME MonitorTypeInv, LostInv, kind = "website" PROVE LostOnlyByBreaks
    BY DEF LostOnlyByBreaks
  <2>1. /\ Cardinality(moved \ pipelines) <= Cardinality(Lost) + Cardinality(Late)
        /\ Cardinality(Lost) \in Nat /\ Cardinality(Late) \in Nat
    BY LostBounds
  <2>2. /\ Cardinality(Lost) <= breaks /\ breaks \in Nat
        /\ recrawls.created - recrawls.enqueued <= breaks + Cardinality(Enqueuing)
    BY MonitorTyped DEF LostInv
  <2>3. Cardinality(moved \ pipelines) \in Nat
    <3>1. IsFiniteSet(1..MaxPages) /\ moved \ pipelines \in SUBSET (1..MaxPages)
      BY MonitorTyped, FS_Interval
    <3> QED
      BY <3>1, FS_Subset, FS_CardinalityType
  <2>4. Cardinality(moved \ pipelines) <= breaks + Cardinality(Late)
    BY <2>1, <2>2, <2>3
  <2> QED
    BY <2>2, <2>4 DEF LostOnlyByBreaks, Late, Enqueuing
<1> QED
  BY MonitorTypeInit, <1>1, <1>2, <1>3, PTL DEF MonitorsSpec

-----------------------------------------------------------------------------
(* Newsletter *)

\* What a row holds is bounded by the subscriptions made, and only an execution holds
\* subscribers: those it read, in two disjoint parts.
SubscriptionsBounded ==
  \A p \in People : /\ subscriber[p].token <= subscriber[p].made
                    /\ subscriber[p].made <= MaxSubscriptions
ExecutionHolds ==
  \A n \in NIds :
    /\ npc[n] # "mail" => toMail[n] = {} /\ mailed[n] = {}
    /\ mailing[n] # "active" => npc[n] = "idle"
    /\ mailing[n] # "dead" => mailings[n] < MaxMailings
    /\ toMail[n] \intersect mailed[n] = {}
NewsletterTypeInv == NewsletterTypeOK /\ SubscriptionsBounded /\ ExecutionHolds

\* Whoever is on the way to a mail has followed a link.
FollowedInv ==
  \A p \in People :
    \/ tokens[p] # {}
    \/ /\ mails[p] = 0 /\ confirming[p] = 0 /\ subscriber[p].status # "CONFIRMED"
       /\ \A n \in NIds : p \notin toMail[n]

\* A mail was sent by an execution that goes on or ended well, or is the price of a
\* failure.
Charged(p) == {n \in NIds : p \in mailed[n] \/ mailing[n] = "done"}
MailedInv ==
  /\ \A p \in promised : mails[p] > 0
  /\ \A n \in NIds : \A p \in mailed[n] : mails[p] > 0
  /\ (\E n \in NIds : mailing[n] = "done") => campaign = "SENT"
ChargedInv == \A p \in People : mails[p] <= Cardinality(Charged(p)) + outages

LEMMA NewsletterTyped ==
  ASSUME NewsletterTypeInv
  PROVE  /\ subscriber \in [People -> Subscriber]
         /\ tokens \in [People -> SUBSET (1..MaxSubscriptions)]
         /\ confirming \in [People -> 0..MaxSubscriptions] /\ MaxSubscriptions \in Nat
         /\ campaign \in {"SCHEDULED", "SENT"}
         /\ mailing \in [NIds -> {"none", "waiting", "active", "done", "dead"}]
         /\ npc \in [NIds -> {"idle", "read", "mail"}]
         /\ toMail \in [NIds -> SUBSET People] /\ mailed \in [NIds -> SUBSET People]
         /\ mailings \in [NIds -> 0..MaxMailings] /\ MaxMailings \in Nat
         /\ outages \in Nat /\ outages \in 0..MaxOutages /\ MaxOutages \in Nat
         /\ mails \in [People -> Nat] /\ promised \subseteq People
         /\ \A p \in People : /\ subscriber[p].token \in Nat /\ subscriber[p].made \in Nat
                              /\ subscriber[p].token <= subscriber[p].made
                              /\ subscriber[p].made <= MaxSubscriptions
BY NewsletterAssumption DEF NewsletterTypeInv, NewsletterTypeOK, SubscriptionsBounded,
   Subscriber

LEMMA NewsletterTypeInit == NewsletterInit => NewsletterTypeInv
<1> SUFFICES ASSUME NewsletterInit PROVE NewsletterTypeInv
  OBVIOUS
<1>1. 0 \in 0..MaxSubscriptions /\ 0 \in 0..MaxMailings /\ 0 \in 0..MaxOutages
  BY NewsletterAssumption
<1>2. subscriber \in [People -> Subscriber] /\ mails \in [People -> Nat]
  BY DEF NewsletterInit, Subscriber
<1>3. /\ tokens \in [People -> SUBSET (1..MaxSubscriptions)]
      /\ confirming \in [People -> 0..MaxSubscriptions]
  BY <1>1 DEF NewsletterInit
<1>4. /\ mailing \in [NIds -> {"none", "waiting", "active", "done", "dead"}]
      /\ npc \in [NIds -> {"idle", "read", "mail"}] /\ mailings \in [NIds -> 0..MaxMailings]
      /\ toMail \in [NIds -> SUBSET People] /\ mailed \in [NIds -> SUBSET People]
  BY <1>1 DEF NewsletterInit
<1>5. NewsletterTypeOK
  BY <1>1, <1>2, <1>3, <1>4 DEF NewsletterInit, NewsletterTypeOK
<1>6. SubscriptionsBounded /\ ExecutionHolds
  BY NewsletterAssumption DEF NewsletterInit, SubscriptionsBounded, ExecutionHolds
<1> QED
  BY <1>5, <1>6 DEF NewsletterTypeInv

LEMMA NewsletterTypeStep ==
  ASSUME NewsletterTypeInv, [NewsletterNext]_newsletter PROVE NewsletterTypeInv'
<1>0. /\ NewsletterTypeOK /\ SubscriptionsBounded /\ ExecutionHolds /\ MaxSubscriptions \in Nat
      /\ MaxMailings \in Nat /\ MaxOutages \in Nat
  BY NewsletterAssumption DEF NewsletterTypeInv
<1> USE DEF people, work, NAt, NLeave
<1>1. ASSUME NEW p \in People, Subscribe(p) PROVE NewsletterTypeInv'
  <2>1. /\ subscriber[p].made \in Nat /\ subscriber[p].made < MaxSubscriptions
        /\ subscriber' = [subscriber EXCEPT ![p] =
             [status |-> "PENDING", token |-> subscriber[p].made + 1,
              made |-> subscriber[p].made + 1]]
        /\ UNCHANGED <<confirming, tokens, work>>
    BY <1>1, NewsletterTyped DEF Subscribe
  <2>2. subscriber' \in [People -> Subscriber]
    BY <1>0, <2>1 DEF NewsletterTypeOK, Subscriber
  <2>3. NewsletterTypeOK'
    BY <1>0, <2>1, <2>2 DEF NewsletterTypeOK
  <2>4. SubscriptionsBounded'
    BY <1>0, <2>1, NewsletterTyped DEF SubscriptionsBounded
  <2>5. ExecutionHolds'
    BY <1>0, <2>1 DEF ExecutionHolds
  <2> QED
    BY <2>3, <2>4, <2>5 DEF NewsletterTypeInv
<1>2. ASSUME NEW p \in People, ConfirmFind(p) PROVE NewsletterTypeInv'
  <2>1. /\ subscriber[p].token \in 1..MaxSubscriptions
        /\ confirming' = [confirming EXCEPT ![p] = subscriber[p].token]
        /\ tokens' = [tokens EXCEPT ![p] = tokens[p] \union {subscriber[p].token}]
        /\ UNCHANGED <<subscriber, work>>
    BY <1>2, NewsletterTyped DEF ConfirmFind
  <2>2. /\ confirming' \in [People -> 0..MaxSubscriptions]
        /\ tokens' \in [People -> SUBSET (1..MaxSubscriptions)]
    BY <1>0, <2>1 DEF NewsletterTypeOK
  <2> QED
    BY <1>0, <2>1, <2>2 DEF NewsletterTypeInv, NewsletterTypeOK, SubscriptionsBounded,
       ExecutionHolds
<1>3. ASSUME NEW p \in People, ConfirmWrite(p) PROVE NewsletterTypeInv'
  <2>1. /\ \/ subscriber' = [subscriber EXCEPT ![p].status = "CONFIRMED", ![p].token = 0]
           \/ UNCHANGED subscriber
        /\ confirming' = [confirming EXCEPT ![p] = 0] /\ UNCHANGED <<tokens, work>>
    BY <1>3 DEF ConfirmWrite
  <2>2. subscriber' \in [People -> Subscriber]
    BY <1>0, <2>1 DEF NewsletterTypeOK, Subscriber
  <2>3. confirming' \in [People -> 0..MaxSubscriptions]
    BY <1>0, <2>1 DEF NewsletterTypeOK
  <2>4. SubscriptionsBounded'
    <3>1. \A q \in People : /\ subscriber'[q].made = subscriber[q].made
                            /\ subscriber'[q].token \in {0, subscriber[q].token}
      <4>1. ASSUME NEW q \in People, q # p PROVE subscriber'[q] = subscriber[q]
        BY <1>0, <2>1, <4>1 DEF NewsletterTypeOK
      <4>2. \/ subscriber'[p] = [subscriber[p] EXCEPT !.status = "CONFIRMED", !.token = 0]
            \/ subscriber'[p] = subscriber[p]
        BY <1>0, <2>1 DEF NewsletterTypeOK
      <4>3. subscriber[p] \in Subscriber
        BY <1>0 DEF NewsletterTypeOK
      <4>4. /\ subscriber'[p].made = subscriber[p].made
            /\ subscriber'[p].token \in {0, subscriber[p].token}
        BY <4>2, <4>3 DEF Subscriber
      <4> QED
        BY <4>1, <4>4
    <3>2. \A q \in People : /\ subscriber[q].token \in Nat /\ subscriber[q].made \in Nat
                            /\ subscriber[q].token <= subscriber[q].made
                            /\ subscriber[q].made <= MaxSubscriptions
      BY NewsletterTyped
    <3> QED
      BY <3>1, <3>2 DEF SubscriptionsBounded
  <2>5. NewsletterTypeOK' /\ ExecutionHolds'
    BY <1>0, <2>1, <2>2, <2>3 DEF NewsletterTypeOK, ExecutionHolds
  <2> QED
    BY <2>4, <2>5 DEF NewsletterTypeInv
<1>4. ASSUME NEW n \in NIds, SendCampaign(n) \/ NewsletterTake(n) \/ ReadSubscribers(n)
      PROVE  NewsletterTypeInv'
  <2>1. UNCHANGED <<people, campaign, mailed, mailings, outages, mails, promised>>
    BY <1>4 DEF SendCampaign, NewsletterTake, ReadSubscribers
  <2>2. /\ mailing' \in [NIds -> {"none", "waiting", "active", "done", "dead"}]
        /\ npc' \in [NIds -> {"idle", "read", "mail"}]
        /\ toMail' \in [NIds -> SUBSET People]
    BY <1>0, <1>4 DEF SendCampaign, NewsletterTake, ReadSubscribers, NewsletterTypeOK,
       Confirmed
  <2>3. NewsletterTypeOK' /\ SubscriptionsBounded'
    BY <1>0, <2>1, <2>2 DEF NewsletterTypeOK, SubscriptionsBounded
  <2>4. ExecutionHolds'
    BY <1>0, <1>4, <2>1 DEF SendCampaign, NewsletterTake, ReadSubscribers, NewsletterTypeOK,
                            ExecutionHolds
  <2> QED
    BY <2>3, <2>4 DEF NewsletterTypeInv
<1>5. ASSUME NEW n \in NIds, Mail(n) PROVE NewsletterTypeInv'
  <2>1. PICK p \in toMail[n] : /\ mails' = [mails EXCEPT ![p] = @ + 1]
                               /\ toMail' = [toMail EXCEPT ![n] = @ \ {p}]
                               /\ mailed' = [mailed EXCEPT ![n] = @ \union {p}]
    BY <1>5 DEF Mail
  <2>2. p \in People /\ npc[n] = "mail"
        /\ UNCHANGED <<people, campaign, mailing, npc, mailings, outages, promised>>
    BY <1>0, <1>5 DEF NewsletterTypeOK, Mail
  <2>3. /\ mails' \in [People -> Nat] /\ toMail' \in [NIds -> SUBSET People]
        /\ mailed' \in [NIds -> SUBSET People]
    BY <1>0, <2>1, <2>2 DEF NewsletterTypeOK
  <2>4. NewsletterTypeOK' /\ SubscriptionsBounded'
    BY <1>0, <2>2, <2>3 DEF NewsletterTypeOK, SubscriptionsBounded
  <2>5. ExecutionHolds'
    BY <1>0, <2>1, <2>2 DEF NewsletterTypeOK, ExecutionHolds
  <2> QED
    BY <2>4, <2>5 DEF NewsletterTypeInv
<1>6. ASSUME NEW n \in NIds, MarkSent(n) PROVE NewsletterTypeInv'
  <2>1. /\ campaign' = "SENT" /\ promised' \subseteq People
        /\ UNCHANGED <<people, mailings, outages, mails>>
    BY <1>0, <1>6 DEF MarkSent, NewsletterTypeOK
  <2>2. /\ mailing' \in [NIds -> {"none", "waiting", "active", "done", "dead"}]
        /\ npc' \in [NIds -> {"idle", "read", "mail"}]
        /\ toMail' \in [NIds -> SUBSET People] /\ mailed' \in [NIds -> SUBSET People]
    BY <1>0, <1>6 DEF MarkSent, NewsletterTypeOK
  <2>3. NewsletterTypeOK' /\ SubscriptionsBounded'
    BY <1>0, <2>1, <2>2 DEF NewsletterTypeOK, SubscriptionsBounded
  <2>4. ExecutionHolds'
    BY <1>0, <1>6 DEF MarkSent, NewsletterTypeOK, ExecutionHolds
  <2> QED
    BY <2>3, <2>4 DEF NewsletterTypeInv
<1>7. ASSUME NEW n \in NIds, NewsletterFault(n) PROVE NewsletterTypeInv'
  <2>1. /\ UNCHANGED <<people, promised>> /\ outages' = outages + 1 /\ outages < MaxOutages
        /\ campaign' \in {campaign, "SENT"} /\ mailing[n] = "active"
    BY <1>7 DEF NewsletterFault
  <2>2. mails' \in [People -> Nat]
    BY <1>0, <1>7 DEF NewsletterFault, NewsletterTypeOK
  <2>3. /\ mailings[n] \in Nat /\ mailings[n] < MaxMailings
        /\ mailings' = [mailings EXCEPT ![n] = mailings[n] + 1]
        /\ mailings'[n] = mailings[n] + 1
    BY <1>0, <1>7, <2>1 DEF NewsletterFault, NewsletterTypeOK, ExecutionHolds
  <2>4. /\ mailing' = [mailing EXCEPT ![n] = IF mailings[n] + 1 < MaxMailings THEN "waiting"
                                             ELSE "dead"]
        /\ npc' = [npc EXCEPT ![n] = "idle"] /\ toMail' = [toMail EXCEPT ![n] = {}]
        /\ mailed' = [mailed EXCEPT ![n] = {}]
    BY <1>7, <2>3 DEF NewsletterFault
  <2>5. /\ mailing' \in [NIds -> {"none", "waiting", "active", "done", "dead"}]
        /\ npc' \in [NIds -> {"idle", "read", "mail"}]
        /\ toMail' \in [NIds -> SUBSET People] /\ mailed' \in [NIds -> SUBSET People]
        /\ mailings' \in [NIds -> 0..MaxMailings]
    BY <1>0, <2>3, <2>4 DEF NewsletterTypeOK
  <2>6. outages' \in 0..MaxOutages /\ campaign' \in {"SCHEDULED", "SENT"}
    BY <1>0, <2>1 DEF NewsletterTypeOK
  <2>7. NewsletterTypeOK' /\ SubscriptionsBounded'
    BY <1>0, <2>1, <2>2, <2>5, <2>6 DEF NewsletterTypeOK, SubscriptionsBounded
  <2>8. ExecutionHolds'
    BY <1>0, <2>3, <2>4 DEF NewsletterTypeOK, ExecutionHolds
  <2> QED
    BY <2>7, <2>8 DEF NewsletterTypeInv
<1>8. CASE UNCHANGED newsletter
  BY <1>0, <1>8 DEF newsletter, NewsletterTypeInv, NewsletterTypeOK,
     SubscriptionsBounded, ExecutionHolds
<1> QED
  BY <1>1, <1>2, <1>3, <1>4, <1>5, <1>6, <1>7, <1>8
     DEF NewsletterNext, NewsletterWork, NewsletterRest

\* The type invariant of the subscriptions and of the executions of the campaign's task.
THEOREM NewsletterTypeCorrect == NewsletterSpec => []NewsletterTypeOK
<1>1. NewsletterTypeInv /\ [NewsletterNext]_newsletter => NewsletterTypeInv'
  BY NewsletterTypeStep
<1>2. NewsletterTypeInv => NewsletterTypeOK
  BY DEF NewsletterTypeInv
<1> QED
  BY NewsletterTypeInit, <1>1, <1>2, PTL DEF NewsletterSpec

\* A link that is followed stays followed.
LEMMA FollowedStep ==
  ASSUME NewsletterTypeInv, FollowedInv, [NewsletterNext]_newsletter PROVE FollowedInv'
<1>0. /\ subscriber \in [People -> Subscriber] /\ confirming \in [People -> 0..MaxSubscriptions]
      /\ tokens \in [People -> SUBSET (1..MaxSubscriptions)]
      /\ toMail \in [NIds -> SUBSET People] /\ mails \in [People -> Nat]
  BY NewsletterTyped
<1> USE DEF people, work, NAt, NLeave
<1>1. ASSUME NEW p \in People, Subscribe(p) \/ ConfirmFind(p) \/ ConfirmWrite(p)
      PROVE  FollowedInv'
  <2>1. /\ UNCHANGED <<mails, toMail>>
        /\ \A q \in People \ {p} : /\ subscriber'[q] = subscriber[q]
                                   /\ confirming'[q] = confirming[q] /\ tokens'[q] = tokens[q]
    BY <1>0, <1>1 DEF Subscribe, ConfirmFind, ConfirmWrite
  <2>2. \/ tokens'[p] # {}
        \/ /\ tokens'[p] = tokens[p] /\ confirming'[p] = confirming[p]
           /\ subscriber'[p].status # "CONFIRMED"
    <3>1. CASE Subscribe(p)
      BY <1>0, <3>1 DEF Subscribe
    <3>2. CASE ConfirmFind(p)
      BY <1>0, <3>2 DEF ConfirmFind
    <3>3. CASE ConfirmWrite(p)
      BY <1>0, <3>3 DEF ConfirmWrite, FollowedInv
    <3> QED
      BY <1>1, <3>1, <3>2, <3>3
  <2> QED
    BY <2>1, <2>2 DEF FollowedInv
<1>2. ASSUME NEW n \in NIds, SendCampaign(n) \/ NewsletterTake(n) \/ ReadSubscribers(n)
                             \/ Mail(n) \/ MarkSent(n) \/ NewsletterFault(n)
      PROVE  FollowedInv'
  <2>1. UNCHANGED <<subscriber, confirming, tokens>>
    BY <1>2 DEF SendCampaign, NewsletterTake, ReadSubscribers, Mail, MarkSent,
       NewsletterFault
  <2>2. \A m \in NIds, p \in People :
          p \in toMail'[m] => p \in toMail[m] \/ subscriber[p].status = "CONFIRMED"
    BY <1>0, <1>2 DEF SendCampaign, NewsletterTake, ReadSubscribers, Mail, MarkSent,
                      NewsletterFault, Confirmed
  <2>3. \A p \in People : p \notin toMail[n] => mails'[p] = mails[p]
    BY <1>0, <1>2 DEF SendCampaign, NewsletterTake, ReadSubscribers, Mail, MarkSent,
                      NewsletterFault
  <2> QED
    BY <2>1, <2>2, <2>3 DEF FollowedInv
<1>3. CASE UNCHANGED newsletter
  BY <1>3 DEF newsletter, FollowedInv
<1> QED
  BY <1>1, <1>2, <1>3 DEF NewsletterNext, NewsletterWork, NewsletterRest

\* The mails of a step: none, or one to somebody the execution had still to mail to.
LEMMA MailsOnlyGrow ==
  ASSUME NewsletterTypeInv, [NewsletterNext]_newsletter, NEW p \in People
  PROVE  mails[p] > 0 => mails'[p] > 0
<1> USE DEF people, work
<1>1. mails \in [People -> Nat] /\ toMail \in [NIds -> SUBSET People]
  BY NewsletterTyped
<1>2. CASE UNCHANGED mails
  BY <1>2
<1>3. ASSUME NEW n \in NIds, Mail(n) \/ NewsletterFault(n) PROVE mails[p] > 0 => mails'[p] > 0
  <2>1. mails' = mails \/ \E q \in toMail[n] : mails' = [mails EXCEPT ![q] = @ + 1]
    BY <1>3 DEF Mail, NewsletterFault
  <2> QED
    BY <1>1, <2>1
<1> QED
  BY <1>2, <1>3 DEF NewsletterNext, NewsletterWork, NewsletterRest, newsletter, Subscribe,
       ConfirmFind, ConfirmWrite, SendCampaign, NewsletterTake, ReadSubscribers, MarkSent

LEMMA MailedStep ==
  ASSUME NewsletterTypeInv, MailedInv, [NewsletterNext]_newsletter PROVE MailedInv'
<1>0. /\ mailing \in [NIds -> {"none", "waiting", "active", "done", "dead"}]
      /\ toMail \in [NIds -> SUBSET People] /\ mailed \in [NIds -> SUBSET People]
      /\ mails \in [People -> Nat] /\ promised \subseteq People
      /\ \A p \in People : mails[p] > 0 => mails'[p] > 0
  BY NewsletterTyped, MailsOnlyGrow
<1> USE DEF people, work, NAt, NLeave
<1>1. ASSUME NEW n \in NIds, Mail(n) PROVE MailedInv'
  <2>1. PICK p \in toMail[n] : /\ mails' = [mails EXCEPT ![p] = @ + 1]
                               /\ mailed' = [mailed EXCEPT ![n] = @ \union {p}]
    BY <1>1 DEF Mail
  <2>2. UNCHANGED <<mailing, campaign, promised>> /\ mails'[p] > 0
    BY <1>0, <1>1, <2>1 DEF Mail
  <2>3. \A m \in NIds : \A q \in mailed'[m] : q = p \/ q \in mailed[m]
    BY <1>0, <2>1
  <2>4. \A m \in NIds : \A q \in mailed'[m] : mails'[q] > 0
    BY <1>0, <2>2, <2>3 DEF MailedInv
  <2> QED
    BY <1>0, <2>2, <2>4 DEF MailedInv
<1>2. ASSUME NEW n \in NIds, MarkSent(n) PROVE MailedInv'
  <2>1. /\ campaign' = "SENT" /\ promised' = promised \union mailed[n]
        /\ \A m \in NIds : mailed'[m] \subseteq mailed[m]
    BY <1>0, <1>2 DEF MarkSent, AllMailed
  <2> QED
    BY <1>0, <2>1 DEF MailedInv
<1>3. ASSUME NEW n \in NIds, SendCampaign(n) \/ NewsletterTake(n) \/ ReadSubscribers(n)
                             \/ NewsletterFault(n)
      PROVE  MailedInv'
  <2>1. /\ UNCHANGED promised /\ campaign' \in {campaign, "SENT"}
        /\ \A m \in NIds : mailed'[m] \subseteq mailed[m]
        /\ \A m \in NIds : mailing'[m] = "done" => mailing[m] = "done"
    BY <1>0, <1>3 DEF SendCampaign, NewsletterTake, ReadSubscribers, NewsletterFault
  <2> QED
    BY <1>0, <2>1 DEF MailedInv
<1>4. CASE UNCHANGED work
  BY <1>4 DEF MailedInv
<1> QED
  BY <1>1, <1>2, <1>3, <1>4 DEF NewsletterNext, NewsletterWork, NewsletterRest, newsletter,
       Subscribe, ConfirmFind, ConfirmWrite

LEMMA TasksFinite ==
  \A S \in SUBSET NIds : IsFiniteSet(S) /\ Cardinality(S) \in Nat
<1>1. 1 \in Int /\ MaxSendings \in Int
  BY NewsletterAssumption
<1>2. IsFiniteSet(NIds)
  BY <1>1, FS_Interval DEF NIds
<1> QED
  BY <1>2, FS_Subset, FS_CardinalityType

LEMMA ChargedStep ==
  ASSUME NewsletterTypeInv, ChargedInv, [NewsletterNext]_newsletter PROVE ChargedInv'
<1>0. /\ mailing \in [NIds -> {"none", "waiting", "active", "done", "dead"}]
      /\ toMail \in [NIds -> SUBSET People] /\ mailed \in [NIds -> SUBSET People]
      /\ mails \in [People -> Nat] /\ outages \in Nat
  BY NewsletterTyped
<1> USE DEF people, work, NAt, NLeave
<1> SUFFICES ASSUME NEW p \in People
             PROVE  mails'[p] <= Cardinality(Charged(p)') + outages'
  BY DEF ChargedInv
<1>1. /\ mails[p] <= Cardinality(Charged(p)) + outages
      /\ IsFiniteSet(Charged(p)) /\ Cardinality(Charged(p)) \in Nat
      /\ IsFiniteSet(Charged(p)') /\ Cardinality(Charged(p)') \in Nat
  BY TasksFinite DEF ChargedInv, Charged
<1>2. ASSUME NEW n \in NIds, Mail(n) PROVE mails'[p] <= Cardinality(Charged(p)') + outages'
  <2>1. PICK q \in toMail[n] : /\ mails' = [mails EXCEPT ![q] = @ + 1]
                               /\ mailed' = [mailed EXCEPT ![n] = @ \union {q}]
    BY <1>2 DEF Mail
  <2>2. UNCHANGED <<mailing, outages>> /\ mailing[n] = "active" /\ q \notin mailed[n]
        /\ q \in People
    BY <1>0, <1>2, <2>1 DEF Mail, NewsletterTypeInv, ExecutionHolds
  <2>3. CASE p = q
    <3>1. Charged(p)' = Charged(p) \union {n} /\ n \notin Charged(p)
      BY <1>0, <2>1, <2>2, <2>3 DEF Charged
    <3>2. Cardinality(Charged(p)') = Cardinality(Charged(p)) + 1
      BY <1>1, <3>1, FS_AddElement
    <3> QED
      BY <1>0, <1>1, <2>1, <2>2, <2>3, <3>2
  <2>4. CASE p # q
    <3>1. Charged(p)' = Charged(p) /\ mails'[p] = mails[p]
      BY <1>0, <2>1, <2>2, <2>4 DEF Charged
    <3> QED
      BY <1>1, <2>2, <3>1
  <2> QED
    BY <2>3, <2>4
<1>3. ASSUME NEW n \in NIds, NewsletterFault(n)
      PROVE  mails'[p] <= Cardinality(Charged(p)') + outages'
  <2>1. /\ outages' = outages + 1 /\ mailing[n] = "active"
        /\ \A m \in NIds \ {n} : mailed'[m] = mailed[m] /\ mailing'[m] = mailing[m]
        /\ mailed'[n] = {} /\ mailing'[n] # "done"
    BY <1>0, <1>3 DEF NewsletterFault
  <2>2. Charged(p)' = Charged(p) \ {n}
    BY <1>0, <2>1 DEF Charged
  <2>3. Cardinality(Charged(p)') = IF n \in Charged(p) THEN Cardinality(Charged(p)) - 1
                                   ELSE Cardinality(Charged(p))
    BY <1>1, <2>2, FS_RemoveElement
  <2>4. CASE n \in Charged(p)
    <3>1. p \in mailed[n] /\ p \notin toMail[n]
      BY <2>1, <2>4 DEF Charged, NewsletterTypeInv, ExecutionHolds
    <3>2. mails'[p] = mails[p]
      BY <1>0, <1>3, <3>1 DEF NewsletterFault
    <3> QED
      BY <1>0, <1>1, <2>1, <2>3, <2>4, <3>2
  <2>5. CASE n \notin Charged(p)
    <3>1. mails'[p] \in Nat /\ mails'[p] <= mails[p] + 1
      BY <1>0, <1>3 DEF NewsletterFault
    <3> QED
      BY <1>0, <1>1, <2>1, <2>3, <2>5, <3>1
  <2> QED
    BY <2>4, <2>5
<1>4. ASSUME NEW n \in NIds, SendCampaign(n) \/ NewsletterTake(n) \/ ReadSubscribers(n)
                             \/ MarkSent(n)
      PROVE  mails'[p] <= Cardinality(Charged(p)') + outages'
  <2>1. UNCHANGED <<mails, outages>>
    BY <1>4 DEF SendCampaign, NewsletterTake, ReadSubscribers, MarkSent
  <2>2. Charged(p) \subseteq Charged(p)'
    BY <1>0, <1>4 DEF SendCampaign, NewsletterTake, ReadSubscribers, MarkSent, Charged
  <2>3. Cardinality(Charged(p)) <= Cardinality(Charged(p)')
    BY <1>1, <2>2, FS_Subset
  <2> QED
    BY <1>0, <1>1, <2>1, <2>3
<1>5. CASE UNCHANGED work
  BY <1>1, <1>5 DEF Charged
<1> QED
  BY <1>2, <1>3, <1>4, <1>5 DEF NewsletterNext, NewsletterWork, NewsletterRest, newsletter,
       Subscribe, ConfirmFind, ConfirmWrite

\* Everybody whom a task that ended well had read got a mail, nobody got one without
\* having followed a link, and nobody more than the campaign was sent and failed.
THEOREM CampaignReachesItsReaders == NewsletterSpec => []CampaignReaches
<1> DEFINE Reach == NewsletterTypeInv /\ FollowedInv /\ MailedInv /\ ChargedInv
<1>1. NewsletterInit => Reach
  <2> SUFFICES ASSUME NewsletterInit PROVE Reach
    OBVIOUS
  <2>1. FollowedInv /\ MailedInv
    BY DEF NewsletterInit, FollowedInv, MailedInv
  <2>2. \A p \in People : mails[p] = 0 /\ Cardinality(Charged(p)) \in Nat /\ outages = 0
    BY TasksFinite DEF NewsletterInit, Charged
  <2>3. ChargedInv
    BY <2>2 DEF ChargedInv
  <2> QED
    BY <2>1, <2>3, NewsletterTypeInit
<1>2. Reach /\ [NewsletterNext]_newsletter => Reach'
  BY NewsletterTypeStep, FollowedStep, MailedStep, ChargedStep
<1>3. Reach => CampaignReaches
  <2> SUFFICES ASSUME Reach PROVE CampaignReaches
    OBVIOUS
  <2>0. mails \in [People -> Nat] /\ outages \in Nat
        /\ mailing \in [NIds -> {"none", "waiting", "active", "done", "dead"}]
    BY NewsletterTyped
  <2>1. ASSUME NEW p \in People PROVE mails[p] <= Cardinality(Sendings) + outages
    <3>1. Charged(p) \subseteq Sendings
      BY <2>0 DEF Charged, Sendings, NewsletterTypeInv, ExecutionHolds
    <3>2. /\ Cardinality(Charged(p)) \in Nat /\ Cardinality(Sendings) \in Nat
          /\ IsFiniteSet(Sendings)
      BY TasksFinite DEF Charged, Sendings
    <3>3. Cardinality(Charged(p)) <= Cardinality(Sendings)
      BY <3>1, <3>2, FS_Subset
    <3> QED
      BY <2>0, <3>2, <3>3 DEF ChargedInv
  <2>2. \A p \in People : mails[p] > 0 => tokens[p] # {}
    BY DEF FollowedInv
  <2> QED
    BY <2>1, <2>2 DEF CampaignReaches, MailedInv
<1> QED
  BY <1>1, <1>2, <1>3, PTL DEF NewsletterSpec
=============================================================================
