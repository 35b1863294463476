------------------------------- MODULE Monitors -------------------------------
(***************************************************************************)
(* One website monitor or one price monitor of a published tool:           *)
(* packages/automation/src/website-monitor.ts and price-monitor.ts.        *)
(*                                                                         *)
(* A check is a queue task; the daily poll and the API enqueue checks, and *)
(* several checks of one monitor may overlap.  A check reads the monitor,  *)
(* fetches the page, and compares the two.  A change is recorded as an     *)
(* event before the monitor is moved to the new content; the website       *)
(* monitor then starts a crawl and the AI pipeline.  A failed check is     *)
(* executed again from its start.                                          *)
(*                                                                         *)
(* Content (a hash) is the version of the page, 0 for none yet.  The       *)
(* monitor stays ACTIVE.  That there is a crawl source is a choice.  The   *)
(* price that the price monitor also writes to the tool is left out.       *)
(***************************************************************************)
EXTENDS Integers, FiniteSets, Sequences

CONSTANTS
  MaxChecks,       \* bound: checks enqueued
  MaxPages,        \* bound: versions of the page
  MaxCheckTries,   \* executions of a check before BullMQ gives it up
  MaxBreaks        \* bound: rejected awaits and crashes

ASSUME MonitorAssumption ==
  /\ MaxChecks \in Nat /\ MaxPages \in Nat \ {0}
  /\ MaxCheckTries \in Nat \ {0} /\ MaxBreaks \in Nat

VARIABLES
  kind,            \* "website" or "price"
  page,            \* the version of the page
  seen,            \* contentHash or lastSnapshot of the monitor
  changes,         \* the events of the monitor
  pipelines,       \* versions whose change started the AI pipeline
  recrawls,        \* crawl jobs created for changes, and how many were enqueued
  checks,          \* of each check: its task in the queue
  kpc,             \* of each check: the await executed next
  kSeen,           \* of each check: the content the monitor had
  kPage,           \* of each check: the content it fetched
  kFails,          \* of each check: failed executions
  breaks,          \* rejected awaits and crashes
  \* History:
  crossing,        \* two checks overlapped
  moved            \* versions a change moved the monitor to

local      == <<kpc, kSeen, kPage>>
monitors   == <<kind, page, seen, changes, pipelines, recrawls, checks,
                local, kFails, breaks, crossing, moved>>

KIds == 1..MaxChecks
Change == [before : Nat, after : Nat]
KPcs == {"idle", "read", "fetch", "event", "move", "recrawl", "enqueue",
         "pipeline", "touch"}

MonitorsInit ==
  /\ kind \in {"website", "price"}
  /\ page = 1 /\ seen = 0
  /\ changes = << >>
  /\ pipelines = {} /\ recrawls = [created |-> 0, enqueued |-> 0]
  /\ checks = [k \in KIds |-> "none"]
  /\ kpc = [k \in KIds |-> "idle"]
  /\ kSeen = [k \in KIds |-> 0]
  /\ kPage = [k \in KIds |-> 0]
  /\ kFails = [k \in KIds |-> 0]
  /\ breaks = 0
  /\ crossing = FALSE
  /\ moved = {}

KRunning == {k \in KIds : checks[k] = "active"}

-----------------------------------------------------------------------------
PageChanges ==
  /\ page < MaxPages
  /\ page' = page + 1
  /\ UNCHANGED <<kind, seen, changes, pipelines, recrawls, checks,
                 local, kFails, breaks, crossing, moved>>

\* A poll or a request of the API enqueues the next check.
EnqueueCheck(k) ==
  /\ checks[k] = "none"
  /\ \A j \in KIds : j < k => checks[j] # "none"
  /\ checks' = [checks EXCEPT ![k] = "waiting"]
  /\ UNCHANGED <<kind, page, seen, changes, pipelines, recrawls, local,
                 kFails, breaks, crossing, moved>>

-----------------------------------------------------------------------------
(* checkWebsiteMonitor and checkPriceMonitor *)

KAt(k, p) == checks[k] = "active" /\ kpc[k] = p
KGoto(k, p) == kpc' = [kpc EXCEPT ![k] = p]

KLeave(k, s) ==
  /\ checks' = [checks EXCEPT ![k] = s]
  /\ KGoto(k, "idle")
  /\ kSeen' = [kSeen EXCEPT ![k] = 0]
  /\ kPage' = [kPage EXCEPT ![k] = 0]

TakeCheck(k) ==
  /\ checks[k] = "waiting"
  /\ crossing' = (crossing \/ KRunning # {})
  /\ checks' = [checks EXCEPT ![k] = "active"]
  /\ KGoto(k, "read")
  /\ UNCHANGED <<kind, page, seen, changes, pipelines, recrawls, kSeen,
                 kPage, kFails, breaks, moved>>

ReadMonitor(k) ==
  /\ KAt(k, "read")
  /\ kSeen' = [kSeen EXCEPT ![k] = seen]
  /\ KGoto(k, "fetch")
  /\ UNCHANGED <<kind, page, seen, changes, pipelines, recrawls, checks,
                 kPage, kFails, breaks, crossing, moved>>

\* A monitor without content takes what it finds without an event.
Fetch(k) ==
  /\ KAt(k, "fetch")
  /\ kPage' = [kPage EXCEPT ![k] = page]
  /\ KGoto(k, IF kSeen[k] \notin {0, page} THEN "event"
              ELSE IF kind = "website" THEN "touch" ELSE "move")
  /\ UNCHANGED <<kind, page, seen, changes, pipelines, recrawls, checks,
                 kSeen, kFails, breaks, crossing, moved>>

\* (Mutant: no event.)
Unrecorded(k) == changes
WithEvent(k) == Append(changes, [before |-> kSeen[k], after |-> kPage[k]])

RecordChange(k) ==
  /\ KAt(k, "event")
  /\ changes' = WithEvent(k)
  /\ KGoto(k, "move")
  /\ UNCHANGED <<kind, page, seen, pipelines, recrawls, checks, kSeen,
                 kPage, kFails, breaks, crossing, moved>>

\* The price monitor moves to what it fetched, changed or not, and is done.
MovePrice(k) ==
  /\ kind = "price" /\ KAt(k, "move")
  /\ seen' = kPage[k]
  /\ moved' = IF kSeen[k] \in {0, kPage[k]} THEN moved ELSE moved \union {kPage[k]}
  /\ KLeave(k, "done")
  /\ UNCHANGED <<kind, page, changes, pipelines, recrawls, kFails, breaks,
                 crossing>>

MoveWebsite(k) ==
  /\ kind = "website" /\ KAt(k, "move")
  /\ seen' = kPage[k]
  /\ moved' = moved \union {kPage[k]}
  /\ KGoto(k, "recrawl")
  /\ UNCHANGED <<kind, page, changes, pipelines, recrawls, checks, kSeen,
                 kPage, kFails, breaks, crossing>>

\* If there is a crawl source, a job is created for it and enqueued.
Recrawl(k) ==
  /\ KAt(k, "recrawl")
  /\ \/ /\ recrawls' = [recrawls EXCEPT !.created = @ + 1]
        /\ KGoto(k, "enqueue")
     \/ UNCHANGED recrawls /\ KGoto(k, "pipeline")
  /\ UNCHANGED <<kind, page, seen, changes, pipelines, checks, kSeen, kPage,
                 kFails, breaks, crossing, moved>>

EnqueueRecrawl(k) ==
  /\ KAt(k, "enqueue")
  /\ recrawls' = [recrawls EXCEPT !.enqueued = @ + 1]
  /\ KGoto(k, "pipeline")
  /\ UNCHANGED <<kind, page, seen, changes, pipelines, checks, kSeen, kPage,
                 kFails, breaks, crossing, moved>>

\* (Mutant: the pipeline is not started.)
NotStarted(k) == pipelines
Started(k) == pipelines \union {kPage[k]}

StartPipeline(k) ==
  /\ KAt(k, "pipeline")
  /\ pipelines' = Started(k)
  /\ KLeave(k, "done")
  /\ UNCHANGED <<kind, page, seen, changes, recrawls, kFails, breaks,
                 crossing, moved>>

\* No change: the content is written again, as it was read.
Touch(k) ==
  /\ KAt(k, "touch")
  /\ seen' = IF kSeen[k] = 0 THEN kPage[k] ELSE kSeen[k]
  /\ KLeave(k, "done")
  /\ UNCHANGED <<kind, page, changes, pipelines, recrawls, kFails, breaks,
                 crossing, moved>>

\* An await rejects or the worker dies.
CheckFault(k) ==
  /\ checks[k] = "active"
  /\ breaks < MaxBreaks
  /\ breaks' = breaks + 1
  /\ kFails' = [kFails EXCEPT ![k] = @ + 1]
  /\ KLeave(k, IF kFails'[k] < MaxCheckTries THEN "waiting" ELSE "dead")
  /\ UNCHANGED <<kind, page, seen, changes, pipelines, recrawls, crossing,
                 moved>>

-----------------------------------------------------------------------------
MonitorsRest ==
  /\ \A k \in KIds : checks[k] \in {"done", "dead"}
  /\ UNCHANGED monitors

CheckWork(k) ==
  \/ TakeCheck(k) \/ ReadMonitor(k) \/ Fetch(k) \/ RecordChange(k)
  \/ MovePrice(k) \/ MoveWebsite(k) \/ Recrawl(k) \/ EnqueueRecrawl(k)
  \/ StartPipeline(k) \/ Touch(k)

MonitorsNext ==
  \/ PageChanges
  \/ \E k \in KIds : EnqueueCheck(k) \/ CheckWork(k) \/ CheckFault(k)
  \/ MonitorsRest

MonitorsSpec == MonitorsInit /\ [][MonitorsNext]_monitors

-----------------------------------------------------------------------------
(* Properties *)

MonitorsTypeOK ==
  /\ kind \in {"website", "price"}
  /\ page \in 1..MaxPages /\ seen \in 0..MaxPages
  /\ changes \in Seq(Change)
  /\ pipelines \subseteq 1..MaxPages /\ moved \subseteq 1..MaxPages
  /\ recrawls \in [created : Nat, enqueued : Nat]
  /\ checks \in [KIds -> {"none", "waiting", "active", "done", "dead"}]
  /\ kpc \in [KIds -> KPcs]
  /\ kSeen \in [KIds -> 0..MaxPages] /\ kPage \in [KIds -> 0..MaxPages]
  /\ kFails \in [KIds -> 0..MaxCheckTries]
  /\ breaks \in 0..MaxBreaks
  /\ crossing \in BOOLEAN

\* Without overlapping checks the events of a monitor are a history of the page:
\* each starts where the one before ended, or repeats it because its check failed
\* and was executed again; and the monitor has the content of the last event,
\* unless the check that recorded it has not ended well.
ChangesChain ==
  ~crossing =>
    /\ \A i \in 2..Len(changes) :
         \/ changes[i].before = changes[i - 1].after
         \/ changes[i].before = changes[i - 1].before /\ breaks > 0
    /\ \A v \in moved : \E i \in DOMAIN changes : changes[i].after = v

\* A new version of the page that a website monitor has moved to starts the AI
\* pipeline: a check that fails after it moved is executed again, finds no
\* change, and never starts it, so each failure loses one version at most; nor
\* is a crawl job left without its task but by a failure.
LostOnlyByBreaks ==
  kind = "website" =>
    /\ Cardinality(moved \ pipelines)
         <= breaks + Cardinality({k \in KIds :
                                    kpc[k] \in {"recrawl", "enqueue", "pipeline"}})
    /\ recrawls.created - recrawls.enqueued
         <= breaks + Cardinality({k \in KIds : kpc[k] = "enqueue"})
=============================================================================
