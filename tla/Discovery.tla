------------------------------ MODULE Discovery ------------------------------
(***************************************************************************)
(* The discovery of new tools in one source: packages/discovery, polled by *)
(* packages/automation/src/scheduler.ts and by the API, executed by the    *)
(* automation worker.                                                      *)
(*                                                                         *)
(* A poll creates a task for every due source and does not touch its       *)
(* nextRunAt: only a task that ends well does.  So further polls create    *)
(* further tasks, which run at the same time (concurrency 2).  A task asks *)
(* which of the URLs it found are known, once, and then records them one   *)
(* after the other as NEW or DUPLICATE; a task that throws is executed     *)
(* again from its start.                                                   *)
(*                                                                         *)
(* Two things make a known URL NEW again without any concurrency: most     *)
(* adapters may list a URL twice in one search, and the query for known    *)
(* URLs returns some 500 of the rows that match, in no order, one for each *)
(* time a URL was found.                                                   *)
(*                                                                         *)
(* Left out are URLs longer than 2048 characters, which are stored cut     *)
(* off, the number of items found and the automation_runs rows.            *)
(***************************************************************************)
EXTENDS Naturals, FiniteSetsExt, Sequences

CONSTANTS
  Urls,            \* URLs of candidates
  TakeLimit,       \* take of the query for known URLs; the code has 500
  MaxFound,        \* bound: candidates of a search
  Pollers,         \* processes that poll: the scheduler and the API
  MaxTasks,        \* bound: discovery tasks
  MaxSearches,     \* executions of a task before BullMQ gives it up
  MaxUpsets        \* bound: rejected awaits and crashes

ASSUME DiscoveryAssumption ==
  /\ IsFiniteSet(Urls)
  /\ TakeLimit \in Nat \ {0} /\ MaxFound \in Nat \ {0}
  /\ MaxTasks \in Nat /\ MaxSearches \in Nat \ {0} /\ MaxUpsets \in Nat

VARIABLES
  searchDue,       \* nextRunAt of the source is null or past
  tasks,           \* the discovery_tasks rows
  results,         \* of each URL: its NEW and its DUPLICATE results
  pollpc,          \* of each poller: the await executed next
  pollTask,        \* of each poller: the task it has created, 0 for none
  dTask,           \* of each task: its task in the queue
  dpc,             \* of each task: the await its worker executes next
  candidates,      \* of each task: how often its last execution found each URL
  existingUrls,    \* of each task: the URLs that the query returned as known
  inserted,        \* of each task: how often it has recorded each URL
  dFails,          \* of each task: failed executions
  upsets,          \* rejected awaits and crashes
  \* History:
  sideBySide,      \* a task asked for known URLs while another was recording
  repeated,        \* URLs that a search listed more than once
  missed           \* known URLs that the query did not return

poll      == <<pollpc, pollTask>>
execution == <<dpc, candidates, existingUrls, inserted>>
missteps  == <<sideBySide, repeated, missed>>
discovery == <<searchDue, tasks, results, poll, dTask, execution, dFails, upsets,
               missteps>>

DIds == 1..MaxTasks
Nowhere == [u \in Urls |-> 0]
Task == [status : {"PENDING", "RUNNING", "COMPLETED", "FAILED"}]

DiscoveryInit ==
  /\ searchDue = TRUE
  /\ tasks = << >>
  /\ results = [u \in Urls |-> [NEW |-> 0, DUPLICATE |-> 0]]
  /\ pollpc = [p \in Pollers |-> "idle"]
  /\ pollTask = [p \in Pollers |-> 0]
  /\ dTask = [t \in DIds |-> "none"]
  /\ dpc = [t \in DIds |-> "idle"]
  /\ candidates = [t \in DIds |-> Nowhere]
  /\ existingUrls = [t \in DIds |-> {}]
  /\ inserted = [t \in DIds |-> Nowhere]
  /\ dFails = [t \in DIds |-> 0]
  /\ upsets = 0
  /\ sideBySide = FALSE /\ repeated = {} /\ missed = {}

Upset == upsets < MaxUpsets /\ upsets' = upsets + 1

-----------------------------------------------------------------------------
(* pollDueDiscoverySources and the enqueue of its caller *)

PollFind(p) ==
  /\ pollpc[p] = "idle" /\ Len(tasks) < MaxTasks
  /\ searchDue
  /\ pollpc' = [pollpc EXCEPT ![p] = "create"]
  /\ UNCHANGED <<searchDue, tasks, results, pollTask, dTask, execution, dFails, upsets,
                 missteps>>

PollCreate(p) ==
  /\ pollpc[p] = "create" /\ Len(tasks) < MaxTasks
  /\ tasks' = Append(tasks, [status |-> "PENDING"])
  /\ pollTask' = [pollTask EXCEPT ![p] = Len(tasks')]
  /\ pollpc' = [pollpc EXCEPT ![p] = "enqueue"]
  /\ UNCHANGED <<searchDue, results, dTask, execution, dFails, upsets, missteps>>

PollLeave(p) ==
  /\ pollpc' = [pollpc EXCEPT ![p] = "idle"]
  /\ pollTask' = [pollTask EXCEPT ![p] = 0]

PollEnqueue(p) ==
  /\ pollpc[p] = "enqueue"
  /\ dTask' = [dTask EXCEPT ![pollTask[p]] = "waiting"]
  /\ PollLeave(p)
  /\ UNCHANGED <<searchDue, tasks, results, execution, dFails, upsets, missteps>>

\* A poll dies or is rejected between the two: the task stays PENDING.
PollFault(p) ==
  /\ Upset
  /\ pollpc[p] # "idle"
  /\ PollLeave(p)
  /\ UNCHANGED <<searchDue, tasks, results, dTask, execution, dFails, missteps>>

\* intervalHours pass.
SearchComesDue ==
  /\ ~searchDue
  /\ Len(tasks) < MaxTasks
  /\ searchDue' = TRUE
  /\ UNCHANGED <<tasks, results, poll, dTask, execution, dFails, upsets, missteps>>

-----------------------------------------------------------------------------
(* runDiscoveryTask *)

DAt(t, p) == dTask[t] = "active" /\ dpc[t] = p
DGoto(t, p) == dpc' = [dpc EXCEPT ![t] = p]

\* An execution ends.  (Its candidates stay to be compared with the results.)
DLeave(t) ==
  /\ DGoto(t, "idle")
  /\ existingUrls' = [existingUrls EXCEPT ![t] = {}]
  /\ inserted' = [inserted EXCEPT ![t] = Nowhere]

\* findUnique finds the task and its source.
DTake(t) ==
  /\ dTask[t] = "waiting"
  /\ dTask' = [dTask EXCEPT ![t] = "active"]
  /\ dpc' = [dpc EXCEPT ![t] = "run"]
  /\ candidates' = [candidates EXCEPT ![t] = Nowhere]
  /\ UNCHANGED <<searchDue, tasks, results, poll, existingUrls, inserted, dFails, upsets,
                 missteps>>

DRun(t) ==
  /\ DAt(t, "run")
  /\ tasks' = [tasks EXCEPT ![t].status = "RUNNING"]
  /\ DGoto(t, "discover")
  /\ UNCHANGED <<searchDue, results, poll, dTask, candidates, existingUrls, inserted,
                 dFails, upsets, missteps>>

\* The adapter's list, as a bag; not every adapter removes the URLs that repeat.
CandidateBags ==
  {found \in [Urls -> 0..MaxFound] :
     MapThenSumSet(LAMBDA u : found[u], Urls) <= MaxFound}

Discover(t) ==
  /\ DAt(t, "discover")
  /\ \E found \in CandidateBags :
       /\ candidates' = [candidates EXCEPT ![t] = found]
       /\ repeated' = repeated \union {u \in Urls : found[u] > 1}
  /\ DGoto(t, "known")
  /\ UNCHANGED <<searchDue, tasks, results, poll, dTask, existingUrls, inserted, dFails,
                 upsets, sideBySide, missed>>

\* A result makes a URL known, also one of this task.  (Mutant: DUPLICATEs only.)
RowsOf(u) == results[u].NEW + results[u].DUPLICATE
KnownTwice(t) == {u \in Urls : candidates[t][u] > 0 /\ results[u].DUPLICATE > 0}
KnownUrls(t) == {u \in Urls : candidates[t][u] > 0 /\ RowsOf(u) > 0}

\* The URLs of the rows that the query returns: of all of them, or of any TakeLimit
\* of them if there are more.
RowsOfAll(S) == MapThenSumSet(RowsOf, S)
Returned(t) ==
  IF RowsOfAll(KnownUrls(t)) <= TakeLimit
  THEN {KnownUrls(t)}
  ELSE {K \in SUBSET KnownUrls(t) :
          Cardinality(K) <= TakeLimit /\ RowsOfAll(K) >= TakeLimit}

AskKnown(t) ==
  /\ DAt(t, "known")
  /\ \E K \in Returned(t) :
       /\ existingUrls' = [existingUrls EXCEPT ![t] = K]
       /\ missed' = missed \union (KnownUrls(t) \ K)
  /\ sideBySide' = (sideBySide \/ \E s \in DIds : DAt(s, "record"))
  /\ DGoto(t, "record")
  /\ UNCHANGED <<searchDue, tasks, results, poll, dTask, candidates, inserted, dFails,
                 upsets, repeated>>

StatusOf(t, u) == IF u \in existingUrls[t] THEN "DUPLICATE" ELSE "NEW"

Record(t) ==
  /\ DAt(t, "record")
  /\ \E u \in Urls :
       /\ inserted[t][u] < candidates[t][u]
       /\ results' = [results EXCEPT ![u][StatusOf(t, u)] = @ + 1]
       /\ inserted' = [inserted EXCEPT ![t][u] = @ + 1]
  /\ UNCHANGED <<searchDue, tasks, poll, dTask, dpc, candidates, existingUrls, dFails,
                 upsets, missteps>>

Complete(t) ==
  /\ DAt(t, "record")
  /\ inserted[t] = candidates[t]
  /\ tasks' = [tasks EXCEPT ![t].status = "COMPLETED"]
  /\ DGoto(t, "source")
  /\ UNCHANGED <<searchDue, results, poll, dTask, candidates, existingUrls, inserted,
                 dFails, upsets, missteps>>

MoveSource(t) ==
  /\ DAt(t, "source")
  /\ searchDue' = FALSE
  /\ dTask' = [dTask EXCEPT ![t] = "done"]
  /\ DLeave(t)
  /\ UNCHANGED <<tasks, results, poll, candidates, dFails, upsets, missteps>>

DThrow(t) ==
  /\ dFails' = [dFails EXCEPT ![t] = @ + 1]
  /\ dTask' = [dTask EXCEPT ![t] = IF dFails'[t] < MaxSearches THEN "waiting" ELSE "dead"]
  /\ DLeave(t)

\* The search or a write in the try block rejects.
DReject(t) ==
  /\ Upset
  /\ dTask[t] = "active" /\ dpc[t] \in {"discover", "known", "record", "source"}
  /\ DGoto(t, "catch")
  /\ UNCHANGED <<searchDue, tasks, results, poll, dTask, candidates, existingUrls,
                 inserted, dFails, missteps>>

DCatch(t) ==
  /\ DAt(t, "catch")
  /\ tasks' = [tasks EXCEPT ![t].status = "FAILED"]
  /\ DThrow(t)
  /\ UNCHANGED <<searchDue, results, poll, candidates, upsets, missteps>>

\* An await outside the try block rejects or the worker dies.
DFault(t) ==
  /\ Upset
  /\ dTask[t] = "active"
  /\ DThrow(t)
  /\ UNCHANGED <<searchDue, tasks, results, poll, candidates, missteps>>

-----------------------------------------------------------------------------
DiscoveryRest ==
  /\ \A t \in DIds : dTask[t] \notin {"waiting", "active"}
  /\ UNCHANGED discovery

DWork(t) ==
  \/ DTake(t) \/ DRun(t) \/ Discover(t) \/ AskKnown(t) \/ Record(t) \/ Complete(t)
  \/ MoveSource(t) \/ DCatch(t)

DiscoveryNext ==
  \/ \E p \in Pollers : PollFind(p) \/ PollCreate(p) \/ PollEnqueue(p) \/ PollFault(p)
  \/ SearchComesDue
  \/ \E t \in DIds : DWork(t) \/ DReject(t) \/ DFault(t)
  \/ DiscoveryRest

DiscoverySpec == DiscoveryInit /\ [][DiscoveryNext]_discovery

-----------------------------------------------------------------------------
(* Properties *)

DiscoveryTypeOK ==
  /\ searchDue \in BOOLEAN
  /\ tasks \in Seq(Task) /\ Len(tasks) <= MaxTasks
  /\ results \in [Urls -> [{"NEW", "DUPLICATE"} -> Nat]]
  /\ pollpc \in [Pollers -> {"idle", "create", "enqueue"}]
  /\ pollTask \in [Pollers -> 0..Len(tasks)]
  /\ dTask \in [DIds -> {"none", "waiting", "active", "done", "dead"}]
  /\ dpc \in [DIds -> {"idle", "run", "discover", "known", "record", "source", "catch"}]
  /\ candidates \in [DIds -> [Urls -> 0..MaxFound]]
  /\ existingUrls \in [DIds -> SUBSET Urls]
  /\ inserted \in [DIds -> [Urls -> 0..MaxFound]]
  /\ dFails \in [DIds -> 0..MaxSearches]
  /\ upsets \in 0..MaxUpsets
  /\ sideBySide \in BOOLEAN
  /\ repeated \subseteq Urls
  /\ missed \subseteq Urls

\* A URL is NEW once: not twice, however often a task is executed again after it
\* recorded some of its candidates, unless tasks record side by side, a search lists
\* this URL twice, or the query for known URLs leaves it out; and, if a COMPLETED
\* task found it, at least once, for this task, an execution of it that failed, or
\* another task.
NewOnce ==
  /\ ~sideBySide => \A u \in Urls \ (repeated \union missed) : results[u].NEW <= 1
  /\ \A t \in DOMAIN tasks : tasks[t].status = "COMPLETED" =>
       \A u \in Urls : candidates[t][u] > 0 => results[u].NEW > 0
=============================================================================
