----------------------------- MODULE GrowthLoop -----------------------------
(***************************************************************************)
(* What happens around one published tool: the growth jobs that            *)
(* packages/growth runs for it, the search index tasks they enqueue, an    *)
(* editor who updates the tool in apps/api, and the crawls of apps/worker  *)
(* that find the tool again.                                               *)
(*                                                                         *)
(* Three pieces of state are shared without a lock.                        *)
(*   metadata - every writer reads the whole object and writes it back     *)
(*              with its own keys added; the growth loop reads it first    *)
(*              and writes it last.  A crawl does not read it: it stores   *)
(*              an object of its own, and with that erases all keys.       *)
(*   links    - the rows of tool_categories: a new list of categories is   *)
(*              written by deleting all links and upserting them one by    *)
(*              one.  Tags are written the same way and left out.  A crawl *)
(*              relinks the tool and enqueues no search index task.        *)
(*   runs     - the workflow runs of module WorkflowRun.                   *)
(*                                                                         *)
(* Internal links, compare pages, SEO rows, the sitemap ping, plugins and  *)
(* the webhook events (module WebhookDelivery) are awaits that can fail    *)
(* and change nothing here.  A crash and a rejection both cost a try.      *)
(***************************************************************************)
EXTENDS WorkflowRun, FiniteSets, SequencesExt

CONSTANTS
  Categories,  \* rows of categories
  Default,     \* the category that ensureDefaultCategory finds
  CrawlLists,  \* what metadata.crawlCategories may be
  EditLists,   \* categoryIds an editor may send
  Editor,      \* the editor, as a writer of the metadata and of the links
  Crawls,      \* normalize tasks whose detail has the tool's website
  NoDocument,  \* the search index has no document of the tool
  MaxIndex,    \* bound: search index tasks
  MaxTries,    \* executions of a task before BullMQ gives it up
  MaxLoad      \* bound: jobs, edits, withdrawals, crawls and faults, in all

ASSUME GrowthAssumption ==
  /\ Default \in Categories
  /\ Editor \notin Callers \union 1..MaxIndex   \* writers of the metadata are distinct
  /\ Callers \intersect 1..MaxIndex = {}
  /\ Crawls \intersect (Callers \union {Editor}) = {}
  /\ CrawlLists \subseteq Seq(Categories)
  /\ EditLists \subseteq Seq(Categories) \ {<< >>}
  /\ MaxTries \in Nat \ {0} /\ MaxLoad \in Nat
  /\ MaxIndex \in Nat /\ MaxIndex >= MaxLoad   \* the bound never blocks a job

VARIABLES
  toolState,   \* PUBLISHED, ARCHIVED or DELETED
  metadata,    \* tools.metadata: the keys that are present, and crawlCategories
  links,       \* tool_categories: of each category absent, active or deleted
  primary,     \* categories whose link has isPrimary
  document,    \* the categories in the search document, or NoDocument
  jobState,    \* of each growth job: where it is in its queue
  jpc,         \* of each growth job: the await executed next
  snap,        \* of each growth job: the metadata read at its start
  geoSnap,     \* of each growth job: the metadata read by persistGeoDocument
  tries,       \* of each growth job: executions that failed
  crawlState,  \* of each crawl: where its task is in the normalize queue
  cpc,         \* of each crawl: the await executed next
  cList,       \* of each crawl: the categories of its detail
  cTries,      \* of each crawl: executions that failed
  todo,        \* of each job, crawl and the editor: categories still to link
  taskState,   \* of each index task: where it is in its queue
  ipc,         \* of each index task: the await executed next
  iSnap,       \* of each index task: the metadata it read last
  iCats,       \* of each index task: the categories it read
  iTries,      \* of each index task: executions that failed
  epc,         \* the editor's request: the await executed next
  eSnap,       \* the metadata the editor's request read
  load,        \* jobs, edits, withdrawals, crawls and faults still to come
  \* History:
  written,     \* keys that were written since the last crawl
  newest,      \* crawlCategories as the last crawl wrote it
  torn,        \* a write fell between another writer's read and write
  clashed,     \* two changes of the categories overlapped
  repeated,    \* a new list of categories names its first one twice
  unread,      \* the links are a crawl's, and no index task has read them
  crossed,     \* two index tasks overlapped
  abandoned,   \* an editor's request failed in the middle
  faulted      \* a task failed

Jobs == Callers
IndexTasks == 1..MaxIndex
Changers == Jobs \union {Editor} \union Crawls   \* of the categories
Keys == {"edit", "geo", "growth", "embedding", "popularity"}
Metadata == [keys : SUBSET Keys, crawled : Seq(Categories)]
Nothing == [keys |-> {}, crawled |-> << >>]

tool    == <<toolState, metadata, links, primary, document>>
jobs    == <<jobState, jpc, snap, geoSnap, tries>>
tasks   == <<taskState, ipc, iSnap, iCats, iTries>>
edit    == <<epc, eSnap>>
crawls  == <<crawlState, cpc, cList, cTries>>
history == <<written, newest, torn, clashed, repeated, unread, crossed, abandoned,
             faulted>>
vars    == <<tool, jobs, todo, tasks, edit, crawls, load, history, workflow>>

JobAt(j, p)  == jobState[j] = "active" /\ jpc[j] = p
JobGoto(j, p) == jpc' = [jpc EXCEPT ![j] = p]
TaskAt(t, p) == taskState[t] = "active" /\ ipc[t] = p

Linked == {c \in Categories : links[c] = "active"}

Spend == load > 0 /\ load' = load - 1

\* A tool with crawled categories was normalized once, so it has a run already;
\* another one may have got the default category by an earlier growth job.
GrowthInit ==
  /\ WorkflowInit
  /\ toolState = "PUBLISHED"
  /\ newest \in CrawlLists
  /\ metadata = [keys |-> {}, crawled |-> newest]
  /\ runs = << >> <=> newest = << >>
  /\ primary \in {{}, {Default}}
  /\ newest # << >> => primary = {}
  /\ links = [c \in Categories |-> IF c \in primary THEN "active" ELSE "absent"]
  /\ document = NoDocument
  /\ jobState = [j \in Jobs |-> "none"]
  /\ jpc = [j \in Jobs |-> "idle"]
  /\ snap = [j \in Jobs |-> Nothing]
  /\ geoSnap = [j \in Jobs |-> Nothing]
  /\ tries = [j \in Jobs |-> 0]
  /\ todo = [a \in Changers |-> << >>]
  /\ taskState = [t \in IndexTasks |-> "none"]
  /\ ipc = [t \in IndexTasks |-> "idle"]
  /\ iSnap = [t \in IndexTasks |-> Nothing]
  /\ iCats = [t \in IndexTasks |-> {}]
  /\ iTries = [t \in IndexTasks |-> 0]
  /\ epc = "idle"
  /\ eSnap = Nothing
  /\ crawlState = [n \in Crawls |-> "none"]
  /\ cpc = [n \in Crawls |-> "idle"]
  /\ cList = [n \in Crawls |-> << >>]
  /\ cTries = [n \in Crawls |-> 0]
  /\ load = MaxLoad
  /\ written = {} /\ unread = TRUE
  /\ torn = FALSE /\ clashed = FALSE /\ repeated = FALSE
  /\ crossed = FALSE /\ abandoned = FALSE /\ faulted = FALSE

-----------------------------------------------------------------------------
(* Shared by all writers *)

\* Writers between their read and their write of the metadata.
Holders ==
  {j \in Jobs : jobState[j] = "active" /\ jpc[j] # "read"}
    \union (IF epc = "write" THEN {Editor} ELSE {})
    \union {t \in IndexTasks : ipc[t] \in {"write", "popWrite"}}

\* What a writer that read s stores.  (Mutant: the old keys are not spread.)
MergedAlone(s, key) == [s EXCEPT !.keys = {key}]
Merged(s, key) == [s EXCEPT !.keys = @ \union {key}]

WriteMetadata(a, s, key) ==
  /\ metadata' = Merged(s, key)
  /\ written' = written \union {key}
  /\ torn' = (torn \/ Holders \ {a} # {})

\* Whoever is in the middle of a change of the categories.
Syncing(a) == todo[a] # << >> \/ (a \in Jobs /\ jpc[a] = "assign")
NoteClash(a) ==
  clashed' = (clashed \/ \E b \in Changers \ {a} : Syncing(b))

\* updateMany deletedAt: all links of the tool at once.  Nothing removes
\* duplicates from the list (two names may have one slug).
ClearLinks(a, list) ==
  /\ links' = [c \in Categories |->
                 IF links[c] = "active" THEN "deleted" ELSE links[c]]
  /\ todo' = [todo EXCEPT ![a] = list]
  /\ NoteClash(a)
  /\ unread' = (a \in Crawls)
  /\ repeated' = (repeated \/ Head(list) \in Range(Tail(list)))

\* upsert of the next link; the first of the list is the primary one.
\* (Mutant: an existing row keeps its isPrimary.)
FlagKept(c, isFirst) ==
  IF isFirst /\ links[c] = "absent" THEN primary \union {c} ELSE primary
Flag(c, isFirst) == IF isFirst THEN primary \union {c} ELSE primary \ {c}

UpsertLink(a, isFirst) ==
  LET c == Head(todo[a])
  IN /\ links' = [links EXCEPT ![c] = "active"]
     /\ primary' = Flag(c, isFirst)
     /\ todo' = [todo EXCEPT ![a] = Tail(@)]
     /\ unread' = (a \in Crawls)

\* enqueueSearchIndex: a task of its own each time, there is no jobId.
EnqueueIndex ==
  \E t \in IndexTasks :
    /\ taskState[t] = "none"
    /\ \A u \in IndexTasks : u < t => taskState[u] # "none"
    /\ taskState' = [taskState EXCEPT ![t] = "waiting"]

-----------------------------------------------------------------------------
(* A growth job *)

\* The tool is published: by PUBLISH, by an editor or by an import.  (Jobs that
\* are not enqueued yet are all alike: take any.)
EnqueueGrowth(j) ==
  /\ jobState[j] = "none"
  /\ j = CHOOSE i \in Jobs : jobState[i] = "none"
  /\ toolState = "PUBLISHED"
  /\ Spend
  /\ jobState' = [jobState EXCEPT ![j] = "waiting"]
  /\ UNCHANGED <<tool, jpc, snap, geoSnap, tries, todo, tasks, edit, crawls, history,
                 workflow>>

JobTake(j) ==
  /\ jobState[j] = "waiting"
  /\ jobState' = [jobState EXCEPT ![j] = "active"]
  /\ JobGoto(j, "read")
  /\ UNCHANGED <<tool, snap, geoSnap, tries, todo, tasks, edit, crawls, load, history,
                 workflow>>

\* The job's execution is over.
JobLeave(j, s) ==
  /\ jobState' = [jobState EXCEPT ![j] = s]
  /\ JobGoto(j, "idle")
  /\ snap' = [snap EXCEPT ![j] = Nothing]
  /\ geoSnap' = [geoSnap EXCEPT ![j] = Nothing]

JobToolGone(j) ==
  /\ JobAt(j, "read")
  /\ toolState = "DELETED"
  /\ JobLeave(j, "done")
  /\ UNCHANGED <<tool, tries, todo, tasks, edit, crawls, load, history, workflow>>

JobRead(j) ==
  /\ JobAt(j, "read")
  /\ toolState # "DELETED"
  /\ snap' = [snap EXCEPT ![j] = metadata]
  /\ JobGoto(j, IF metadata.crawled = << >> THEN "ensure" ELSE "clear")
  /\ UNCHANGED <<tool, jobState, geoSnap, tries, todo, tasks, edit, crawls, load,
                 history, workflow>>

\* syncToolTaxonomyFromNames, which also creates missing categories.
JobClear(j) ==
  /\ JobAt(j, "clear")
  /\ ClearLinks(j, snap[j].crawled)
  /\ JobGoto(j, "link")
  /\ UNCHANGED <<toolState, metadata, primary, document, jobState, snap, geoSnap,
                 tries, tasks, edit, crawls, load, written, newest, torn, crossed,
                 abandoned, faulted, workflow>>

JobLink(j) ==
  /\ JobAt(j, "link")
  /\ UpsertLink(j, todo[j] = snap[j].crawled)
  /\ JobGoto(j, IF Len(todo[j]) = 1 THEN "ensure" ELSE "link")
  /\ UNCHANGED <<toolState, metadata, document, jobState, snap, geoSnap, tries, tasks,
                 edit, crawls, load, written, newest, torn, clashed, repeated,
                 crossed, abandoned, faulted, workflow>>

\* ensureDefaultCategory counts the links, and then creates one: it is not an
\* upsert, so a row that is only marked deleted makes it reject.
JobEnsure(j) ==
  /\ JobAt(j, "ensure")
  /\ JobGoto(j, IF Linked = {} THEN "assign" ELSE "geoRead")
  /\ NoteClash(j)
  /\ UNCHANGED <<tool, jobState, snap, geoSnap, tries, todo, tasks, edit, crawls,
                 load, written, newest, torn, repeated, unread, crossed, abandoned,
                 faulted, workflow>>

JobAssign(j) ==
  /\ JobAt(j, "assign")
  /\ links[Default] = "absent"
  /\ links' = [links EXCEPT ![Default] = "active"]
  /\ primary' = primary \union {Default}
  /\ unread' = FALSE
  /\ JobGoto(j, "geoRead")
  /\ UNCHANGED <<toolState, metadata, document, jobState, snap, geoSnap, tries, todo,
                 tasks, edit, crawls, load, written, newest, torn, clashed, repeated,
                 crossed, abandoned, faulted, workflow>>

\* persistGeoDocumentForTool
JobGeoRead(j) ==
  /\ JobAt(j, "geoRead")
  /\ geoSnap' = [geoSnap EXCEPT ![j] = metadata]
  /\ JobGoto(j, IF toolState = "DELETED" THEN "index" ELSE "geoWrite")
  /\ UNCHANGED <<tool, jobState, snap, tries, todo, tasks, edit, crawls, load,
                 history, workflow>>

JobGeoWrite(j) ==
  /\ JobAt(j, "geoWrite")
  /\ WriteMetadata(j, geoSnap[j], "geo")
  /\ geoSnap' = [geoSnap EXCEPT ![j] = Nothing]
  /\ JobGoto(j, "index")
  /\ UNCHANGED <<toolState, links, primary, document, jobState, snap, tries, todo,
                 tasks, edit, crawls, load, newest, clashed, repeated, unread,
                 crossed, abandoned, faulted, workflow>>

\* The awaits from syncInternalLinks to the sitemap ping, and the enqueue of
\* the search index task.  (Mutant: the enqueue is left out.)
JobIndexForgotten(j) ==
  /\ JobAt(j, "index")
  /\ JobGoto(j, "emit")
  /\ UNCHANGED <<tool, jobState, snap, geoSnap, tries, todo, tasks, edit, crawls,
                 load, history, workflow>>

JobIndex(j) ==
  /\ JobAt(j, "index")
  /\ EnqueueIndex
  /\ JobGoto(j, "emit")
  /\ UNCHANGED <<tool, jobState, snap, geoSnap, tries, todo, ipc, iSnap, iCats,
                 iTries, edit, crawls, load, history, workflow>>

\* The TOOL_ADDED event and afterPublish, then completeToolPublishWorkflow.
JobComplete(j) ==
  /\ JobAt(j, "emit")
  /\ CallComplete(j)
  /\ JobGoto(j, "workflow")
  /\ UNCHANGED <<tool, jobState, snap, geoSnap, tries, todo, tasks, edit, crawls,
                 load, history>>

JobWorkflow(j) ==
  /\ JobAt(j, "workflow")
  /\ WorkflowStep(j)
  /\ UNCHANGED <<tool, jobs, todo, tasks, edit, crawls, load, history>>

\* The translations are enqueued in a try block of their own.
JobReturn(j) ==
  /\ JobAt(j, "workflow")
  /\ wpc[j] = "back"
  /\ Return(j)
  /\ JobGoto(j, "write")
  /\ UNCHANGED <<tool, jobState, snap, geoSnap, tries, todo, tasks, edit, crawls,
                 load, history>>

\* The last await: the metadata read first, with growthLoop added.
JobWrite(j) ==
  /\ JobAt(j, "write")
  /\ WriteMetadata(j, snap[j], "growth")
  /\ JobLeave(j, "done")
  /\ UNCHANGED <<toolState, links, primary, document, tries, todo, tasks, edit,
                 crawls, load, newest, clashed, repeated, unread, crossed, abandoned,
                 faulted, workflow>>

\* BullMQ hands the task out again, or gives it up.
AfterFailure(n) == IF n + 1 < MaxTries THEN "waiting" ELSE "dead"

JobFails(j) ==
  /\ JobLeave(j, AfterFailure(tries[j]))
  /\ tries' = [tries EXCEPT ![j] = @ + 1]
  /\ todo' = [todo EXCEPT ![j] = << >>]
  /\ Return(j)
  /\ faulted' = TRUE
  /\ UNCHANGED <<tool, tasks, edit, crawls, written, newest, torn, clashed, repeated,
                 unread, crossed, abandoned>>

\* toolCategory.create rejects: unique (toolId, categoryId).
JobAssignConflict(j) ==
  /\ JobAt(j, "assign")
  /\ links[Default] # "absent"
  /\ JobFails(j)
  /\ UNCHANGED load

\* An await rejects, or the worker dies.
JobFault(j) ==
  /\ jobState[j] = "active"
  /\ Spend
  /\ JobFails(j)

-----------------------------------------------------------------------------
(* A search index task: indexTool, then snapshotToolPopularity *)

TaskTake(t) ==
  /\ taskState[t] = "waiting"
  /\ taskState' = [taskState EXCEPT ![t] = "active"]
  /\ ipc' = [ipc EXCEPT ![t] = "read"]
  /\ UNCHANGED <<tool, jobs, todo, iSnap, iCats, iTries, edit, crawls, load, history,
                 workflow>>

Indexing(t) == ipc[t] \in {"write", "upsert"}

TaskRead(t) ==
  /\ TaskAt(t, "read")
  /\ toolState = "PUBLISHED"
  /\ iSnap' = [iSnap EXCEPT ![t] = metadata]
  /\ iCats' = [iCats EXCEPT ![t] = Linked]
  /\ unread' = FALSE
  /\ ipc' = [ipc EXCEPT ![t] = "write"]
  /\ crossed' = (crossed \/ \E u \in IndexTasks : Indexing(u))
  /\ UNCHANGED <<tool, jobs, todo, taskState, iTries, edit, crawls, load, written,
                 newest, torn, clashed, repeated, abandoned, faulted, workflow>>

\* A tool that is not published is removed from the index.
TaskRemove(t) ==
  /\ TaskAt(t, "read")
  /\ toolState # "PUBLISHED"
  /\ document' = NoDocument
  /\ ipc' = [ipc EXCEPT ![t] = "popRead"]
  /\ crossed' = (crossed \/ \E u \in IndexTasks : Indexing(u))
  /\ UNCHANGED <<toolState, metadata, links, primary, jobs, todo, taskState, iSnap,
                 iCats, iTries, edit, crawls, load, written, newest, torn, clashed,
                 repeated, unread, abandoned, faulted, workflow>>

TaskWrite(t) ==
  /\ TaskAt(t, "write")
  /\ WriteMetadata(t, iSnap[t], "embedding")
  /\ iSnap' = [iSnap EXCEPT ![t] = Nothing]
  /\ ipc' = [ipc EXCEPT ![t] = "upsert"]
  /\ UNCHANGED <<toolState, links, primary, document, jobs, todo, taskState, iCats,
                 iTries, edit, crawls, load, newest, clashed, repeated, unread,
                 crossed, abandoned, faulted, workflow>>

TaskUpsert(t) ==
  /\ TaskAt(t, "upsert")
  /\ document' = iCats[t]
  /\ iCats' = [iCats EXCEPT ![t] = {}]
  /\ ipc' = [ipc EXCEPT ![t] = "popRead"]
  /\ UNCHANGED <<toolState, metadata, links, primary, jobs, todo, taskState, iSnap,
                 iTries, edit, crawls, load, history, workflow>>

TaskLeave(t, s) ==
  /\ taskState' = [taskState EXCEPT ![t] = s]
  /\ ipc' = [ipc EXCEPT ![t] = "idle"]
  /\ iSnap' = [iSnap EXCEPT ![t] = Nothing]
  /\ iCats' = [iCats EXCEPT ![t] = {}]

TaskPopRead(t) ==
  /\ TaskAt(t, "popRead")
  /\ toolState # "DELETED"
  /\ iSnap' = [iSnap EXCEPT ![t] = metadata]
  /\ ipc' = [ipc EXCEPT ![t] = "popWrite"]
  /\ UNCHANGED <<tool, jobs, todo, taskState, iCats, iTries, edit, crawls, load,
                 history, workflow>>

TaskPopGone(t) ==
  /\ TaskAt(t, "popRead")
  /\ toolState = "DELETED"
  /\ TaskLeave(t, "done")
  /\ UNCHANGED <<tool, jobs, todo, iTries, edit, crawls, load, history, workflow>>

TaskPopWrite(t) ==
  /\ TaskAt(t, "popWrite")
  /\ WriteMetadata(t, iSnap[t], "popularity")
  /\ TaskLeave(t, "done")
  /\ UNCHANGED <<toolState, links, primary, document, jobs, todo, iTries, edit,
                 crawls, load, newest, clashed, repeated, unread, crossed, abandoned,
                 faulted, workflow>>

TaskFault(t) ==
  /\ taskState[t] = "active"
  /\ Spend
  /\ TaskLeave(t, AfterFailure(iTries[t]))
  /\ iTries' = [iTries EXCEPT ![t] = @ + 1]
  /\ faulted' = TRUE
  /\ UNCHANGED <<tool, jobs, todo, edit, crawls, written, newest, torn, clashed,
                 repeated, unread, crossed, abandoned, workflow>>

-----------------------------------------------------------------------------
(* ToolsService.update of a published tool, with metadata and categoryIds *)

\* findById
EditStart ==
  /\ epc = "idle"
  /\ toolState = "PUBLISHED"
  /\ Spend
  /\ eSnap' = metadata
  /\ epc' = "write"
  /\ UNCHANGED <<tool, jobs, todo, tasks, crawls, history, workflow>>

EditWrite ==
  /\ epc = "write"
  /\ WriteMetadata(Editor, eSnap, "edit")
  /\ eSnap' = Nothing
  /\ epc' = "clear"
  /\ UNCHANGED <<toolState, links, primary, document, jobs, todo, tasks, crawls, load,
                 newest, clashed, repeated, unread, crossed, abandoned, faulted,
                 workflow>>

\* syncCategories
EditClear ==
  /\ epc = "clear"
  /\ \E list \in EditLists :
       /\ ClearLinks(Editor, list)
       /\ epc' = "first"
  /\ UNCHANGED <<toolState, metadata, primary, document, jobs, tasks, eSnap, crawls,
                 load, written, newest, torn, crossed, abandoned, faulted, workflow>>

\* The first turn of the loop links the primary category.
EditLink ==
  /\ epc \in {"first", "rest"}
  /\ todo[Editor] # << >>
  /\ UpsertLink(Editor, epc = "first")
  /\ epc' = "rest"
  /\ UNCHANGED <<toolState, metadata, document, jobs, tasks, eSnap, crawls, load,
                 written, newest, torn, clashed, repeated, crossed, abandoned,
                 faulted, workflow>>

\* The tool was published already: enqueueSearchIndex, and TOOL_UPDATED.
EditIndex ==
  /\ epc = "rest"
  /\ todo[Editor] = << >>
  /\ EnqueueIndex
  /\ epc' = "idle"
  /\ UNCHANGED <<tool, jobs, todo, ipc, iSnap, iCats, iTries, eSnap, crawls, load,
                 history, workflow>>

\* The request rejects or the process dies; nobody retries it.
EditFault ==
  /\ epc # "idle"
  /\ Spend
  /\ epc' = "idle"
  /\ eSnap' = Nothing
  /\ todo' = [todo EXCEPT ![Editor] = << >>]
  /\ abandoned' = TRUE
  /\ UNCHANGED <<tool, jobs, tasks, crawls, written, newest, torn, clashed, repeated,
                 unread, crossed, faulted, workflow>>

\* archiveTool and remove: one update, and no search index task.
Withdraw ==
  /\ Spend
  /\ toolState' \in {"DELETED"} \union
                      (IF toolState = "PUBLISHED" THEN {"ARCHIVED"} ELSE {})
  /\ toolState' # toolState
  /\ UNCHANGED <<metadata, links, primary, document, jobs, todo, tasks, edit, crawls,
                 history, workflow>>

-----------------------------------------------------------------------------
(* A crawl: the normalize task that finds the tool again                     *)

CrawlAt(n, p) == crawlState[n] = "active" /\ cpc[n] = p
CrawlGoto(n, p) == cpc' = [cpc EXCEPT ![n] = p]

\* (Crawls that are not enqueued yet are all alike: take any.)
EnqueueCrawl(n) ==
  /\ crawlState[n] = "none"
  /\ n = CHOOSE m \in Crawls : crawlState[m] = "none"
  /\ Spend
  /\ \E list \in CrawlLists : cList' = [cList EXCEPT ![n] = list]
  /\ crawlState' = [crawlState EXCEPT ![n] = "waiting"]
  /\ UNCHANGED <<tool, jobs, todo, tasks, edit, cpc, cTries, history, workflow>>

CrawlLeave(n, s) ==
  /\ crawlState' = [crawlState EXCEPT ![n] = s]
  /\ CrawlGoto(n, "idle")

\* findByWebsite, which asks for the website only: the tool may be published.
CrawlFind(n) ==
  /\ crawlState[n] = "waiting"
  /\ toolState # "DELETED"
  /\ crawlState' = [crawlState EXCEPT ![n] = "active"]
  /\ CrawlGoto(n, "update")
  /\ UNCHANGED <<tool, jobs, todo, tasks, edit, cList, cTries, load, history,
                 workflow>>

\* A deleted tool is not found: the crawl creates another one.
CrawlToolGone(n) ==
  /\ crawlState[n] = "waiting"
  /\ toolState = "DELETED"
  /\ CrawlLeave(n, "done")
  /\ UNCHANGED <<tool, jobs, todo, tasks, edit, cList, cTries, load, history,
                 workflow>>

\* updateTool replaces the metadata.
CrawlUpdate(n) ==
  /\ CrawlAt(n, "update")
  /\ metadata' = [keys |-> {}, crawled |-> cList[n]]
  /\ written' = {}
  /\ newest' = cList[n]
  /\ torn' = (torn \/ Holders # {})
  /\ CrawlGoto(n, IF cList[n] = << >> THEN "run" ELSE "clear")
  /\ UNCHANGED <<toolState, links, primary, document, jobs, todo, tasks, edit,
                 crawlState, cList, cTries, load, clashed, repeated, unread, crossed,
                 abandoned, faulted, workflow>>

\* syncToolTaxonomyFromNames
CrawlClear(n) ==
  /\ CrawlAt(n, "clear")
  /\ ClearLinks(n, cList[n])
  /\ CrawlGoto(n, "link")
  /\ UNCHANGED <<toolState, metadata, primary, document, jobs, tasks, edit,
                 crawlState, cList, cTries, load, written, newest, torn, crossed,
                 abandoned, faulted, workflow>>

CrawlLink(n) ==
  /\ CrawlAt(n, "link")
  /\ UpsertLink(n, todo[n] = cList[n])
  /\ CrawlGoto(n, IF Len(todo[n]) = 1 THEN "run" ELSE "link")
  /\ UNCHANGED <<toolState, metadata, document, jobs, tasks, edit, crawlState, cList,
                 cTries, load, written, newest, torn, clashed, repeated, crossed,
                 abandoned, faulted, workflow>>

\* startToolPublishWorkflow, whose failure is swallowed, and the start of the AI
\* pipeline (module AiPipeline), whose publication enqueues a growth job.
CrawlRun(n) ==
  /\ CrawlAt(n, "run")
  /\ StartRun \/ UNCHANGED workflow
  /\ CrawlLeave(n, "done")
  /\ UNCHANGED <<tool, jobs, todo, tasks, edit, cList, cTries, load, history>>

CrawlFault(n) ==
  /\ crawlState[n] = "active"
  /\ Spend
  /\ CrawlLeave(n, AfterFailure(cTries[n]))
  /\ cTries' = [cTries EXCEPT ![n] = @ + 1]
  /\ todo' = [todo EXCEPT ![n] = << >>]
  /\ faulted' = TRUE
  /\ UNCHANGED <<tool, jobs, tasks, edit, cList, written, newest, torn, clashed,
                 repeated, unread, crossed, abandoned, workflow>>

-----------------------------------------------------------------------------
Pending == {"waiting", "active"}
Drained ==
  /\ \A j \in Jobs : jobState[j] \notin Pending
  /\ \A t \in IndexTasks : taskState[t] \notin Pending
  /\ \A n \in Crawls : crawlState[n] \notin Pending
  /\ epc = "idle"

GrowthRest == Drained /\ UNCHANGED vars

JobWork(j) ==
  \/ JobTake(j) \/ JobToolGone(j) \/ JobRead(j) \/ JobClear(j) \/ JobLink(j)
  \/ JobEnsure(j) \/ JobAssign(j) \/ JobAssignConflict(j)
  \/ JobGeoRead(j) \/ JobGeoWrite(j) \/ JobIndex(j)
  \/ JobComplete(j) \/ JobWorkflow(j) \/ JobReturn(j) \/ JobWrite(j)

TaskWork(t) ==
  \/ TaskTake(t) \/ TaskRead(t) \/ TaskRemove(t) \/ TaskWrite(t) \/ TaskUpsert(t)
  \/ TaskPopRead(t) \/ TaskPopGone(t) \/ TaskPopWrite(t)

CrawlWork(n) ==
  CrawlFind(n) \/ CrawlToolGone(n) \/ CrawlUpdate(n) \/ CrawlClear(n) \/ CrawlLink(n)
  \/ CrawlRun(n)

EditWork == EditWrite \/ EditClear \/ EditLink \/ EditIndex

GrowthNext ==
  \/ \E j \in Jobs : EnqueueGrowth(j) \/ JobWork(j) \/ JobFault(j)
  \/ \E t \in IndexTasks : TaskWork(t) \/ TaskFault(t)
  \/ \E n \in Crawls : EnqueueCrawl(n) \/ CrawlWork(n) \/ CrawlFault(n)
  \/ EditStart \/ EditWork \/ EditFault
  \/ Withdraw \/ GrowthRest

GrowthSpec == GrowthInit /\ [][GrowthNext]_vars

\* Workers poll their queues for ever and awaits resolve; faults, edits and
\* new jobs need not come.
GrowthFairSpec ==
  /\ GrowthSpec
  /\ \A j \in Jobs : WF_vars(JobWork(j))
  /\ \A t \in IndexTasks : WF_vars(TaskWork(t))
  /\ \A n \in Crawls : WF_vars(CrawlWork(n))
  /\ WF_vars(EditWork)

-----------------------------------------------------------------------------
(* Properties *)

\* The type invariant, that of the workflow runs included.
GrowthTypeOK ==
  /\ WorkflowTypeOK
  /\ toolState \in {"PUBLISHED", "ARCHIVED", "DELETED"}
  /\ metadata \in Metadata /\ written \subseteq Keys
  /\ links \in [Categories -> {"absent", "active", "deleted"}]
  /\ primary \subseteq Categories
  /\ document = NoDocument \/ document \subseteq Categories
  /\ jobState \in [Jobs -> {"none", "waiting", "active", "done", "dead"}]
  /\ snap \in [Jobs -> Metadata] /\ geoSnap \in [Jobs -> Metadata]
  /\ tries \in [Jobs -> 0..MaxTries] /\ iTries \in [IndexTasks -> 0..MaxTries]
  /\ \A a \in Changers : todo[a] \in Seq(Categories)
  /\ taskState \in [IndexTasks -> {"none", "waiting", "active", "done", "dead"}]
  /\ iSnap \in [IndexTasks -> Metadata]
  /\ iCats \in [IndexTasks -> SUBSET Categories]
  /\ eSnap \in Metadata
  /\ crawlState \in [Crawls -> {"none", "waiting", "active", "done", "dead"}]
  /\ cpc \in [Crawls -> {"idle", "update", "clear", "link", "run"}]
  /\ cList \in [Crawls -> Seq(Categories)]
  /\ cTries \in [Crawls -> 0..MaxTries]
  /\ load \in 0..MaxLoad

Failed == \/ abandoned
          \/ \E j \in Jobs : jobState[j] = "dead"
          \/ \E t \in IndexTasks : taskState[t] = "dead"
          \/ \E n \in Crawls : crawlState[n] = "dead"

\* Two writers lose a key only when they overlap: when no write fell into the
\* window of another writer, all keys that were written since the last crawl are
\* there, except the GEO document, which the growth loop itself erases, and the
\* categories are those of that crawl.  (The crawl itself erases all keys.)
KeysKept ==
  ~torn => written \ {"geo"} \subseteq metadata.keys /\ metadata.crawled = newest

\* A tool whose jobs are over has a category, whatever jobs, crawls and the editor
\* do to the links and whatever is retried, unless one of them was given up (the
\* retry of a job gives up when the tool was deleted meanwhile); and exactly one
\* primary category unless two changes of the categories overlapped or a list
\* named its first category twice.
Categorised ==
  (Drained /\ ~Failed /\ toolState # "DELETED" /\ \E j \in Jobs : jobState[j] = "done") =>
    /\ Linked # {}
    /\ ~clashed /\ ~repeated => Cardinality(Linked \intersect primary) = 1

\* When the queues have drained, the search document of a published tool lists
\* exactly the tool's categories, unless two index tasks overlapped, one was given
\* up, or the categories are those of a crawl that no task has read yet: jobs and
\* the editor enqueue a new task after every change, crawls enqueue none.
DocumentCurrent ==
  (Drained /\ ~Failed /\ ~crossed /\ ~unread /\ toolState = "PUBLISHED") =>
    document = Linked

\* A growth job that is done has completed the newest workflow run there was
\* when it looked, whatever other jobs and retries completed; runs older than
\* that may stay open.  (A retry that finds the tool deleted gives up.)
NewestCompleted ==
  \A j \in Jobs :
    (jobState[j] = "done" /\ looked[j] > 0 /\ toolState # "DELETED") =>
      runs[looked[j]].status = "COMPLETED"

\* However jobs overwrite each other's steps, an open run has not passed its
\* last step, and a completed one stands at its end once nobody advances it
\* (a job that died in the middle may leave it behind).
StepsAgree ==
  \A r \in DOMAIN runs :
    IF runs[r].status = "RUNNING" THEN runs[r].step < Steps
    ELSE Quiet /\ ~faulted => runs[r].step >= Steps

\* Every growth job ends, although it loops until its run is completed and
\* another job may set that run's step back.
GrowthEnds ==
  \A j \in Jobs : (jobState[j] = "waiting") ~> (jobState[j] \in {"done", "dead"})

\* What packages/growth/src/geo-persist.ts promises: the GEO document is
\* materialized, so it is there when the growth loop is done.
GeoMaterialized ==
  (Drained /\ \E j \in Jobs : jobState[j] = "done" /\ "geo" \in written) =>
    "geo" \in metadata.keys
=============================================================================
