# Verification of the ai-tool-cms back end

TLA+ models of the parts of `ai-tool-cms` in which several processes act on the
same rows: the crawl workers, the AI content pipeline, the review of its results
by editors, the growth jobs that follow a publication, and the services around
them (scheduler, webhooks, versions, translations, discovery, monitors, imports,
newsletters, request limits, cache). TLC checks the models on small instances;
TLAPS proves every safety property they state for every instance.

All paths in this file are relative to the root of the repository.

## 1. The system

The CMS keeps a catalogue of AI tools. A scheduler starts crawl jobs for its
sources, a worker process turns what the crawlers find into rows of `tools`, and
each new or updated tool goes through a pipeline of language-model stages that
ends with its publication. `apps/api` is the HTTP API of the editors,
`apps/web` the public site, `apps/admin` the editors' site.

    apps/scheduler --> crawl_jobs, BullMQ crawl queues
    crawl-tool --> crawl-category, crawl-detail --> normalize --> tools
    normalize --> AI queues: SUMMARY -> FEATURE -> FAQ -> SEO -> GEO
                             -> QUALITY (back to SUMMARY, or on) -> PUBLISH
    PUBLISH --> tools.status, site growth --> search index, translations, webhooks
    apps/api (editors) --> content_revisions, tools, AI queues

Three things make this system hard to get right.

* **Workers share rows, and nothing is locked.** Nearly every update of a JSON
  column reads the object, spreads it into a new one and writes it back after
  further awaits (`updatePipelineMetadata`, `appendJobStep`, `applyStagePayload`,
  the growth loop). Two of them at the same time lose one of the updates.
* **Queue tasks are delivered at least once.** Jobs are added to BullMQ without a
  `jobId`, so the queue never recognises a duplicate. A handler that rejects is
  executed again (3 attempts with backoff, `packages/queue/src/queues.ts`), and so
  is one whose process died (a stalled job). A handler enqueues its successors
  before BullMQ hears that it is done, so a failure in between runs them twice.
* **Decisions are made on what was read earlier.** Editors, the publish stage, the
  scheduler, crawls, imports and discovery tasks check something, await, and then act; only
  where the database has a unique index does the second of two of them fail.
* **A crawl replaces what others have made.** `updateTool` of `crawl-runtime.ts` stores
  the name, the description, the summary and the whole metadata of the page it found
  over those of the tool, whether or not the tool is published, and links its
  categories anew without an index task. So the tool that a crawl finds again is the
  one whose reviewed content, search document and other keys are at stake;
  sections 4 to 6 have this crawl as an actor.

### Components

| Component | State | Operations | Hard behaviour | Correct when | Module |
|---|---|---|---|---|---|
| Crawl job workers: `apps/worker/src/workers.ts`, `crawl-runtime.ts` | `crawl_jobs` (status, metadata with two counters, itemsFound), queue tasks | crawl-tool lists, crawl-category, crawl-detail fetches, normalize ingests | stale counter writes, retries, crashes, lost tasks | counters never overstate, no item is silently lost, a job ends | `CrawlJob` |
| BullMQ queues: `packages/queue` | waiting, active and failed jobs | enqueue, take, retry, stall | at-least-once delivery | (assumed) | inside the models |
| AI pipeline workers: `apps/worker/src/ai-pipeline.ts`, `packages/ai/src/pipeline` | `tools.metadata`, status and content columns, `content_revisions`, `ai_generation_tasks` | seven stages, quality rounds, publish transaction | concurrent runs, redelivery, whole-object writes | publish gate, complete and approved content, runs end | `AiPipeline` |
| AI generators, `scoreQuality` | none | prompts, score | none | the score is what the gate expects | `AiPipeline`, abstracted |
| AI review: `apps/api/src/ai/ai-review.service.ts` | `content_revisions`, `tools` | approve, reject, edit, publish, archive, regenerate | editors and workers race on a revision | what is shown was approved | `AiReview` |
| Ways into the catalogue: `apps/worker/src/crawl-runtime.ts`, `apps/api/src/tools/tools.service.ts`, `packages/auto-update/src/cli.ts` | `tools` | crawls find by website, create or update; import of a file and daily auto-update; an editor creates, changes, removes | find-then-create race, executions repeated after the create, batches that end in the middle, a website that changes | one tool per website | `ToolCatalog` |
| Scheduler: `apps/scheduler` | `crawl_jobs`, `crawl_sources.nextRunAt` | poll due sources, daily poll | overlapping ticks, crash between writes | one job each time a source is due | `Scheduler` |
| Webhooks: `packages/api-platform`, `platform-worker.ts` | `webhook_deliveries` | emit, deliver, retry | redelivery, lost answers, crash between row and task | each event arrives or is visibly given up | `WebhookDelivery` |
| Site growth: `packages/growth` | `tools.metadata`, `tool_categories` | run loop after publish | writes back metadata minutes old, non-atomic change of links, a crawl in between | does not undo other writers, keeps a category | `GrowthLoop` |
| Search indexing: `packages/search` | search document, two metadata keys | index task | document stored after further awaits | the document shows the tool | `GrowthLoop` |
| Publish workflow: `packages/workflow` | `workflow_runs` | start, advance, complete | two callers advance one run | the newest run completes, steps agree | `WorkflowRun` |
| Translations: `packages/i18n` | `tool_translations`, `translation_jobs` | find or create, translate, publish | jobs that overlap, order of writes | the newest text is published | `Translations` |
| Tool versions: `apps/api/src/tools` | `tool_versions` | create, update, remove | number taken by a deleted row, races | numbers follow creation | `ToolVersions` |
| Discovery: `packages/discovery`, `packages/automation` | `discovery_tasks`, `discovery_results` | poll, search, record | several tasks of one source, retries, URLs that repeat in a search, a query cut off at 500 rows | a URL is NEW once | `Discovery` |
| Website and price monitors: `packages/automation` | monitor, its events | check | state moved before the follow-up is started | events are a history of the page | `Monitors` |
| Newsletters: `packages/automation`, `apps/api/src/commercial` | subscribers, campaign | subscribe, confirm, send | failure in the middle of the recipients | every recipient is reached, only those who confirmed | `Newsletter` |
| Throttler: `apps/api/src/common/throttler` | Redis counters | increment, expire, block | crash between INCR and EXPIRE | the rate is bounded, counters expire | `RequestThrottle` |
| Cache: `packages/cache` | Redis keys | get or load, purge | fill races with purge | no stale value outlives its time | `CacheAside` |
| Providers, crawler framework, auth, SEO/GEO/ads rendering, web sites | none shared | | | | see section 12 |

`PROJECT.json` lists the same components with their sources, and under "hazards"
each place in the code where one of these behaviours bites, with the property
that covers it.

## 2. Modules

| Module | Content |
|---|---|
| `CrawlJob` | one crawl job, its row and its queue tasks |
| `ItemJourney` | what a crawl job promises of one item; `CrawlJob` implements it |
| `AiPipeline` | the pipeline runs of one tool and the rows they share |
| `AiReview` | extends `AiPipeline` with concurrent editors |
| `WorkflowRun` | the publish workflow runs of one tool |
| `GrowthLoop` | extends `WorkflowRun`: growth jobs, index tasks, crawls and an editor around one tool |
| `Scheduler`, `WebhookDelivery`, `ToolVersions`, `Translations`, `Discovery`, `Monitors`, `ToolCatalog`, `Newsletter`, `RequestThrottle`, `CacheAside` | one service each |
| `CrawlJobProofs`, `CrawlJobRefinement` | theorems about the crawl job; that it implements `ItemJourney` |
| `AiPipelineProofs` | theorems about `AiPipeline` and `AiReview` |
| `GrowthLoopProofs` | theorems about `GrowthLoop` and `WorkflowRun` |
| `AutomationProofs` | theorems about `Scheduler`, `Discovery`, `Monitors`, `Newsletter` |
| `CatalogProofs` | theorems about `ToolVersions`, `ToolCatalog`, `Translations`, `CacheAside` |
| `PlatformProofs` | theorems about `WebhookDelivery`, `RequestThrottle` |
| `ServicesProofs` | the theorems of the services, carried over to `MCServices` |
| `MCCrawlJob`, `MCAiPipeline`, `MCAiReview`, `MCGrowthLoop` | symmetry sets and constants for TLC; the `.cfg` files give the constants their values |
| `MCServices` | the ten services side by side in one run |

Conventions common to all of them:

* A handler is an async function. Every `await` that reads or writes something
  shared is an action; code between two awaits belongs to the action before it,
  since one Node process does not interrupt it. `pc[k]` names the await that task
  `k` executes next.
* A queue task is a record (stage, what it is about, copy). Enqueueing takes the
  lowest unused copy (`IsNext`); `MaxCopies` bounds how often the same stage can be
  enqueued for the same item or round. BullMQ is external: `Take`, a rejected
  execution (`Fail`, `ThrowUncaught`) counted in `attempt`, a crash counted in
  `stalls`, and `dead` when either is exhausted.
* Some variables are history. They are marked as such; only properties read
  them, apart from guards that bound a counter.
* Operators commented as mutants are unused; each is a plausible bug, and
  `PROJECT.json` pairs it with the property that detects it.

## 3. CrawlJob

State: `status`, `meta`, `itemsFound` are the columns of `crawl_jobs`; `meta`
keeps `expectedDetails` and `completedDetails`. `tools`, `piped`, `finished` and
`sourceActive` stand for the world around the job.

| Actions | Code |
|---|---|
| `ListStart`, `ListOpen`, `EnqueueCategory`, `GetTools`, `Expect`, `Spread` | `startCrawlToolWorker`, `workers.ts:69-154` |
| `CategoryOpen`, `GetCategories` | `startCrawlCategoryWorker` |
| `DetailOpen`, `Snapshot`, `GetDetail`, `GetDetailNull`, `EnqueueNormalize`, `DetailCount` | `startCrawlDetailWorker` |
| `NormalizeOpen`, `Ingest`, `IngestNull`, `StartAiPipeline`, `Reread`, `NormalizeCount` | `startNormalizeWorker` |
| `LogRead`, `LogWrite`, `LogWriteLast` | `appendJobStep`, a subroutine with its return point in `ret` |
| `Succeed`, `Announce` | `markJobSucceeded` |
| `OpenOrphan`, `Orphan` | the early return when the source was deleted |
| `Throw`, `Fail`, `ThrowUncaught`, `Crash` | catch blocks, rejections outside them, process death |

Abstractions: the list of `getTools` is a set (an adapter that returns an id
twice is not covered); the adapter's `null` is a choice made at each attempt; the
list may differ between attempts; the step of a handler's last await also
completes the task. `crawl-image` only logs and is left out; the row of a tool
that `normalize` finds or creates is in `ToolCatalog`. `Init` is the state
`triggerManual` leaves behind for a job of type CRAWL_TOOL, which is also what the
scheduler starts.

| Property | Meaning | Run |
|---|---|---|
| `CompletedNeverOvercounts` | no copy of the counter, in the row or in any handler, exceeds the counter updates that were executed | crawl_fault_free, proved |
| `FoundBacked` | `itemsFound` never exceeds the finished executions, although `markJobSucceeded` overwrites it | crawl_fault_free, proved |
| `StuckOnlyByLostUpdate` | a fault-free job that hangs has lost a counter update, or fewer than half of its items were handed to normalize | crawl_fault_free, proved |
| `NothingLost` | a listed item is in progress, in the AI pipeline, refused, given up or orphaned, or its crawl-tool task is still to be finished: never silently gone | crawl_faults, proved |
| `JourneyKept` | the job implements `ItemJourney` | crawl_faults, proved |
| `ItemsResolve` | every item handed to crawl-detail is resolved in the end (liveness) | crawl_faults |

`ItemJourney` is the abstract specification: an item is offered, detailed, ingested
and enters the AI pipeline, or is refused or given up, and no stage is skipped or
taken back. It knows no queues, attempts or copies. `CrawlJob` implements it under
the mapping `Journey`: an item is *detailed* when a normalize task for it exists,
*given up* when a task about it is dead or orphaned, and the other variables are
those of `CrawlJob`. `ItemsResolve` is `Journey!Settles`, the liveness of the abstract
specification.

Two runs show where code and documents disagree.

* `crawl_early_success`: detail and normalize both increment `completedDetails`,
  but `normalize` compares it with the number of items (`workers.ts:372`). A job of
  two items is SUCCEEDED when one of them has been ingested.
* `crawl_stuck`: only `normalize` marks a job as succeeded, and `crawl-detail`
  writes back a snapshot taken before its awaits. After a lost update, or when the
  adapter returns `null` for more than half of the items and those details are the
  last to finish, the job stays RUNNING for ever.

The second reason is what a proof attempt brought to light: with the two items of the
run, "more than half" can only be all of them, and an earlier statement of
`StuckOnlyByLostUpdate` said so. It is false for three items, of which one is
normalized while the details of the other two, which find nothing, are still at work.

Bounds: two items give every interleaving of two detail and two normalize
handlers on one row, which is what a lost update needs; that nothing else happens
with more items is what the theorems of section 10 say. Runs with a fault have one item and one fault at
any await. `MaxCopies` is at least `MaxFaults + 1`, so each repetition a fault can
cause has a task to use.

## 4. AiPipeline

State: `toolStatus`, `deleted`; `meta.pipeline` is `metadata.aiPipeline` (the
artifact of each stage), `meta.applied` is content applied to other keys of
`tools.metadata` (FEATURE and GEO), `column` content applied to columns and rows of
their own (SUMMARY, FAQ, SEO). `revs[k]` are the statuses of the revisions created by task
`k`. `abandoned` counts rows of `ai_generation_tasks` that are RUNNING for ever.
An artifact is the run and the round that wrote it.

| Actions | Code (`apps/worker/src/ai-pipeline.ts`) |
|---|---|
| `StartAiPipeline` | `packages/ai/src/pipeline/orchestrator.ts`, with its callers |
| `Take`, `TakeDeleted` | the worker and `loadToolContext` |
| `CreateAiTask`, `SaveRevision`, `ReadMeta`, `WriteMeta`, `FinishAiTask` | the functions of those names; `updatePipelineMetadata` is a read and a write |
| `ReadQuality` | QUALITY reads the artifacts; a score without a summary cannot pass |
| `ReadPublish`, `ApplyPipelineArtifacts` | PUBLISH and its transaction |
| `EnqueueNextStage`, `Publish` | the successor, including `summary-retry`; the end of PUBLISH |
| `Recrawl` | `updateTool` in `crawl-runtime.ts`, which replaces the metadata, and the summary column if the page has a summary (`CrawlText`) |
| `Throw`, `Fail`, `ThrowUncaught`, `Crash`, `EnqueueThenThrow`, `EnqueueThenCrash` | rejections inside and outside the try block, process death, and both after the successor is in its queue |
| `DeleteTool` | `remove` in `tools.service.ts` |

Abstractions: two generating stages instead of five, one applied to columns and
one to the metadata, since these are the two ways `applyStagePayload` works; what
a score makes of a text is a free choice; the publish transaction is one step,
because its first update locks the row of the tool; the webhook of SEO and the
growth trigger, which swallows its errors, change nothing here.

| Property | Meaning | Run |
|---|---|---|
| `PublishGate` | PUBLISH exists only for a round whose quality passed, or for the last round | pipeline_faults, proved |
| `PublishedComplete` | a run that was alone publishes the artifacts of every stage, all of one round, unless an execution was repeated after its successor had been enqueued | pipeline_faults, proved |
| `RowsSettle` | a task row stays RUNNING only after a fault of its execution | pipeline_faults, proved |
| `RunEnds` | every run is published, given up or its tool deleted (liveness) | pipeline_faults |
| `ShownIsApproved` | no generated text is shown whose revision was not approved, although one run may publish what another has just generated; any other text is the summary of a crawl (`ByCrawl`) | pipeline_two_runs, proved |
| `NothingLeftPending` | after the queues have drained, a revision is pending only if its run was given up | pipeline_two_runs, proved |

`pipeline_partial` shows a disagreement: a stage that is executed again after its
successor was enqueued writes back the whole metadata object it read, over the
work of the later stages and of the publish transaction. A PUBLISHED tool then
lacks the content of one stage; `docs/01-architecture/DDD.md` promises "no partial publish".
This is also why `PublishedComplete` excludes that case.

`ShownIsApproved` has to leave out the summary of a crawl: `updateTool` writes it into the
column in which SUMMARY is shown, no revision exists for it, and a tool that is
published stays so. The property says that this is the only text without approval, in
this column only; `docs/01-architecture/RFC/RFC-0003-ai-pipeline.md` draws no such way around the review.

Bounds: one run with one fault at any await and two quality rounds, so that a
round is repeated and the last round is reached; two runs with two rounds and a
recrawl, without faults. Two runs are what it takes to overwrite each other.

## 5. AiReview

`AiReview` extends `AiPipeline` and lets editors act while the workers run. Each
request first reads the revision (`FindRevision`) and goes on only if it is PENDING;
it then updates the revision by its id, without another look. `epayload` is the
payload it read: `edited` says whether that is an editor's version. Approval is
one transaction for a stage with columns (`ApproveColumns`), for one without content
(`ApproveMark`), and a read and a write of the metadata for the others
(`ApproveReadMeta`, `ApproveWriteMeta`), because READ COMMITTED takes no lock on the read. `clashed`
records revisions that changed between an editor's read and write.

`ShownAsApproved` (run review_manual, proved): without automatic publishing, whatever the
tool shows, but for the summary of a crawl, is exactly what an approved revision says,
edits included, in spite of workers that write back old metadata and crawls that
replace it; only two editors who clash on one revision can break this. The run has
two editors with three requests in all, an edit or an approval on either side of
another editor's decision, and a crawl.

`review_rejected` shows a disagreement under the default setting
`AI_PIPELINE_AUTO_PUBLISH = true`: PUBLISH takes the artifacts from the metadata and
never looks at their revisions, so the content of a rejected revision is published.

Not checked yet: that approved content stays. A worker that read the metadata
before an approval of FEATURE or GEO and writes it afterwards removes what was
approved; `ShownAsApproved` only says that nothing else takes its place.

## 6. GrowthLoop and WorkflowRun

After a tool is published, a growth job (`packages/growth/src/loop.ts`, executed by
`apps/worker/src/growth-worker.ts`) completes what the site needs of it. `GrowthLoop`
models up to `Cardinality(Callers)` such jobs for one tool, the search index tasks
they enqueue, an editor's update, and the normalize tasks of crawls that find the
tool again; `WorkflowRun`, which it extends, models the rows of `workflow_runs`.

State: `metadata` is `tools.metadata`: the set of `keys` that are present, one per writer,
and `crawled`, its `crawlCategories`; `links` and `primary` are the rows of
`tool_categories`, where a deleted row is not the same as none; `document` is the
list of categories in the search document; `runs` the workflow runs, oldest first.

| Actions | Code |
|---|---|
| `EnqueueGrowth`, `JobTake`, `JobToolGone`, `JobRead` | `growth-trigger.ts`, `growth-worker.ts`, the first read of `loop.ts` |
| `JobClear`, `JobLink`; `JobEnsure`, `JobAssign`, `JobAssignConflict` | `syncToolTaxonomyFromNames` (delete all links, upsert one by one); `ensureDefaultCategory` (count, then create) |
| `JobGeoRead`, `JobGeoWrite` | `geo-persist.ts` |
| `JobIndex`, `JobComplete`, `JobWorkflow`, `JobReturn`, `JobWrite` | the enqueue of the index task, the workflow, the last write of `loop.ts` |
| `FindRun`, `FindNothing`, `AdvanceRead`, `AdvanceStep`, `AdvanceLast` | `completeToolPublishWorkflow` and `advanceWorkflowRun` (`packages/workflow`) |
| `TaskRead`, `TaskRemove`, `TaskWrite`, `TaskUpsert`, `TaskPopRead`, `TaskPopGone`, `TaskPopWrite` | `packages/search/src/indexer.ts` and the popularity snapshot |
| `EditStart`, `EditWrite`, `EditClear`, `EditLink`, `EditIndex` | `update` in `tools.service.ts` with metadata and categories |
| `JobFault`, `TaskFault`, `EditFault` | a rejected await or the death of the process: a task is executed again, a request is not |
| `EnqueueCrawl`, `CrawlFind`, `CrawlToolGone`, `CrawlUpdate`, `CrawlClear`, `CrawlLink`, `CrawlRun`, `CrawlFault` | the normalize worker (`workers.ts:327-343`) and `ingestDetailReturningToolId`: the metadata is replaced, not spread (`crawl-runtime.ts:181-188`); the categories are linked anew (`206-209`) without an index task; another workflow run is opened |
| `Withdraw` | a removal or archiving |

Abstractions: a crash and a rejection both cost an execution; tags are written the
way categories are; internal links, compare pages, SEO rows, the sitemap ping and
plugins are awaits that may fail and change nothing here.

| Property | Meaning |
|---|---|
| `KeysKept` (proved) | as long as no write falls between another writer's read and its write, every key written since the last crawl is still there, the GEO document excepted, and the crawled categories are those of that crawl |
| `Categorised` (proved) | when all is done, a tool has a category, although changes delete all links first and although retries repeat them; exactly one is primary unless two changes overlapped or a list named its first category twice |
| `DocumentCurrent` (proved) | when all is done, the search document lists the tool's categories, unless index tasks overlapped or the links are a crawl's that no task has read |
| `NewestCompleted` (proved) | a job that is done has completed the newest run there was when it looked, although `completeToolPublishWorkflow` picks only one open run |
| `StepsAgree` (proved) | `currentStep` is written from a stale read, and yet an open run never passes its last step, and without faults a completed one ends at it |
| `GrowthEnds` | every growth job ends, although it advances a run whose step another job may set back (liveness) |

`growth_geo` shows a defect: the loop ends with a write of the metadata it read at its
start (`loop.ts:110`), and so erases the GEO document that
`persistGeoDocumentForTool` has just materialized, in every undisturbed execution.
Therefore `KeysKept` leaves that key out.

The crawl is the fourth writer, and the one that reads nothing: it erases all the keys
(`edit`, `geo`, `growth`, `embedding`, `popularity`) with nobody racing, so `KeysKept` counts
from the last crawl (`written`, `newest`). And it is the one writer of the links that
enqueues no index task, so after a crawl the document may stay behind until a job or the
editor changes something; `unread` marks exactly that time. Jobs and the editor
have no such exception: each of their changes is followed by a task that reads it.

`Categorised` excludes one more case that the proof brought to light: the categories
are upserted in the order of the list, and only the first *position* is primary
(`taxonomy.ts`, `tools.service.ts`). A list that names its first category twice
marks it primary and then takes the mark away, so the tool is left without a primary
category, with nobody racing. `repeated` records that such a list was processed; the
editor's lists of the run (`MCEditLists`) include one.

## 7. The services

Ten components share no state with one another. `MCServices` puts them side by
side: the variable `active` says which of them runs in a behaviour, and the others keep
their initial states. So one run explores the sum of their state spaces, not the
product, and each component is checked as in a run of its own.

**Scheduler** (`apps/scheduler/src/main.ts`). `setInterval` starts ticks that may overlap
(`TickStart`); for each due source a tick writes three times (`TickCreate`, `TickEnqueue`,
`TickMove`); a rejection marks the job FAILED (`TickReject`, `TickFail`), one outside the
inner try block ends the tick (`TickAbort`); the daily poll is `TickPoll`, `TickPolled`.
`SchedulerCrash` loses all ticks and the process's variables. `SetSourceStatus` and
`UpdateFrequency` are the API of sources. Dates are reduced to due or not due.
`StrandedOnlyByFaults` (proved): a PENDING job that nobody executes needs a crash, or
two rejections. `OneJobPerDue` (proved): without overlapping ticks, a source gets one job
each time it becomes due; overlapping ticks do start a source twice, and the property
says that nothing else does. `DueIsServed` (liveness): no fault leaves a source due for ever.

**WebhookDelivery** (`packages/api-platform`, `platform-worker.ts`). An execution of the
emitter creates a row per webhook (`DispatchCreate`) and enqueues all at once
(`EnqueueAll`, `EnqueueDelivery`, `EnqueueReject`); it is itself a queue task and starts
again with new rows. A worker reads the attempts, posts, and records them
(`SendRead`, `Post`, `SendOk`, `SendFailed`); the answer of a post may be lost; the update may
reject although it took effect (`UpdateReject`). `AttemptsBacked` (proved): the attempts in
a row were all made, and only a fault hides a post. `EveryDeliverySettles` (proved): when
nothing is left to do, a row is DELIVERED and was accepted, or was given up, or a
fault kept it from being enqueued. `EventReaches` (liveness): once the event was emitted,
every webhook accepts it or its delivery was given up.

**ToolVersions** (`tool-versions.service.ts`). `CreateRead` takes the number after the newest
*active* version, while the unique index also counts deleted rows (`NumberFree`), as the
migration says. `NumbersInOrder` (proved): as long as nobody asks for a number or for a slug
that is not its number's (`renamed`: an update may ask for both, a create for the slug), the versions ever created are numbered in the order of their creation,
removed ones included. A create after the
removal of the newest version is refused (`WriteRefused`) until an update renumbers an
active one.

**Translations** (`packages/i18n/src/workflow.ts`). Jobs of one tool and locale run side by
side; each reads the text, finds or creates the row, marks itself SUCCEEDED and only
then publishes. `PublishedIsNewest` (proved): when a job has succeeded and all is done, the
translation is published and, unless jobs overlapped, of the text read last. Once a task
was given up it claims nothing: the task may have died between SUCCEEDED and the
publication.

**Discovery** (`packages/discovery/src/engine.ts`). Polls create tasks without moving
`nextRunAt` (`PollFind`, `PollCreate`, `PollEnqueue`), so tasks of one source overlap. A task asks
once which URLs are known and records them one by one. `candidates` is a bag: the
Hacker News, RSS, Google News, Reddit and X adapters may list a URL twice, and the loop
adds nothing to `existingUrls`. The query takes 500 rows without an order (`TakeLimit`),
and each time a URL is found adds a row, so in the end known URLs are left out
(`Returned`). `NewOnce` (proved): unless tasks recorded side by side, a URL is NEW once,
except a URL that one search listed twice (`repeated`) or that the query did not return
(`missed`); and what a completed task found is NEW somewhere, also when an execution
failed in the middle.

**Monitors** (`website-monitor.ts`, `price-monitor.ts`). A check compares, records an event,
moves the monitor, and only then starts a crawl and the pipeline. `ChangesChain` (proved): without
overlapping checks the events of a monitor are a history of the page.
`LostOnlyByBreaks` (proved): a version whose pipeline was never started, or a crawl job without a
task, costs a failure each.

**ToolCatalog** (`crawl-runtime.ts`, `tools.service.ts`, `packages/auto-update/src/cli.ts`). Crawls look
for the very website and then create or update (`IngestFind`, `IngestCreate`, `IngestUpdate`); the
awaits after that may fail, and the task is executed again (`follow`, `IngestFault`). A batch,
which is an import or an auto-update, compares all its records once, by slug and
domain (`BatchStart`; an import also compares the domains of its own records), and ends at
the first it cannot create (`BatchAbort`). Editors are asked about the slug only, and may
give a tool another slug and website (`EditorBegins`, `EditorUpdate`). The database knows
slugs, not websites. `SiteOnce` (proved): there are two tools of one website only if two
crawls or batches looked for it at the same time, if an editor gave one of them its
website (`by`), or if one auto-update brought both; two tools of one import differ even in
their domains, whatever happens meanwhile. The document says more:
`docs/01-architecture/DDD.md:97` has the website unique among tools that are not archived, which an editor
alone can break.

**Newsletter** (`newsletter-auto.ts`, `newsletter.service.ts`, `platform-worker.ts`). A sending
mails to one subscriber after the other and remembers nobody. `CampaignReaches` (proved): who was
a recipient of a sending that ended well got the mail, nobody got it without having
followed a link, and nobody more often than it was sent or failed.

**RequestThrottle** (`redis-throttler.storage.ts`). Each Redis call is a step and time is
counted in ticks, several of them a second, because Redis expires keys by whole
seconds. `recent[i]` counts the admissions of the last `i` ticks. `BurstBounded` (proved): in any span of a window's length at most twice the limit is
admitted. `CounterExpires` (liveness): a counter that never expires needs a request that
died between INCR and EXPIRE.

**CacheAside** (`cache-aside.ts`, `packages/auto-update/src/cli.ts`). A request that misses loads
and sets, in three awaits; nobody invalidates on a write; the purge lists keys and
deletes them. `StaleBounded` (proved): no answer is older than the time to live and one request; and
a complete purge leaves no older version, unless a request held one meanwhile or the
key is hashed and so not on the list.

## 8. Runs

| Run | Question | Distinct states |
|---|---|---|
| crawl_fault_free | Do the counters of a job overstate what was done, and why can it hang? (two items, no faults) | 305,919 |
| crawl_faults | Is an item lost, skipped or left unresolved? (one item, one fault anywhere) | 169,627 |
| crawl_early_success | Does SUCCEEDED mean that every item was ingested? | stops at a counterexample |
| crawl_stuck | Does a job always finish? | stops at a counterexample |
| pipeline_faults | What does a run publish, and does it end? (two quality rounds, one fault anywhere) | 113,190 |
| pipeline_two_runs | What do two overlapping runs show of each other, and of a crawl? | 663,884 |
| pipeline_partial | Is a tool ever published without a stage? | stops at a counterexample |
| review_manual | Is what the tool shows what an editor approved? (two editors, one run, a crawl) | 945,438 |
| review_rejected | Is the content of a rejected revision discarded? | stops at a counterexample |
| growth | What do overlapping growth jobs, index tasks, a crawl and an editor do to one tool? (with faults) | 755,427 |
| growth_geo | Is the GEO document there after a growth job? | stops at a counterexample |
| services | The ten services of section 7, each with its concurrency and faults | 996,874 |

All of them check for deadlock. Constants are in the `.cfg` files. Bounds that are not
explained in sections 3 to 5:

* `growth`: two jobs are what it takes to overwrite each other's metadata, links or
  steps, and three workflow steps are enough to set a run back by one and go on.
  `MaxLoad` counts the jobs, edits, withdrawals, crawls and faults of a behaviour: with
  2, each pair of them occurs, for example two jobs, a job with a fault, or a job and a
  crawl. The tool has two crawled categories at first, or none. `MaxIndex >= MaxLoad`, so that no job waits for a free index task.
* `services`: every component has two of each actor that races (ticks, editors, jobs,
  pollers, requests), which is what each property needs to be violated, and at least
  one fault where the code can fail. Ticks handle their sources one after the other,
  so one source is enough for what two ticks do to each other; webhooks have as many
  rows as two executions of the emitter for two webhooks create, and are sent one at a
  time, since no two deliveries touch the same row. The window of the throttler (5
  ticks) is not a multiple of a second (3 ticks), so rounding matters; its counter may
  reach the limit plus two. In the catalogue, crawls, one import and one auto-update share
  three records: two with one website, two with one slug, all with one domain; each
  batch has two of them, and `MaxTurns = 1` gives them one request of the editor, one
  removal or one fault. Discovery finds up to `MaxFound = 2` URLs in a search, the same
  twice among them, and `TakeLimit = 2` stands for the 500 rows of the code: once two
  executions have recorded both URLs, a third one may miss one of them.
* The temporal properties `DueIsServed`, `EventReaches` and `CounterExpires` are checked in
  the same run: each speaks about one component, and holds trivially while another
  is active.

## 9. Fairness

Runs without liveness properties use a specification without fairness. The others:

| Run | Weak fairness of | Why the code justifies it |
|---|---|---|
| crawl_faults, pipeline_faults | `Work(k)` of each task | workers poll their queues for ever, a backoff expires, an await that does not reject resolves |
| growth | `JobWork(j)`, `TaskWork(t)`, `EditWork` | the same, and a request of the API goes on until it is answered |
| services | `TickWork(t)`; `EmitWork` and `SendWork(d)`; `Tick` and `QWork(q)`, each while its component is active | the timer fires for ever; the queues are served; time passes and Redis answers |

`crawl_stuck` uses the fairness of the first line too: its counterexample is not a system
that merely stops. An active task has one next step at a time, so weak fairness is
enough. Faults, recrawls, deletions, the start of a run, the requests of editors, new
jobs, pages that change and sources that come due have no fairness: nothing in the
code makes them happen. Nor is anything said about faults that never stop: each model
has at most as many as its constant allows, so `DueIsServed`, for instance, says that a
source a fault left due is served by a later tick. When the queues have drained, the
models stutter (`Rest`, `GrowthRest`, ...), so that TLC's deadlock check stays on: any
other state without a successor would be an error of the model.

## 10. Proofs

Every safety property of sections 3 to 7 is a theorem, for every value of the
constants the assumptions of the modules admit: any finite sets of items, webhooks or
people, any number of attempts, copies, rounds and faults. The assumptions say that
sets that are counted are finite, that bounds are natural numbers and that a task has at
least one attempt; those of the catalogue give each record a slug and a website.
No theorem needs fairness. The modules of TLC's runs take the same definitions.

Each argument has an inductive invariant with its initialisation, its preservation (one
step per action) and its consequence. Each starts from the type invariant with the
facts it needs to be inductive: executions stay within the budget while a task is not given up, and
what a handler holds at each of its awaits.

### Crawl job (`CrawlJobProofs`, `CrawlJobRefinement`)

| Theorem | States |
|---|---|
| `TypeCorrect` | `Spec => []TypeOK` |
| `NoOvercount` | `Spec => []CompletedNeverOvercounts` |
| `FoundIsBacked` | `Spec => []FoundBacked` |
| `NoItemLost` | `Spec => []NothingLost` |
| `StuckIsExplained` | `Spec => []StuckOnlyByLostUpdate` |
| `JourneyIsKept` | `Spec => JourneyKept` |

* `CountInv`: the counter invariants hold of every local copy, not only of the row,
  and `itemsFound` can be overwritten by `expected` only when the comparison at
  `NormalizeCount` held (`SuccessBacked`). Without the copies the invariant is not
  inductive, because any handler may write its copy back.
* `LossInv`: for each item, the place that is responsible for it: a detail task that
  has not handed it on, a normalize task, or a terminal outcome; and for crawl-tool
  the items it still has to enqueue. Lemmas treat the steps that only move inside
  one handler (`LossMove`, `LossPlain`), so the proof of preservation spends its cases on the
  steps that hand an item over.
* `StuckInv` holds without faults. `Orderly`: each stage of an item runs once, so the
  counter updates can be counted by items (`Tally`). `Verdict`: as long as some copy of the
  counter is up to date and nobody found the job finished, the items that normalize
  counted, those of them whose detail had counted too taken twice, are fewer than the
  items listed; for the next normalize would have seen the sum. A job that drains in
  this state has normalized fewer than half of its items. `Outrun` covers the detail that a
  normalize task overtakes: its snapshot is too old, so its write loses an update.
* `JourneyIsKept` needs `OrderInv`: a task about an item exists only after the item was
  offered, and the pipeline is started only after the item was ingested. Every step
  of a handler is then a step of the journey (`JourneyStep`) or leaves the mapped variables
  alone (`StutterStep`).

### AI pipeline and review (`AiPipelineProofs`)

| Theorem | States |
|---|---|
| `TypeCorrect` | `Spec => []TypeOK` |
| `PublishIsGated` | `Spec => []PublishGate` |
| `RowsAreSettled` | `Spec => []RowsSettle` |
| `OnlyApprovedShown` | `Spec => []ShownIsApproved` |
| `NoRevisionForgotten` | `Spec => []NothingLeftPending` |
| `PublishesOneRound` | `Spec => []PublishedComplete` |
| `ReviewTypeCorrect` | `ReviewSpec => []ReviewTypeOK` |
| `OnlyApprovedByEditors` | `ReviewSpec => []ShownAsApproved` |

* `GateInv` adds to the gate that a verdict of a running QUALITY task is on record;
  the lemma `PublishFollows` says that only QUALITY hands over to PUBLISH, and when.
* `RowInv` adds that an execution past `finishAiTask` has settled its row. QUALITY is the
  odd one: it writes its metadata after that.
* `ApprovalInv` is about every copy of the metadata, in the row and in the handlers: an
  artifact in it has a revision that is pending or approved, and applied content
  an approved one. It needs `Revised`, the order in which a stage saves its revision
  and then its artifact. The publish transaction keeps it because it approves all
  pending revisions of the tool; approving those of its own run only, as the
  mutant `ApprovedOwnRun` does, would break it.
* `PendingInv`: behind every pending revision there is a task of its run that leads on to
  the publish transaction, or was given up.
* `ChainInv`: a run that is alone has one unfinished task (`OneTask`), whose copy of the
  metadata is the one that is stored, with the artifacts of all stages before it.
  This breaks exactly when an execution is repeated after its successor was enqueued.
* `ManualInv` carries over to editors what `ApprovalInv` says: every copy of applied content
  that a worker or an editor may write back is vouched for by a revision that was
  approved as it is (`Vouches`), or one on which two editors clashed. `OnceInv` adds that
  nobody decides on a revision before it exists. A crawl leaves no applied content in the
  metadata, and puts into a column only what `ByCrawl` describes.

### Growth loop (`GrowthLoopProofs`)

| Theorem | States |
|---|---|
| `GrowthTypeCorrect` | `GrowthSpec => []GrowthTypeOK` |
| `KeysAreKept` | `GrowthSpec => []KeysKept` |
| `NewestIsCompleted` | `GrowthSpec => []NewestCompleted` |
| `StepsAlwaysAgree` | `GrowthSpec => []StepsAgree` |
| `ToolsAreCategorised` | `GrowthSpec => []Categorised` |
| `DocumentIsCurrent` | `GrowthSpec => []DocumentCurrent` |

* `KeysInv`: until a write falls into another writer's window, not only the row but
  every copy that a writer is going to write back holds all the keys written since the
  last crawl, and that crawl's categories.
* `NewestInv`: the newest run a job has seen is completed, or it is the one the job is
  advancing. A run is never opened again, so this survives what other jobs do.
* `StepsInv`: a completed run that stands before its end, because another job wrote an
  older step over it, is still being advanced by somebody.
* `CategoryInv`: a tool that a job has brought past the default category has a category, or
  somebody is still going to link one (`MendedInv`; `Relinking` for a crawl, which never
  clears the links for an empty list); until two changes overlap, whoever
  links a list has linked nothing yet, or exactly the primary category and some others, and the
  primary one does not come again in the rest of the list (`PrimaryInv`).
* `DocumentInv`: the document is up to date, or a task carries the current categories to
  it, or a task that is still to read them exists or is still to be enqueued (`Ahead`), except
  while the links are a crawl's that nobody has read.

### Scheduler, discovery, monitors, newsletters (`AutomationProofs`)

| Theorem | States |
|---|---|
| `SchedulerTypeCorrect` | `SchedulerSpec => []SchedulerTypeOK` |
| `JobsAreStrandedByFaults` | `SchedulerSpec => []StrandedOnlyByFaults` |
| `JobsPerDue` | `SchedulerSpec => []OneJobPerDue` |
| `DiscoveryTypeCorrect` | `DiscoverySpec => []DiscoveryTypeOK` |
| `UrlsAreNewOnce` | `DiscoverySpec => []NewOnce` |
| `MonitorsTypeCorrect` | `MonitorsSpec => []MonitorsTypeOK` |
| `EventsAreAHistory` | `MonitorsSpec => []ChangesChain` |
| `FailuresLoseOneVersion` | `MonitorsSpec => []LostOnlyByBreaks` |
| `NewsletterTypeCorrect` | `NewsletterSpec => []NewsletterTypeOK` |
| `CampaignReachesItsReaders` | `NewsletterSpec => []CampaignReaches` |

* `StrandedInv` counts the ticks that still have to mark a job: a rejected await buys
  half a stranded job, and the second rejection the other half.
* `JobsInv`, with `Alone`: a source that may still get a job (`Coming`) keeps one of its dues
  in reserve. `Coming` has three reasons, and a step can only exchange one for another.
* `CompletedInv` and `OnceInv` (discovery): whatever is known was NEW once; and what the
  one task that records does not know, and has not recorded itself, nobody has, unless
  a search repeated it or the query missed it.
* `ChainInv` (monitors): the monitor has the content of the last event, or the check of that
  event is about to move it there, or failed before it did. Only then may the next
  event start where the last one started.
* `LostInv`: a version whose pipeline was not started is in the hands of a check, or was
  paid for with a failure.
* `FollowedInv`, `MailedInv`, `ChargedInv` (newsletter): whoever is on the way to a mail has
  followed a link; each mail is charged to an execution that goes on or ended well, or
  to an outage.

### Versions, catalogue, translations, cache (`CatalogProofs`)

| Theorem | States |
|---|---|
| `VersionsTypeCorrect` | `ToolVersionsSpec => []ToolVersionsTypeOK` |
| `VersionsInOrder` | `ToolVersionsSpec => []NumbersInOrder` |
| `CatalogTypeCorrect` | `CatalogSpec => []CatalogTypeOK` |
| `OneToolPerSite` | `CatalogSpec => []SiteOnce` |
| `TranslationsTypeCorrect` | `TranslationsSpec => []TranslationsTypeOK` |
| `PublishesTheNewest` | `TranslationsSpec => []PublishedIsNewest` |
| `CacheTypeCorrect` | `CacheSpec => []CacheTypeOK` |
| `AnswersAreFresh` | `CacheSpec => []StaleBounded` |

* `OrderInv` (versions) adds what a request intends to write (`Intended`): a number between 1
  and the next one; the unique index then leaves only the next one.
* `VacantInv` (catalogue): a website that a crawl is about to create, or that lies ahead in
  the file of a batch, has no tool but an editor's, or one of that batch. `LooksInv` makes
  sure that nobody else is about to create it. `ImportInv`: what an import has still to create
  differs in its domain from what it has created. After a create the task has nothing
  left to create, so its re-execution finds the tool or, if that was removed, a vacancy.
* `PublishInv` and `NewestInv` (translations): a row that is not published has a task that will
  publish it or was given up; while no jobs overlap, what was read last is in the
  hands of one job or in the row.
* `AgesInv` (cache): a version is as old as the request that loaded it at most, and in the
  entry as old as a request and the time since it was set. `PurgeInv` follows the purge.

### Webhooks and request limits (`PlatformProofs`)

| Theorem | States |
|---|---|
| `DeliveriesTypeCorrect` | `WebhookSpec => []WebhookTypeOK` |
| `AttemptsAreBacked` | `WebhookSpec => []AttemptsBacked` |
| `DeliveriesSettle` | `WebhookSpec => []EveryDeliverySettles` |
| `ThrottleTypeCorrect` | `ThrottleSpec => []ThrottleTypeOK` |
| `BurstsAreBounded` | `ThrottleSpec => []BurstBounded` |

* `DeliveriesTypeInv` needs `RowsBounded`, that each execution of the emitter creates at
  most one row per webhook, which is why `MaxRows` never blocks a step.
* `CountInv` relates the attempts a worker has read, the row's attempts and the posts.
* `SettleInv` says of each row who is responsible for it: the emitter, an enqueue that has
  not settled, a task, or a fault.
* `BurstInv`: everything admitted in the last window was admitted by the present counter
  or by one before it, which admitted `Limit` at most; and only the present counter
  has admitted since it was created, which with its time to live makes a window
  (`AloneSince`). That Redis rounds up to whole seconds helps: `RoundedUp` says that a
  time to live is a window at least.

### The services together (`ServicesProofs`)

| Theorem | States |
|---|---|
| `ServicesTypeCorrect` | `ServicesSpec => []ServicesTypeOK` |
| `ServicesAreSafe` | `ServicesSpec =>` the thirteen other safety invariants of the run |

`ServicesBehave` says that a behaviour of `MCServices` is one of each component, fairness
apart: a step of it is a step of the component that runs and leaves the variables
of the others alone. The theorems about the components then hold of it, and
the run checks on small instances what they state for all.

### What the proofs changed

Proof attempts that failed corrected the models: `StuckOnlyByLostUpdate` (section 3) and
`Categorised` (section 6) said more than the code does, which the instances of the runs were too
small to show; both were then restated, and TLC shows their counterexamples on three
items and on a list with a repeated category. `RequestThrottle` counted its admissions
per tick and added them up with a fold, which would have made the proof an induction
over data; it now keeps the sums (`recent`).

### Only model-checked

The liveness properties `ItemsResolve`, `RunEnds`, `GrowthEnds`, `DueIsServed`, `EventReaches` and
`CounterExpires`, because the prover does not reason about fairness and ENABLED; and the
five violations of the runs that expect one, which are counterexamples.

## 11. Plan

In this order:

1. That approved content stays for the stages with columns (`AiReview`), as a property, and its proof.
2. An abstract specification of a run of the pipeline (draft, score, publish) and the proof
   that `AiPipeline` implements it.
3. The scheduler composed with a crawl job, so that an executed job marked FAILED
   by a tick is visible; bulk edits of tools; retry and pause of workflow runs.
4. `scoreQuality` as a pure function, with the maximum it can reach without a summary.

## 12. Not modelled

* Language-model providers and their router, the crawler framework's fetching and
  extraction: HTTP clients and text. Their failures are rejected awaits of the models
  that call them. The crawler's rate limiter has state, but each adapter call of a job
  awaits it in sequence, so nothing races on it.
* Prompts, generated text, quality scores, pseudo-translation, duplicate similarity,
  search queries and ranking, SEO, GEO and ads: functions of data without shared
  state of their own.
* Authentication and roles: checks of a token or a key within one request.
* `apps/web` and `apps/admin`: pages that read and call the API.
* Other ways into the catalogue: the crawl that the API runs itself, the `crawler:run` command,
  the scripts under `scripts/`; of the auto-update, what it collects and the run
  reports it writes.
* Of the modelled services: listings, exports and bulk edits of tools, statistics of
  queues, management of crawl rules, templates of mails, workflow pause and resume.

Text, rendering and plain reads make up most of the repository, so the models map a
small share of its lines. What they map is code in which processes meet on the same
rows, where a test hardly reaches.
