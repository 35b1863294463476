----------------------------- MODULE ToolCatalog -----------------------------
(***************************************************************************)
(* Ways into the catalogue: normalize tasks of crawls                      *)
(* (apps/worker/src/crawl-runtime.ts), the import of a file and an editor  *)
(* who creates, changes and removes tools                                  *)
(* (apps/api/src/tools/tools.service.ts), and the daily auto-update        *)
(* (packages/auto-update/src/cli.ts).  The API's own crawl run, the        *)
(* crawler:run command and the scripts of scripts/ are not modelled.       *)
(*                                                                         *)
(* A crawl looks for a tool with the very website, in one statement, and   *)
(* creates one, in another, if there is none.  A batch, which is one run   *)
(* of an import or of the auto-update, compares all its records with all   *)
(* tools once, before it creates the first, and by the domain of the       *)
(* website.  An import also compares its records with one another; the     *)
(* auto-update compares their slugs only.  A record that cannot be created *)
(* ends the batch.  An editor is asked about the slug only.  The database  *)
(* accepts a slug once among the active tools; it does not look at         *)
(* websites.                                                               *)
(*                                                                         *)
(* A record is a slug and a website; name and slug stand for each other,   *)
(* and all websites are valid.  The publication of a created tool and what *)
(* follows (module GrowthLoop) is left out.                                *)
(***************************************************************************)
EXTENDS Naturals, Sequences

CONSTANTS
  Records,         \* records of tools
  Crawled,         \* those that crawls find
  SlugOf,          \* of each record: its slug
  SiteOf,          \* of each record: its website
  DomainOf,        \* of each website: its domain
  Batches,         \* runs of the import and of the auto-update
  Imports,         \* those of the import
  FileOf,          \* of each batch: its sequence of records
  NoEdit,          \* no request of the editor is under way
  MaxIngests,      \* executions of a normalize task before BullMQ gives it up
  MaxTurns         \* bound: requests of the editor, removals and faults, in all

Slugs == {SlugOf[r] : r \in Records}
Sites == {SiteOf[r] : r \in Records}

\* A request of the editor: to create a tool (0), or to change one.
Edit == [tool : Nat, slug : Slugs, site : Sites]

ASSUME CatalogAssumption ==
  /\ Crawled \subseteq Records /\ Records \intersect Batches = {}
  /\ {"crawl", "editor"} \intersect Batches = {}
  /\ DOMAIN SlugOf = Records /\ DOMAIN SiteOf = Records /\ DOMAIN DomainOf = Sites
  /\ Imports \subseteq Batches
  /\ FileOf \in [Batches -> Seq(Records)]
  /\ NoEdit \notin Edit
  /\ MaxIngests \in Nat \ {0}
  /\ MaxTurns \in Nat

VARIABLES
  tools,           \* the tools rows, and who gave each its website
  ingest,          \* of each record: its normalize task in the queue
  ipc,             \* of each record: the await its worker executes next
  ingests,         \* of each record: failed executions
  bpc,             \* of each batch: the await executed next
  skip,            \* of each batch: indices that it found duplicate
  row,             \* of each batch: the index of the record in hand
  editing,         \* the editor's request, or NoEdit
  turns,           \* requests of the editor, removals and faults still to come
  \* History:
  looks,           \* websites somebody has looked for and not yet created
  met              \* two of them looked for the same website at a time

catalogTask   == <<ingest, ipc, ingests>>
batch         == <<bpc, skip, row>>
catalog       == <<tools, catalogTask, batch, editing, turns, looks, met>>

Tool == [slug : Slugs, site : Sites,
         by : {"crawl", "editor"} \union Batches, deleted : BOOLEAN]

Live == {t \in DOMAIN tools : ~tools[t].deleted}
SlugUsed(slug) == \E t \in Live : tools[t].slug = slug
SiteUsed(site) == \E t \in Live : tools[t].site = site
DomainUsed(site) == \E t \in Live : DomainOf[tools[t].site] = DomainOf[site]

CatalogInit ==
  /\ tools = << >>
  /\ ingest = [r \in Crawled |-> "none"]
  /\ ipc = [r \in Crawled |-> "idle"]
  /\ ingests = [r \in Crawled |-> 0]
  /\ bpc = [b \in Batches |-> "none"]
  /\ skip = [b \in Batches |-> {}]
  /\ row = [b \in Batches |-> 0]
  /\ editing = NoEdit /\ turns = MaxTurns
  /\ looks = {} /\ met = FALSE

Spend == turns > 0 /\ turns' = turns - 1

\* tool.create: tools_slug_active_key refuses a slug that an active tool has.
Create(slug, site, by) ==
  /\ ~SlugUsed(slug)
  /\ tools' = Append(tools, [slug |-> slug, site |-> site, by |-> by, deleted |-> FALSE])

\* Somebody looks for websites and will create those it does not find.
Looks(who, sites) ==
  /\ looks' = looks \union ({who} \X sites)
  /\ met' = (met \/ \E s \in sites : \E l \in looks : l[1] # who /\ l[2] = s)
Looked(who) == looks' = {l \in looks : l[1] # who} /\ UNCHANGED met

-----------------------------------------------------------------------------
(* ingestDetailReturningToolId in a normalize task *)

IAt(r, p) == ingest[r] = "active" /\ ipc[r] = p
IngestGoto(r, p) == ipc' = [ipc EXCEPT ![r] = p]

IngestEnqueue(r) ==
  /\ ingest[r] = "none"
  /\ ingest' = [ingest EXCEPT ![r] = "waiting"]
  /\ UNCHANGED <<tools, ipc, ingests, batch, editing, turns, looks, met>>

IngestTake(r) ==
  /\ ingest[r] = "waiting"
  /\ ingest' = [ingest EXCEPT ![r] = "active"]
  /\ IngestGoto(r, "find")
  /\ UNCHANGED <<tools, ingests, batch, editing, turns, looks, met>>

\* findByWebsite.  (Mutant: findBySlug.)
FoundBySlug(r) == SlugUsed(SlugOf[r])
Found(r) == SiteUsed(SiteOf[r])

\* A tool that is found is updated, which changes neither slug nor website.
IngestFind(r) ==
  /\ IAt(r, "find")
  /\ IngestGoto(r, IF Found(r) THEN "update" ELSE "create")
  /\ IF Found(r) THEN UNCHANGED <<looks, met>> ELSE Looks(r, {SiteOf[r]})
  /\ UNCHANGED <<tools, ingest, ingests, batch, editing, turns>>

IngestUpdate(r) ==
  /\ IAt(r, "update")
  /\ IngestGoto(r, "follow")
  /\ UNCHANGED <<tools, ingest, ingests, batch, editing, turns, looks, met>>

IngestCreate(r) ==
  /\ IAt(r, "create")
  /\ Create(SlugOf[r], SiteOf[r], "crawl")
  /\ IngestGoto(r, "follow")
  /\ Looked(r)
  /\ UNCHANGED <<ingest, ingests, batch, editing, turns>>

IngestLeave(r, s) ==
  /\ ingest' = [ingest EXCEPT ![r] = s]
  /\ IngestGoto(r, "idle")
  /\ Looked(r)

\* The taxonomy, and the awaits of the worker after the tool is stored.
IngestDone(r) ==
  /\ IAt(r, "follow")
  /\ IngestLeave(r, "done")
  /\ UNCHANGED <<tools, ingests, batch, editing, turns>>

\* A later execution looks for the website again.
IngestThrow(r) ==
  /\ ingests' = [ingests EXCEPT ![r] = @ + 1]
  /\ IngestLeave(r, IF ingests'[r] < MaxIngests THEN "waiting" ELSE "dead")

IngestClash(r) ==
  /\ IAt(r, "create")
  /\ SlugUsed(SlugOf[r])
  /\ IngestThrow(r)
  /\ UNCHANGED <<tools, batch, editing, turns>>

IngestFault(r) ==
  /\ Spend
  /\ ingest[r] = "active"
  /\ IngestThrow(r)
  /\ UNCHANGED <<tools, batch, editing>>

-----------------------------------------------------------------------------
(* executeImport, and the auto-update: planCandidates and applySafeCreates *)

SlugAt(b, i) == SlugOf[FileOf[b][i]]
SiteAt(b, i) == SiteOf[FileOf[b][i]]

\* buildImportDiagnostics; matchExisting and the slugs seen in planCandidates.
Duplicate(b, i) ==
  \/ SlugUsed(SlugAt(b, i)) \/ DomainUsed(SiteAt(b, i))
  \/ \E j \in 1..(i - 1) :
       \/ SlugAt(b, j) = SlugAt(b, i)
       \/ b \in Imports /\ DomainOf[SiteAt(b, j)] = DomainOf[SiteAt(b, i)]

BatchAt(b, p) == bpc[b] = p
AtRecord(b) == row[b] \in DOMAIN FileOf[b] \ skip[b]

BatchStart(b) ==
  /\ BatchAt(b, "none")
  /\ skip' = [skip EXCEPT ![b] = {i \in DOMAIN FileOf[b] : Duplicate(b, i)}]
  /\ row' = [row EXCEPT ![b] = 1]
  /\ bpc' = [bpc EXCEPT ![b] = "next"]
  /\ Looks(b, {SiteAt(b, i) : i \in DOMAIN FileOf[b] \ skip'[b]})
  /\ UNCHANGED <<tools, catalogTask, editing, turns>>

BatchEnds(b) ==
  /\ bpc' = [bpc EXCEPT ![b] = "over"]
  /\ skip' = [skip EXCEPT ![b] = {}]
  /\ row' = [row EXCEPT ![b] = 0]
  /\ Looked(b)

BatchSkip(b) ==
  /\ BatchAt(b, "next") /\ row[b] \in skip[b]
  /\ row' = [row EXCEPT ![b] = @ + 1]
  /\ UNCHANGED <<tools, catalogTask, bpc, skip, editing, turns, looks, met>>

\* create calls ensureSlugAvailable first; the auto-update does not.
BatchSlug(b) ==
  /\ BatchAt(b, "next") /\ AtRecord(b)
  /\ b \in Imports => ~SlugUsed(SlugAt(b, row[b]))
  /\ bpc' = [bpc EXCEPT ![b] = "create"]
  /\ UNCHANGED <<tools, catalogTask, skip, row, editing, turns, looks, met>>

BatchCreate(b) ==
  /\ BatchAt(b, "create")
  /\ Create(SlugAt(b, row[b]), SiteAt(b, row[b]), b)
  /\ bpc' = [bpc EXCEPT ![b] = "next"]
  /\ row' = [row EXCEPT ![b] = @ + 1]
  /\ UNCHANGED <<catalogTask, skip, editing, turns, looks, met>>

\* Somebody took the slug since the comparison, or an import that is not to skip its
\* duplicates comes to one: the batch ends here.
BatchAbort(b) ==
  /\ \/ /\ BatchAt(b, "create") \/ (BatchAt(b, "next") /\ b \in Imports)
        /\ AtRecord(b)
        /\ SlugUsed(SlugAt(b, row[b]))
     \/ BatchAt(b, "next") /\ b \in Imports /\ row[b] \in skip[b]
  /\ BatchEnds(b)
  /\ UNCHANGED <<tools, catalogTask, editing, turns>>

BatchDone(b) ==
  /\ BatchAt(b, "next") /\ row[b] > Len(FileOf[b])
  /\ BatchEnds(b)
  /\ UNCHANGED <<tools, catalogTask, editing, turns>>

\* An await rejects, those after a creation among them, or the process dies.
BatchFault(b) ==
  /\ Spend
  /\ bpc[b] \in {"next", "create"}
  /\ BatchEnds(b)
  /\ UNCHANGED <<tools, catalogTask, editing>>

-----------------------------------------------------------------------------
(* An editor: create, update and remove of ToolsService *)

\* ensureSlugAvailable, where a tool that is changed may keep its slug.
EditorBegins ==
  /\ editing = NoEdit
  /\ Spend
  /\ \E tool \in {0} \union Live, slug \in Slugs, site \in Sites :
       /\ \A t \in Live : tools[t].slug = slug => t = tool
       /\ editing' = [tool |-> tool, slug |-> slug, site |-> site]
  /\ UNCHANGED <<tools, catalogTask, batch, looks, met>>

EditorCreate ==
  /\ editing # NoEdit /\ editing.tool = 0
  /\ Create(editing.slug, editing.site, "editor")
  /\ editing' = NoEdit
  /\ UNCHANGED <<catalogTask, batch, turns, looks, met>>

\* The slug was taken meanwhile.  A tool that was removed meanwhile is not active.
SlugRefused(edit) ==
  /\ edit.tool = 0 \/ edit.tool \in Live
  /\ \E t \in Live : t # edit.tool /\ tools[t].slug = edit.slug

EditorUpdate ==
  /\ editing # NoEdit /\ editing.tool # 0
  /\ ~SlugRefused(editing)
  /\ LET t == editing.tool
     IN tools' = [tools EXCEPT
          ![t].slug = editing.slug, ![t].site = editing.site,
          ![t].by = IF editing.site = tools[t].site THEN tools[t].by ELSE "editor"]
  /\ editing' = NoEdit
  /\ UNCHANGED <<catalogTask, batch, turns, looks, met>>

EditorRefused ==
  /\ editing # NoEdit
  /\ SlugRefused(editing)
  /\ editing' = NoEdit
  /\ UNCHANGED <<tools, catalogTask, batch, turns, looks, met>>

RemoveTool ==
  /\ Spend
  /\ \E t \in Live : tools' = [tools EXCEPT ![t].deleted = TRUE]
  /\ UNCHANGED <<catalogTask, batch, editing, looks, met>>

-----------------------------------------------------------------------------
CatalogQuiet ==
  /\ editing = NoEdit
  /\ \A b \in Batches : bpc[b] \in {"none", "over"}
  /\ \A r \in Crawled : ingest[r] \notin {"waiting", "active"}
CatalogRest == CatalogQuiet /\ UNCHANGED catalog

Ingest(r) ==
  \/ IngestEnqueue(r) \/ IngestTake(r) \/ IngestFind(r) \/ IngestUpdate(r)
  \/ IngestCreate(r) \/ IngestDone(r) \/ IngestClash(r)

RunBatch(b) ==
  \/ BatchStart(b) \/ BatchSkip(b) \/ BatchSlug(b) \/ BatchCreate(b)
  \/ BatchAbort(b) \/ BatchDone(b)

CatalogNext ==
  \/ \E r \in Crawled : Ingest(r) \/ IngestFault(r)
  \/ \E b \in Batches : RunBatch(b) \/ BatchFault(b)
  \/ EditorBegins \/ EditorCreate \/ EditorUpdate \/ EditorRefused \/ RemoveTool
  \/ CatalogRest

CatalogSpec == CatalogInit /\ [][CatalogNext]_catalog

-----------------------------------------------------------------------------
(* Properties *)

CatalogTypeOK ==
  /\ tools \in Seq(Tool)
  /\ ingest \in [Crawled -> {"none", "waiting", "active", "done", "dead"}]
  /\ ipc \in [Crawled -> {"idle", "find", "update", "create", "follow"}]
  /\ ingests \in [Crawled -> 0..MaxIngests]
  /\ bpc \in [Batches -> {"none", "next", "create", "over"}]
  /\ \A b \in Batches : skip[b] \subseteq DOMAIN FileOf[b]
                        /\ row[b] \in 0..(Len(FileOf[b]) + 1)
  /\ editing \in Edit \union {NoEdit} /\ turns \in 0..MaxTurns
  /\ editing # NoEdit => editing.tool \in {0} \union DOMAIN tools
  /\ looks \subseteq ((Crawled \union Batches) \X Sites)
  /\ met \in BOOLEAN

\* Crawls and batches, repeated or failing after a tool is stored, put one tool of a
\* website into the catalogue.  There are two only if they looked for it at the same
\* time, if an editor gave one of them its website, or if one auto-update brought
\* both; two tools of one import differ even in their domains.
SiteOnce ==
  \A s, t \in Live : s # t =>
    /\ ~met /\ tools[s].site = tools[t].site =>
         \/ "editor" \in {tools[s].by, tools[t].by}
         \/ tools[s].by = tools[t].by /\ tools[s].by \in Batches \ Imports
    /\ tools[s].by = tools[t].by /\ tools[s].by \in Imports =>
         DomainOf[tools[s].site] # DomainOf[tools[t].site]
=============================================================================
