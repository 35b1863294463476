----------------------------- MODULE CatalogProofs -----------------------------
(***************************************************************************)
(* Proofs about the components of the catalogue, one part for each:        *)
(* ToolVersions, ToolCatalog, Translations and CacheAside, for every set   *)
(* of editors, records and requests, every file of a batch, and any        *)
(* number of jobs, versions, ticks, failures and crashes.                  *)
(***************************************************************************)
EXTENDS ToolVersions, ToolCatalog, Translations, CacheAside, SequenceTheorems, TLAPS

-----------------------------------------------------------------------------
(* ToolVersions *)

\* What a request that has begun will write, as long as nobody asks for numbers:
\* a new version gets a number that is taken or the next one, an old one keeps its.
Intended(e) ==
  vpc[e] \in {"slug", "write"} =>
    IF vRow[e] = 0 THEN vNumber[e] \in 1..(Len(versions) + 1)
                   ELSE vNumber[e] = vRow[e]

OrderInv == NumbersInOrder /\ (~renamed => \A e \in Editors : Intended(e))

-----------------------------------------------------------------------------
LEMMA VersionsTyped ==
  ASSUME ToolVersionsTypeOK
  PROVE  /\ Len(versions) \in Nat
         /\ DOMAIN versions = 1..Len(versions)
         /\ \A v \in DOMAIN versions : versions[v] \in Version
BY DEF ToolVersionsTypeOK

LEMMA VersionsTypeInit == ToolVersionsInit => ToolVersionsTypeOK
<1> SUFFICES ASSUME ToolVersionsInit PROVE ToolVersionsTypeOK
  OBVIOUS
<1>1. versions \in Seq(Version) /\ Len(versions) = 0
  BY DEF ToolVersionsInit
<1>2. vRow \in [Editors -> 0..Len(versions)]
  BY <1>1 DEF ToolVersionsInit
<1> QED
  BY <1>1, <1>2 DEF ToolVersionsInit, ToolVersionsTypeOK

\* A request that is answered forgets what it was about.
LEMMA VersionAnswered ==
  ASSUME ToolVersionsTypeOK, NEW e \in Editors, Answer(e),
         versions' \in Seq(Version), Len(versions') >= Len(versions),
         UNCHANGED <<asked, renamed>>
  PROVE  ToolVersionsTypeOK'
<1>1. /\ vpc' = [vpc EXCEPT ![e] = "idle"] /\ vRow' = [vRow EXCEPT ![e] = 0]
      /\ vNumber' = [vNumber EXCEPT ![e] = 0] /\ vSlug' = [vSlug EXCEPT ![e] = 0]
  BY DEF Answer, VGoto
<1>2. Len(versions) \in Nat /\ Len(versions') \in Nat
  BY DEF ToolVersionsTypeOK
<1>3. vRow' \in [Editors -> 0..Len(versions')]
  BY <1>1, <1>2 DEF ToolVersionsTypeOK
<1>4. \A f \in Editors : vpc'[f] = "remove" => vRow'[f] # 0
  BY <1>1 DEF ToolVersionsTypeOK
<1> QED
  BY <1>1, <1>3, <1>4 DEF ToolVersionsTypeOK

\* The changes of the versions.
LEMMA Appended ==
  ASSUME ToolVersionsTypeOK, NEW new \in Version, versions' = Append(versions, new)
  PROVE  /\ versions' \in Seq(Version)
         /\ Len(versions') = Len(versions) + 1
         /\ \A v \in DOMAIN versions : versions'[v] = versions[v]
         /\ versions'[Len(versions) + 1] = new
BY DEF ToolVersionsTypeOK

LEMMA Replaced ==
  ASSUME ToolVersionsTypeOK, NEW r \in DOMAIN versions, NEW new \in Version,
         versions' = [versions EXCEPT ![r] = new]
  PROVE  /\ versions' \in Seq(Version)
         /\ Len(versions') = Len(versions)
         /\ \A v \in DOMAIN versions : versions'[v] = IF v = r THEN new ELSE versions[v]
BY DEF ToolVersionsTypeOK

LEMMA VersionsTypeStep ==
  ASSUME ToolVersionsTypeOK, [ToolVersionsNext]_toolVersions
  PROVE  ToolVersionsTypeOK'
<1> USE DEF ToolVersionsTypeOK
<1>0. /\ Len(versions) \in Nat /\ DOMAIN versions = 1..Len(versions)
      /\ \A v \in DOMAIN versions : versions[v] \in Version
  BY VersionsTyped
<1>1. ASSUME NEW e \in Editors, CreateRead(e) PROVE ToolVersionsTypeOK'
  <2>1. PICK n \in {0} \union {versions[v].number : v \in Active} :
          vNumber' = [vNumber EXCEPT ![e] = n + 1]
    BY <1>1 DEF CreateRead
  <2>2. n \in Nat
    BY <1>0 DEF Active, Version
  <2>3. vNumber' \in [Editors -> Nat] /\ vNumber'[e] \in Nat
    BY <2>1, <2>2
  <2>4. PICK slug \in Numbers \union {vNumber'[e]} : vSlug' = [vSlug EXCEPT ![e] = slug]
    BY <1>1 DEF CreateRead
  <2>5. vSlug' \in [Editors -> Nat]
    BY <2>3, <2>4, VersionAssumption DEF Numbers
  <2>6. renamed' \in BOOLEAN /\ asked' \in Nat
    BY <1>1 DEF CreateRead, Ask
  <2> QED
    BY <1>0, <1>1, <2>3, <2>5, <2>6 DEF CreateRead, VGoto
<1>2. ASSUME NEW e \in Editors, UpdateFind(e) PROVE ToolVersionsTypeOK'
  <2>1. PICK v \in Active, n \in Numbers, slug \in Numbers :
          /\ vRow' = [vRow EXCEPT ![e] = v]
          /\ vNumber' = [vNumber EXCEPT ![e] = n]
          /\ vSlug' = [vSlug EXCEPT ![e] = slug]
          /\ renamed' \in BOOLEAN
    BY <1>2 DEF UpdateFind
  <2>2. v \in 0..Len(versions) /\ n \in Nat /\ slug \in Nat
    BY <1>0, VersionAssumption DEF Active, Numbers
  <2> QED
    BY <1>2, <2>1, <2>2 DEF UpdateFind, Ask, VGoto
<1>3. ASSUME NEW e \in Editors, RemoveFind(e) PROVE ToolVersionsTypeOK'
  <2>1. PICK v \in Active : vRow' = [vRow EXCEPT ![e] = v]
    BY <1>3 DEF RemoveFind
  <2>2. v \in 1..Len(versions)
    BY <1>0 DEF Active
  <2> QED
    BY <1>0, <1>3, <2>1, <2>2 DEF RemoveFind, Ask, VGoto
<1>4. ASSUME NEW e \in Editors, SlugTaken(e) \/ SlugFound(e) \/ WriteRefused(e)
      PROVE  ToolVersionsTypeOK'
  <2>1. CASE SlugFound(e)
    BY <2>1 DEF SlugFound, VGoto
  <2>2. CASE SlugTaken(e) \/ WriteRefused(e)
    BY <1>0, <2>2, VersionAnswered DEF SlugTaken, WriteRefused, Refuse
  <2> QED
    BY <1>4, <2>1, <2>2
<1>5. ASSUME NEW e \in Editors, WriteCreate(e) PROVE ToolVersionsTypeOK'
  <2> DEFINE new == [number |-> vNumber[e], slug |-> vSlug[e], deleted |-> FALSE]
  <2>1. new \in Version
    BY DEF Version
  <2>2. versions' = Append(versions, new)
    BY <1>5 DEF WriteCreate
  <2> HIDE DEF new
  <2>3. versions' \in Seq(Version) /\ Len(versions') = Len(versions) + 1
    BY <2>1, <2>2, Appended
  <2> QED
    <3>1. Answer(e) /\ UNCHANGED <<asked, renamed>>
      BY <1>5 DEF WriteCreate
    <3>2. Len(versions') >= Len(versions)
      BY <1>0, <2>3
    <3> QED
      BY <2>3, <3>1, <3>2, VersionAnswered
<1>6. ASSUME NEW e \in Editors, WriteUpdate(e) \/ WriteRemove(e) PROVE ToolVersionsTypeOK'
  <2>1. vRow[e] \in DOMAIN versions
    BY <1>0, <1>6 DEF WriteUpdate, WriteRemove
  <2>2. \E new \in Version : versions' = [versions EXCEPT ![vRow[e]] = new]
    BY <1>0, <1>6, <2>1 DEF WriteUpdate, WriteRemove, Version
  <2>3. versions' \in Seq(Version) /\ Len(versions') = Len(versions)
    BY <2>1, <2>2, Replaced
  <2> QED
    BY <1>0, <1>6, <2>3, VersionAnswered DEF WriteUpdate, WriteRemove
<1>7. CASE UNCHANGED toolVersions
  BY <1>7 DEF toolVersions, request
<1> QED
  BY <1>1, <1>2, <1>3, <1>4, <1>5, <1>6, <1>7
     DEF ToolVersionsNext, ToolVersionsRest

\* The type invariant of the versions and of the requests about them.
THEOREM VersionsTypeCorrect == ToolVersionsSpec => []ToolVersionsTypeOK
BY VersionsTypeInit, VersionsTypeStep, PTL DEF ToolVersionsSpec

-----------------------------------------------------------------------------
LEMMA OrderInit == ToolVersionsInit => OrderInv
BY DEF ToolVersionsInit, OrderInv, NumbersInOrder, Intended

\* A request that leaves the versions alone and asks for nothing unusual.
LEMMA OrderAside ==
  ASSUME OrderInv, NEW e \in Editors, versions' = versions, ~renamed' => ~renamed,
         ~renamed' => Intended(e)',
         \A f \in Editors \ {e} :
           vpc'[f] = vpc[f] /\ vRow'[f] = vRow[f] /\ vNumber'[f] = vNumber[f]
  PROVE  OrderInv'
BY DEF OrderInv, NumbersInOrder, Intended

LEMMA OrderStep ==
  ASSUME ToolVersionsTypeOK, OrderInv, [ToolVersionsNext]_toolVersions
  PROVE  OrderInv'
<1> USE DEF ToolVersionsTypeOK
<1>0. /\ Len(versions) \in Nat /\ DOMAIN versions = 1..Len(versions)
      /\ \A v \in DOMAIN versions : versions[v] \in Version
  BY VersionsTyped
<1>1. ASSUME NEW e \in Editors, CreateRead(e) PROVE OrderInv'
  <2>1. PICK n \in {0} \union {versions[v].number : v \in Active} :
          vNumber' = [vNumber EXCEPT ![e] = n + 1]
    BY <1>1 DEF CreateRead
  <2>2. ~renamed => n \in 0..Len(versions)
    BY <1>0 DEF Active, OrderInv, NumbersInOrder
  <2>3. ~renamed' => ~renamed
    BY <1>1 DEF CreateRead
  <2>4. ~renamed' => Intended(e)'
    BY <1>0, <1>1, <2>1, <2>2, <2>3 DEF CreateRead, Intended
  <2> QED
    BY <1>1, <2>1, <2>3, <2>4, OrderAside DEF CreateRead, VGoto
<1>2. ASSUME NEW e \in Editors, UpdateFind(e) PROVE OrderInv'
  <2>1. PICK v \in Active, n \in Numbers :
          /\ vRow' = [vRow EXCEPT ![e] = v]
          /\ vNumber' = [vNumber EXCEPT ![e] = n]
          /\ ~renamed' => ~renamed /\ n = versions[v].number
    BY <1>2 DEF UpdateFind
  <2>2. ~renamed' => Intended(e)'
    BY <1>0, <2>1 DEF Intended, OrderInv, NumbersInOrder, Active
  <2> QED
    BY <1>2, <2>1, <2>2, OrderAside DEF UpdateFind, VGoto
<1>3. ASSUME NEW e \in Editors, RemoveFind(e) PROVE OrderInv'
  <2>1. Intended(e)'
    BY <1>3 DEF RemoveFind, VGoto, Intended
  <2> QED
    BY <1>3, <2>1, OrderAside DEF RemoveFind, VGoto
<1>4. ASSUME NEW e \in Editors, SlugTaken(e) \/ SlugFound(e) \/ WriteRefused(e)
      PROVE  OrderInv'
  <2>1. ~renamed' => Intended(e)'
    BY <1>4 DEF SlugTaken, SlugFound, WriteRefused, Refuse, Answer, VGoto, Intended,
                OrderInv
  <2> QED
    BY <1>4, <2>1, OrderAside
       DEF SlugTaken, SlugFound, WriteRefused, Refuse, Answer, VGoto
<1>5. ASSUME NEW e \in Editors, WriteCreate(e) PROVE OrderInv'
  <2> DEFINE new == [number |-> vNumber[e], slug |-> vSlug[e], deleted |-> FALSE]
  <2>1. new \in Version /\ new.number = vNumber[e]
    BY DEF Version
  <2>2. versions' = Append(versions, new)
    BY <1>5 DEF WriteCreate
  <2> HIDE DEF new
  <2>3. /\ Len(versions') = Len(versions) + 1
        /\ versions' \in Seq(Version)
        /\ \A v \in DOMAIN versions : versions'[v] = versions[v]
        /\ versions'[Len(versions) + 1] = new
    BY <2>1, <2>2, Appended
  <2>4. ~renamed => vNumber[e] = Len(versions) + 1
    <3> SUFFICES ASSUME ~renamed PROVE vNumber[e] = Len(versions) + 1
      OBVIOUS
    <3>1. vNumber[e] \in 1..(Len(versions) + 1)
      BY <1>5 DEF WriteCreate, OrderInv, Intended
    <3>a. vRow[e] = 0 /\ NumberFree(vRow[e], vNumber[e])
      BY <1>5 DEF WriteCreate, Accepted
    <3>b. DOMAIN versions \ {0} = 1..Len(versions)
      BY <1>0
    <3>2. \A v \in 1..Len(versions) : versions[v].number # vNumber[e]
      BY <3>a, <3>b, Zenon DEF NumberFree
    <3>3. \A v \in 1..Len(versions) : versions[v].number = v
      BY <1>0 DEF OrderInv, NumbersInOrder
    <3>4. vNumber[e] \notin 1..Len(versions)
      BY <3>2, <3>3
    <3> QED
      BY <1>0, <3>1, <3>4
  <2>5. NumbersInOrder'
    <3> SUFFICES ASSUME ~renamed, NEW v \in 1..(Len(versions) + 1)
                 PROVE  versions'[v].number = v
      BY <1>0, <1>5, <2>3 DEF NumbersInOrder, WriteCreate
    <3>1. CASE v = Len(versions) + 1
      BY <2>1, <2>3, <2>4, <3>1
    <3>2. CASE v \in 1..Len(versions)
      BY <1>0, <2>3, <3>2 DEF NumbersInOrder, OrderInv
    <3> QED
      BY <1>0, <3>1, <3>2
  <2>6. ASSUME ~renamed', NEW f \in Editors PROVE Intended(f)'
    BY <1>0, <1>5, <2>3, <2>6 DEF WriteCreate, Answer, VGoto, Intended, OrderInv
  <2> QED
    BY <2>5, <2>6 DEF OrderInv
<1>6. ASSUME NEW e \in Editors, WriteUpdate(e) \/ WriteRemove(e) PROVE OrderInv'
  <2>1. vRow[e] \in DOMAIN versions
    BY <1>0, <1>6 DEF WriteUpdate, WriteRemove
  <2>2. PICK new \in Version :
          /\ versions' = [versions EXCEPT ![vRow[e]] = new]
          /\ ~renamed => new.number = versions[vRow[e]].number
    <3>1. CASE WriteRemove(e)
      <4> [versions[vRow[e]] EXCEPT !.deleted = TRUE] \in Version
        BY <1>0, <2>1 DEF Version
      <4> WITNESS [versions[vRow[e]] EXCEPT !.deleted = TRUE] \in Version
      <4> QED
        BY <1>0, <2>1, <3>1 DEF WriteRemove, Version
    <3>2. CASE WriteUpdate(e)
      <4>1. ~renamed => vNumber[e] = versions[vRow[e]].number
        BY <1>0, <2>1, <3>2 DEF WriteUpdate, OrderInv, NumbersInOrder, Intended
      <4> [versions[vRow[e]] EXCEPT !.number = vNumber[e], !.slug = vSlug[e]] \in Version
        BY <1>0, <2>1 DEF Version
      <4> WITNESS [versions[vRow[e]] EXCEPT !.number = vNumber[e], !.slug = vSlug[e]]
                    \in Version
      <4> QED
        BY <1>0, <2>1, <3>2, <4>1 DEF WriteUpdate, Version
    <3> QED
      BY <1>6, <3>1, <3>2
  <2>3. /\ Len(versions') = Len(versions) /\ versions' \in Seq(Version)
        /\ \A v \in DOMAIN versions :
             versions'[v] = IF v = vRow[e] THEN new ELSE versions[v]
    BY <2>1, <2>2, Replaced
  <2>4. NumbersInOrder'
    BY <1>0, <1>6, <2>1, <2>2, <2>3 DEF WriteUpdate, WriteRemove, NumbersInOrder, OrderInv
  <2>5. ASSUME ~renamed', NEW f \in Editors PROVE Intended(f)'
    BY <1>0, <1>6, <2>3, <2>5 DEF WriteUpdate, WriteRemove, Answer, VGoto, Intended,
       OrderInv
  <2> QED
    BY <2>4, <2>5 DEF OrderInv
<1>7. CASE UNCHANGED toolVersions
  BY <1>7 DEF toolVersions, request, OrderInv, NumbersInOrder, Intended
<1> QED
  BY <1>1, <1>2, <1>3, <1>4, <1>5, <1>6, <1>7
     DEF ToolVersionsNext, ToolVersionsRest

\* As long as no request asks for a number, or for a slug that is not its number's,
\* versions are numbered in the order of their creation, for any number of concurrent
\* creates, updates and removals.
THEOREM VersionsInOrder == ToolVersionsSpec => []NumbersInOrder
<1>1. ToolVersionsTypeOK /\ OrderInv /\ [ToolVersionsNext]_toolVersions => OrderInv'
  BY OrderStep
<1>2. OrderInv => NumbersInOrder
  BY DEF OrderInv
<1> QED
  BY VersionsTypeCorrect, OrderInit, <1>1, <1>2, PTL DEF ToolVersionsSpec

-----------------------------------------------------------------------------
(* ToolCatalog *)

Running(b) == bpc[b] \in {"next", "create"}

\* A batch is at a record it did not find duplicate when it creates its tool; a task
\* is given up when its executions are used up.
BatchHolds ==
  /\ skip \in [Batches -> SUBSET Nat] /\ row \in [Batches -> Nat]
  /\ \A b \in Batches : bpc[b] = "create" => AtRecord(b)
  /\ \A r \in Crawled : ingest[r] # "dead" => ingests[r] < MaxIngests
CatalogTypeInv == CatalogTypeOK /\ BatchHolds

\* Whoever is about to create a tool has its website among those looked for, and
\* until two look for one website, only one does.
LooksInv ==
  /\ \A r \in Crawled : ipc[r] = "create" => <<r, SiteOf[r]>> \in looks
  /\ \A b \in Batches, i \in Nat :
       Running(b) /\ i \in DOMAIN FileOf[b] \ skip[b] => <<b, SiteAt(b, i)>> \in looks
  /\ ~met => \A l, m \in looks : l[2] = m[2] => l[1] = m[1]

\* Nobody but an editor, and the batch itself, has given a tool the website.
Vacant(site, who) == \A t \in Live : tools[t].site = site => tools[t].by \in {"editor", who}
VacantInv ==
  ~met =>
    /\ \A r \in Crawled : ipc[r] = "create" => Vacant(SiteOf[r], "editor")
    /\ \A b \in Batches, i \in Nat :
         Running(b) /\ i \in DOMAIN FileOf[b] \ skip[b] => Vacant(SiteAt(b, i), b)

\* What an import has still to create differs in its domain from what it created.
ImportInv ==
  /\ \A b \in Batches : bpc[b] = "none" => \A t \in DOMAIN tools : tools[t].by # b
  /\ \A b \in Imports : Running(b) =>
       \A i \in DOMAIN FileOf[b] \ skip[b] :
         /\ \A j \in DOMAIN FileOf[b] \ skip[b] :
              DomainOf[SiteAt(b, i)] = DomainOf[SiteAt(b, j)] => i = j
         /\ row[b] <= i => \A t \in Live : tools[t].by = b =>
                                            DomainOf[tools[t].site] # DomainOf[SiteAt(b, i)]

LEMMA CatalogTyped ==
  ASSUME CatalogTypeInv
  PROVE  /\ tools \in Seq(Tool) /\ Len(tools) \in Nat /\ DOMAIN tools = 1..Len(tools)
         /\ ingest \in [Crawled -> {"none", "waiting", "active", "done", "dead"}]
         /\ ipc \in [Crawled -> {"idle", "find", "update", "create", "follow"}]
         /\ ingests \in [Crawled -> 0..MaxIngests] /\ MaxIngests \in Nat
         /\ bpc \in [Batches -> {"none", "next", "create", "over"}]
         /\ skip \in [Batches -> SUBSET Nat] /\ row \in [Batches -> Nat]
         /\ looks \subseteq ((Crawled \union Batches) \X Sites) /\ met \in BOOLEAN
         /\ turns \in 0..MaxTurns /\ MaxTurns \in Nat
         /\ editing \in Edit \union {NoEdit}
BY CatalogAssumption DEF CatalogTypeInv, CatalogTypeOK, BatchHolds

LEMMA CatalogGiven ==
  /\ Crawled \subseteq Records /\ Imports \subseteq Batches
  /\ Crawled \intersect Batches = {} /\ "editor" \notin Batches /\ "crawl" \notin Batches
  /\ \A r \in Crawled : SlugOf[r] \in Slugs /\ SiteOf[r] \in Sites
  /\ \A b \in Batches :
       /\ Len(FileOf[b]) \in Nat /\ DOMAIN FileOf[b] = 1..Len(FileOf[b])
       /\ DOMAIN FileOf[b] \subseteq Nat
       /\ \A i \in DOMAIN FileOf[b] : SlugAt(b, i) \in Slugs /\ SiteAt(b, i) \in Sites
<1>1. /\ Crawled \subseteq Records /\ Imports \subseteq Batches
      /\ Crawled \intersect Batches = {} /\ "editor" \notin Batches /\ "crawl" \notin Batches
      /\ \A r \in Crawled : SlugOf[r] \in Slugs /\ SiteOf[r] \in Sites
  BY CatalogAssumption DEF Slugs, Sites
<1>2. ASSUME NEW b \in Batches
      PROVE  /\ Len(FileOf[b]) \in Nat /\ DOMAIN FileOf[b] = 1..Len(FileOf[b])
             /\ DOMAIN FileOf[b] \subseteq Nat
             /\ \A i \in DOMAIN FileOf[b] : SlugAt(b, i) \in Slugs /\ SiteAt(b, i) \in Sites
  <2>1. FileOf[b] \in Seq(Records)
    BY CatalogAssumption
  <2>2. \A i \in DOMAIN FileOf[b] : FileOf[b][i] \in Records
    BY <2>1
  <2> QED
    BY <2>1, <2>2 DEF SlugAt, SiteAt, Slugs, Sites
<1> QED
  BY <1>1, <1>2

\* A tool is added.
LEMMA ToolAdded ==
  ASSUME CatalogTypeInv, NEW slug \in Slugs, NEW site \in Sites,
         NEW by \in {"crawl", "editor"} \union Batches, Create(slug, site, by)
  PROVE  /\ tools' \in Seq(Tool) /\ DOMAIN tools' = 1..(Len(tools) + 1)
         /\ Live' = Live \union {Len(tools) + 1} /\ Live \subseteq DOMAIN tools
         /\ DOMAIN tools' = DOMAIN tools \union {Len(tools) + 1}
         /\ \A t \in DOMAIN tools : tools'[t] = tools[t]
         /\ tools'[Len(tools) + 1].site = site /\ tools'[Len(tools) + 1].by = by
<1> DEFINE new == [slug |-> slug, site |-> site, by |-> by, deleted |-> FALSE]
<1>1. tools \in Seq(Tool) /\ Len(tools) \in Nat /\ DOMAIN tools = 1..Len(tools)
  BY CatalogTyped
<1>2. new \in Tool /\ new.deleted = FALSE /\ new.site = site /\ new.by = by
  BY DEF Tool
<1>3. tools' = Append(tools, new)
  BY DEF Create
<1> HIDE DEF new
<1>4. /\ tools' \in Seq(Tool) /\ DOMAIN tools' = 1..(Len(tools) + 1)
      /\ \A t \in DOMAIN tools : tools'[t] = tools[t]
      /\ tools'[Len(tools) + 1] = new
  BY <1>1, <1>2, <1>3
<1>5. DOMAIN tools' = DOMAIN tools \union {Len(tools) + 1} /\ Live \subseteq DOMAIN tools
  BY <1>1, <1>4 DEF Live
<1>6. Live' = Live \union {Len(tools) + 1}
  BY <1>1, <1>2, <1>4, <1>5 DEF Live
<1> QED
  BY <1>2, <1>4, <1>5, <1>6

\* No tool is added: each keeps its website, or an editor gives it one.
NoneAdded ==
  /\ tools' \in Seq(Tool) /\ DOMAIN tools' = DOMAIN tools /\ Live' \subseteq Live
  /\ Live' \subseteq DOMAIN tools
  /\ \A t \in DOMAIN tools :
       \/ tools'[t].by = "editor"
       \/ tools'[t].by = tools[t].by /\ tools'[t].site = tools[t].site

LEMMA ToolsKept ==
  ASSUME CatalogTypeInv, UNCHANGED tools \/ EditorUpdate \/ RemoveTool
  PROVE  NoneAdded
<1>1. tools \in Seq(Tool) /\ Len(tools) \in Nat /\ DOMAIN tools = 1..Len(tools)
      /\ \A t \in DOMAIN tools : tools[t] \in Tool
  BY CatalogTyped
<1>2. CASE UNCHANGED tools
  BY <1>1, <1>2 DEF NoneAdded, Live
<1>3. ASSUME NEW u \in DOMAIN tools, NEW tool \in Tool, tools' = [tools EXCEPT ![u] = tool],
             tool.deleted = FALSE => tools[u].deleted = FALSE,
             tool.by = "editor" \/ (tool.by = tools[u].by /\ tool.site = tools[u].site)
      PROVE  NoneAdded
  <2>1. /\ tools' \in Seq(Tool) /\ DOMAIN tools' = DOMAIN tools
        /\ tools'[u] = tool /\ \A t \in DOMAIN tools \ {u} : tools'[t] = tools[t]
    BY <1>1, <1>3
  <2>2. /\ tools[u].deleted \in BOOLEAN /\ tool.deleted \in BOOLEAN
    BY <1>1, <1>3 DEF Tool
  <2>3. Live' \subseteq Live /\ Live' \subseteq DOMAIN tools
    BY <1>3, <2>1, <2>2 DEF Live
  <2> QED
    BY <1>3, <2>1, <2>3 DEF NoneAdded
<1>4. CASE RemoveTool
  <2>1. PICK u \in Live : tools' = [tools EXCEPT ![u].deleted = TRUE]
    BY <1>4 DEF RemoveTool
  <2> DEFINE tool == [tools[u] EXCEPT !.deleted = TRUE]
  <2>2. u \in DOMAIN tools /\ tools[u] \in Tool
    BY <1>1, <2>1 DEF Live
  <2>3. tool \in Tool /\ tool.deleted = TRUE /\ tool.by = tools[u].by /\ tool.site = tools[u].site
    BY <2>2 DEF Tool
  <2>4. tools' = [tools EXCEPT ![u] = tool]
    BY <2>1
  <2> HIDE DEF tool
  <2> QED
    BY <1>3, <2>2, <2>3, <2>4
<1>5. CASE EditorUpdate
  <2> DEFINE u == editing.tool
             by == IF editing.site = tools[u].site THEN tools[u].by ELSE "editor"
             tool == [tools[u] EXCEPT !.slug = editing.slug, !.site = editing.site, !.by = by]
  <2>1. /\ u \in DOMAIN tools /\ tools[u] \in Tool
        /\ editing.slug \in Slugs /\ editing.site \in Sites
    BY <1>1, <1>5 DEF EditorUpdate, CatalogTypeInv, CatalogTypeOK, Edit
  <2>2. /\ tool \in Tool /\ tool.deleted = tools[u].deleted
        /\ tool.by = by /\ tool.site = editing.site
    BY <2>1 DEF Tool
  <2>3. tools' = [tools EXCEPT ![u] = tool]
    BY <1>5 DEF EditorUpdate
  <2>4. by = "editor" \/ (by = tools[u].by /\ editing.site = tools[u].site)
    OBVIOUS
  <2> HIDE DEF u, tool, by
  <2> QED
    BY <1>3, <2>1, <2>2, <2>3, <2>4
<1> QED
  BY <1>2, <1>4, <1>5

LEMMA CatalogTypeInit == CatalogInit => CatalogTypeInv
<1> SUFFICES ASSUME CatalogInit PROVE CatalogTypeInv
  OBVIOUS
<1>1. /\ tools \in Seq(Tool)
      /\ 0 \in 0..MaxIngests /\ 0 < MaxIngests /\ MaxTurns \in 0..MaxTurns
  BY CatalogAssumption DEF CatalogInit
<1>2. /\ ingest \in [Crawled -> {"none", "waiting", "active", "done", "dead"}]
      /\ ipc \in [Crawled -> {"idle", "find", "update", "create", "follow"}]
      /\ ingests \in [Crawled -> 0..MaxIngests]
      /\ bpc \in [Batches -> {"none", "next", "create", "over"}]
      /\ \A b \in Batches : bpc[b] = "none" /\ skip[b] = {} /\ row[b] = 0
      /\ skip \in [Batches -> SUBSET Nat] /\ row \in [Batches -> Nat]
  BY <1>1 DEF CatalogInit
<1>3. \A b \in Batches : skip[b] \subseteq DOMAIN FileOf[b] /\ row[b] \in 0..(Len(FileOf[b]) + 1)
  BY <1>2, CatalogGiven
<1>4. CatalogTypeOK
  BY <1>1, <1>2, <1>3 DEF CatalogInit, CatalogTypeOK
<1>5. BatchHolds
  BY <1>1, <1>2 DEF CatalogInit, BatchHolds
<1> QED
  BY <1>4, <1>5 DEF CatalogTypeInv

LEMMA LooksTyped ==
  ASSUME CatalogTypeInv, NEW who \in Crawled \union Batches, NEW sites \in SUBSET Sites,
         Looks(who, sites) \/ Looked(who) \/ UNCHANGED <<looks, met>>
  PROVE  looks' \subseteq ((Crawled \union Batches) \X Sites) /\ met' \in BOOLEAN
BY CatalogTyped DEF Looks, Looked

\* A tool that is changed is one of the rows, and stays one.
LEMMA EditingKept ==
  ASSUME CatalogTypeInv, tools' \in Seq(Tool), DOMAIN tools \subseteq DOMAIN tools',
         editing' \in {editing, NoEdit}
  PROVE  /\ editing' \in Edit \union {NoEdit}
         /\ editing' # NoEdit => editing'.tool \in {0} \union DOMAIN tools'
BY DEF CatalogTypeInv, CatalogTypeOK

LEMMA TypeOfIngest ==
  ASSUME CatalogTypeInv, NEW r \in Crawled, Ingest(r) \/ IngestFault(r)
  PROVE  CatalogTypeInv'
<1>0. /\ CatalogTypeOK /\ BatchHolds /\ MaxIngests \in Nat /\ MaxTurns \in Nat
      /\ SlugOf[r] \in Slugs /\ SiteOf[r] \in Sites
  BY CatalogTyped, CatalogGiven DEF CatalogTypeInv
<1>1. UNCHANGED <<bpc, skip, row, editing>> /\ turns' \in 0..MaxTurns
  BY <1>0 DEF Ingest, IngestFault, IngestEnqueue, IngestTake, IngestFind, IngestUpdate,
              IngestCreate, IngestDone, IngestClash, Spend, batch, CatalogTypeOK
<1>2. looks' \subseteq ((Crawled \union Batches) \X Sites) /\ met' \in BOOLEAN
  <2>1. {SiteOf[r]} \in SUBSET Sites
    BY <1>0
  <2>2. Looks(r, {SiteOf[r]}) \/ Looked(r) \/ UNCHANGED <<looks, met>>
    BY DEF Ingest, IngestFault, IngestEnqueue, IngestTake, IngestFind, IngestUpdate,
           IngestCreate, IngestDone, IngestClash, IngestThrow, IngestLeave
  <2> QED
    BY <2>1, <2>2, LooksTyped
<1>3. tools' \in Seq(Tool) /\ DOMAIN tools \subseteq DOMAIN tools'
  <2>1. CASE UNCHANGED tools
    BY <1>0, <2>1 DEF CatalogTypeOK
  <2>2. CASE IngestCreate(r)
    BY <1>0, <2>2, ToolAdded DEF IngestCreate
  <2> QED
    BY <2>1, <2>2 DEF Ingest, IngestFault, IngestEnqueue, IngestTake, IngestFind,
       IngestUpdate, IngestDone, IngestClash
<1>4. /\ ingest' \in [Crawled -> {"none", "waiting", "active", "done", "dead"}]
      /\ ipc' \in [Crawled -> {"idle", "find", "update", "create", "follow"}]
      /\ ingests' \in [Crawled -> 0..MaxIngests]
      /\ \A q \in Crawled : ingest'[q] # "dead" => ingests'[q] < MaxIngests
  <2> USE DEF IngestGoto, IAt, catalogTask
  <2>1. CASE IngestEnqueue(r) \/ IngestTake(r)
    BY <1>0, <2>1 DEF IngestEnqueue, IngestTake, CatalogTypeOK, BatchHolds
  <2>2. CASE IngestFind(r) \/ IngestUpdate(r)
    BY <1>0, <2>2 DEF IngestFind, IngestUpdate, CatalogTypeOK, BatchHolds
  <2>3. CASE IngestCreate(r) \/ IngestDone(r)
    BY <1>0, <2>3 DEF IngestCreate, IngestDone, IngestLeave, CatalogTypeOK, BatchHolds
  <2>4. CASE IngestClash(r) \/ IngestFault(r)
    <3>1. /\ ingest[r] = "active" /\ ingests' = [ingests EXCEPT ![r] = ingests[r] + 1]
          /\ ingest' = [ingest EXCEPT ![r] = IF ingests'[r] < MaxIngests THEN "waiting" ELSE "dead"]
          /\ ipc' = [ipc EXCEPT ![r] = "idle"]
      BY <2>4 DEF IngestClash, IngestFault, IngestThrow, IngestLeave
    <3>2. ingests[r] \in 0..MaxIngests /\ ingests[r] < MaxIngests
      BY <1>0, <3>1 DEF CatalogTypeOK, BatchHolds
    <3>3. ingests'[r] = ingests[r] + 1 /\ ingests[r] + 1 \in 0..MaxIngests
      BY <1>0, <3>1, <3>2 DEF CatalogTypeOK
    <3> QED
      BY <1>0, <3>1, <3>2, <3>3 DEF CatalogTypeOK, BatchHolds
  <2> QED
    BY <2>1, <2>2, <2>3, <2>4 DEF Ingest
<1>5. CatalogTypeOK'
  BY <1>0, <1>1, <1>2, <1>3, <1>4, EditingKept DEF CatalogTypeOK
<1>6. BatchHolds'
  BY <1>0, <1>1, <1>4 DEF BatchHolds, AtRecord
<1> QED
  BY <1>5, <1>6 DEF CatalogTypeInv

LEMMA TypeOfBatch ==
  ASSUME CatalogTypeInv, NEW b \in Batches, RunBatch(b) \/ BatchFault(b)
  PROVE  CatalogTypeInv'
<1>0. /\ CatalogTypeOK /\ BatchHolds /\ MaxTurns \in Nat
      /\ Len(FileOf[b]) \in Nat /\ DOMAIN FileOf[b] = 1..Len(FileOf[b])
      /\ \A i \in DOMAIN FileOf[b] : SlugAt(b, i) \in Slugs /\ SiteAt(b, i) \in Sites
      /\ bpc \in [Batches -> {"none", "next", "create", "over"}]
      /\ skip \in [Batches -> SUBSET Nat] /\ row \in [Batches -> Nat]
  BY CatalogTyped, CatalogGiven DEF CatalogTypeInv
<1> USE DEF BatchAt, BatchEnds
<1>1. UNCHANGED <<ingest, ipc, ingests, editing>> /\ turns' \in 0..MaxTurns
  BY <1>0 DEF RunBatch, BatchFault, BatchStart, BatchSkip, BatchSlug, BatchCreate,
              BatchAbort, BatchDone, Spend, catalogTask, CatalogTypeOK
<1>2. looks' \subseteq ((Crawled \union Batches) \X Sites) /\ met' \in BOOLEAN
  <2>1. CASE BatchStart(b)
    <3> DEFINE sites == {SiteAt(b, i) : i \in DOMAIN FileOf[b] \ skip'[b]}
    <3>1. sites \in SUBSET Sites /\ Looks(b, sites)
      BY <1>0, <2>1 DEF BatchStart
    <3> HIDE DEF sites
    <3> QED
      BY <3>1, LooksTyped
  <2>2. CASE Looked(b) \/ UNCHANGED <<looks, met>>
    BY <2>2, LooksTyped
  <2> QED
    BY <2>1, <2>2 DEF RunBatch, BatchFault, BatchSkip, BatchSlug, BatchCreate, BatchAbort,
                      BatchDone
<1>3. tools' \in Seq(Tool) /\ DOMAIN tools \subseteq DOMAIN tools'
  <2>1. CASE UNCHANGED tools
    BY <1>0, <2>1 DEF CatalogTypeOK
  <2>2. CASE BatchCreate(b)
    <3>1. row[b] \in DOMAIN FileOf[b]
      BY <1>0, <2>2 DEF BatchCreate, BatchHolds, AtRecord
    <3> QED
      BY <1>0, <2>2, <3>1, ToolAdded DEF BatchCreate
  <2> QED
    BY <2>1, <2>2 DEF RunBatch, BatchFault, BatchStart, BatchSkip, BatchSlug, BatchAbort,
                      BatchDone
<1>4. /\ bpc' \in [Batches -> {"none", "next", "create", "over"}]
      /\ skip' \in [Batches -> SUBSET Nat] /\ row' \in [Batches -> Nat]
      /\ skip'[b] \subseteq DOMAIN FileOf[b] /\ row'[b] \in 0..(Len(FileOf[b]) + 1)
      /\ bpc'[b] = "create" => row'[b] \in DOMAIN FileOf[b] \ skip'[b]
      /\ \A c \in Batches \ {b} : bpc'[c] = bpc[c] /\ skip'[c] = skip[c] /\ row'[c] = row[c]
  <2>0. skip[b] \subseteq DOMAIN FileOf[b] /\ row[b] \in 0..(Len(FileOf[b]) + 1)
    BY <1>0 DEF CatalogTypeOK
  <2>1. CASE BatchStart(b)
    <3>1. {i \in DOMAIN FileOf[b] : Duplicate(b, i)} \in SUBSET Nat
      BY <1>0
    <3>2. skip'[b] = {i \in DOMAIN FileOf[b] : Duplicate(b, i)}
      BY <1>0, <2>1 DEF BatchStart
    <3> QED
      BY <1>0, <2>1, <3>1, <3>2 DEF BatchStart
  <2>2. CASE BatchSkip(b)
    <3>1. row[b] + 1 \in 0..(Len(FileOf[b]) + 1) /\ row[b] + 1 \in Nat
      BY <1>0, <2>0, <2>2 DEF BatchSkip
    <3> QED
      BY <1>0, <2>0, <2>2, <3>1 DEF BatchSkip
  <2>3. CASE BatchSlug(b)
    BY <1>0, <2>0, <2>3 DEF BatchSlug, AtRecord
  <2>4. CASE BatchCreate(b)
    <3>1. row[b] + 1 \in 0..(Len(FileOf[b]) + 1) /\ row[b] + 1 \in Nat
      BY <1>0, <2>0, <2>4 DEF BatchCreate, BatchHolds, AtRecord
    <3> QED
      BY <1>0, <2>0, <2>4, <3>1 DEF BatchCreate
  <2>5. CASE BatchEnds(b)
    BY <1>0, <2>5
  <2> QED
    BY <2>1, <2>2, <2>3, <2>4, <2>5 DEF RunBatch, BatchFault, BatchAbort, BatchDone
<1>5. CatalogTypeOK'
  BY <1>0, <1>1, <1>2, <1>3, <1>4, EditingKept DEF CatalogTypeOK
<1>6. BatchHolds'
  BY <1>0, <1>1, <1>4 DEF BatchHolds, AtRecord
<1> QED
  BY <1>5, <1>6 DEF CatalogTypeInv

LEMMA CatalogTypeStep ==
  ASSUME CatalogTypeInv, [CatalogNext]_catalog PROVE CatalogTypeInv'
<1>0. CatalogTypeOK /\ BatchHolds /\ MaxTurns \in Nat
  BY CatalogTyped DEF CatalogTypeInv
<1>1. CASE \/ EditorBegins \/ EditorCreate \/ EditorUpdate \/ EditorRefused \/ RemoveTool
           \/ UNCHANGED catalog
  <2>1. UNCHANGED <<ingest, ipc, ingests, bpc, skip, row, looks, met>>
        /\ turns' \in 0..MaxTurns
    BY <1>0, <1>1 DEF EditorBegins, EditorCreate, EditorUpdate, EditorRefused, RemoveTool,
                      Spend, catalog, catalogTask, batch, CatalogTypeOK
  <2>2. tools' \in Seq(Tool) /\ DOMAIN tools \subseteq DOMAIN tools'
    <3>1. CASE EditorCreate
      <4>1. editing.slug \in Slugs /\ editing.site \in Sites
        BY <1>0, <3>1 DEF EditorCreate, CatalogTypeOK, Edit
      <4> QED
        BY <3>1, <4>1, ToolAdded DEF EditorCreate
    <3>2. CASE UNCHANGED tools \/ EditorUpdate \/ RemoveTool
      BY <3>2, ToolsKept DEF NoneAdded
    <3> QED
      BY <1>1, <3>1, <3>2 DEF EditorBegins, EditorRefused, catalog
  <2>3. /\ editing' \in Edit \union {NoEdit}
        /\ editing' # NoEdit => editing'.tool \in {0} \union DOMAIN tools'
    <3>1. CASE EditorBegins
      <4>1. PICK tool \in {0} \union Live, slug \in Slugs, site \in Sites :
              editing' = [tool |-> tool, slug |-> slug, site |-> site]
        BY <3>1 DEF EditorBegins
      <4>2. tool \in {0} \union DOMAIN tools /\ tool \in Nat /\ UNCHANGED tools
        BY <3>1, <4>1, CatalogTyped DEF Live, EditorBegins
      <4> QED
        BY <4>1, <4>2 DEF Edit
    <3>2. CASE editing' \in {editing, NoEdit}
      BY <2>2, <3>2, EditingKept
    <3> QED
      BY <1>1, <3>1, <3>2 DEF EditorCreate, EditorUpdate, EditorRefused, RemoveTool, catalog
  <2>4. CatalogTypeOK'
    BY <1>0, <2>1, <2>2, <2>3 DEF CatalogTypeOK
  <2>5. BatchHolds'
    BY <1>0, <2>1 DEF BatchHolds, AtRecord
  <2> QED
    BY <2>4, <2>5 DEF CatalogTypeInv
<1> QED
  BY <1>1, TypeOfIngest, TypeOfBatch DEF CatalogNext, CatalogRest

\* The type invariant of the catalogue, of the tasks that ingest, the batches and the
\* editor's request.
THEOREM CatalogTypeCorrect == CatalogSpec => []CatalogTypeOK
<1>1. CatalogTypeInv /\ [CatalogNext]_catalog => CatalogTypeInv'
  BY CatalogTypeStep
<1>2. CatalogTypeInv => CatalogTypeOK
  BY DEF CatalogTypeInv
<1> QED
  BY CatalogTypeInit, <1>1, <1>2, PTL DEF CatalogSpec

-----------------------------------------------------------------------------
(* One tool of a website *)

\* Whoever looks alone is alone afterwards; a look is kept until it is over.
LEMMA LooksAlone ==
  ASSUME CatalogTypeInv, LooksInv, NEW who, NEW sites,
         Looks(who, sites) \/ Looked(who) \/ UNCHANGED <<looks, met>>
  PROVE  /\ ~met' => ~met /\ \A l, m \in looks' : l[2] = m[2] => l[1] = m[1]
         /\ \A l \in looks : l[1] # who => l \in looks'
         /\ ~Looked(who) => looks \subseteq looks'
<1>1. met \in BOOLEAN /\ (~met => \A l, m \in looks : l[2] = m[2] => l[1] = m[1])
  BY CatalogTyped DEF LooksInv
<1>2. CASE Looks(who, sites)
  <2>1. \A l \in looks' : l \in looks \/ (l[1] = who /\ l[2] \in sites)
    BY <1>2 DEF Looks
  <2>2. ~met' => ~met /\ \A l \in looks : l[2] \in sites => l[1] = who
    BY <1>1, <1>2 DEF Looks
  <2> QED
    BY <1>1, <1>2, <2>1, <2>2 DEF Looks
<1>3. CASE Looked(who)
  BY <1>1, <1>3 DEF Looked
<1>4. CASE UNCHANGED <<looks, met>>
  BY <1>1, <1>4
<1> QED
  BY <1>2, <1>3, <1>4

\* What changes of whoever looks: a task of a crawl, ...
LEMMA CrawlLooks ==
  ASSUME CatalogTypeInv, NEW r \in Crawled, Ingest(r) \/ IngestFault(r)
  PROVE  /\ UNCHANGED batch
         /\ \A q \in Crawled \ {r} : ipc'[q] = ipc[q]
         /\ \/ UNCHANGED <<looks, met>> /\ (ipc'[r] = "create" => ipc[r] = "create")
            \/ Looks(r, {SiteOf[r]}) /\ UNCHANGED tools /\ ~SiteUsed(SiteOf[r])
            \/ Looked(r) /\ ipc'[r] # "create"
<1> USE DEF IAt, IngestGoto
<1>1. ipc \in [Crawled -> {"idle", "find", "update", "create", "follow"}]
  BY CatalogTyped
<1>2. CASE IngestEnqueue(r) \/ IngestTake(r) \/ IngestFind(r) \/ IngestUpdate(r)
  BY <1>1, <1>2 DEF IngestEnqueue, IngestTake, IngestFind, IngestUpdate, Found
<1>3. CASE IngestCreate(r) \/ IngestDone(r) \/ IngestClash(r) \/ IngestFault(r)
  BY <1>1, <1>3 DEF IngestCreate, IngestDone, IngestClash, IngestFault, IngestThrow,
                    IngestLeave
<1> QED
  BY <1>2, <1>3 DEF Ingest

\* ... and a batch, which looks when it starts and only goes on to the next record then.
GoesOn(b) ==
  Running(b)' => Running(b) /\ skip'[b] = skip[b] /\ row'[b] \in {row[b], row[b] + 1}

LEMMA BatchLooks ==
  ASSUME CatalogTypeInv, NEW b \in Batches, RunBatch(b) \/ BatchFault(b)
  PROVE  /\ UNCHANGED ipc /\ bpc'[b] # "none"
         /\ \A c \in Batches \ {b} :
              bpc'[c] = bpc[c] /\ skip'[c] = skip[c] /\ row'[c] = row[c]
         /\ ~BatchStart(b) => GoesOn(b)
         /\ ~BatchStart(b) => (UNCHANGED <<looks, met>> \/ (Looked(b) /\ ~Running(b)'))
<1>1. /\ bpc \in [Batches -> {"none", "next", "create", "over"}]
      /\ skip \in [Batches -> SUBSET Nat] /\ row \in [Batches -> Nat]
  BY CatalogTyped
<1> USE DEF BatchAt, Running, GoesOn, catalogTask
<1>2. CASE BatchStart(b)
  BY <1>1, <1>2 DEF BatchStart
<1>3. CASE BatchSkip(b) \/ BatchSlug(b)
  BY <1>1, <1>3 DEF BatchSkip, BatchSlug
<1>4. CASE BatchCreate(b)
  BY <1>1, <1>4 DEF BatchCreate
<1>5. CASE BatchAbort(b) \/ BatchDone(b) \/ BatchFault(b)
  BY <1>1, <1>5 DEF BatchAbort, BatchDone, BatchFault, BatchEnds
<1> QED
  BY <1>2, <1>3, <1>4, <1>5 DEF RunBatch

LEMMA LooksStep ==
  ASSUME CatalogTypeInv, LooksInv, [CatalogNext]_catalog
  PROVE  LooksInv' /\ (~met' => ~met)
<1>0. /\ ipc \in [Crawled -> {"idle", "find", "update", "create", "follow"}]
      /\ Crawled \intersect Batches = {} /\ met \in BOOLEAN
      /\ \A r \in Crawled : ipc[r] = "create" => <<r, SiteOf[r]>> \in looks
      /\ \A b \in Batches, i \in Nat :
           Running(b) /\ i \in DOMAIN FileOf[b] \ skip[b] => <<b, SiteAt(b, i)>> \in looks
      /\ ~met => \A l, m \in looks : l[2] = m[2] => l[1] = m[1]
  BY CatalogTyped, CatalogGiven DEF LooksInv
<1>1. ASSUME NEW r \in Crawled, Ingest(r) \/ IngestFault(r)
      PROVE  LooksInv' /\ (~met' => ~met)
  <2>1. /\ UNCHANGED <<bpc, skip>>
        /\ \A q \in Crawled \ {r} : ipc'[q] = ipc[q]
        /\ \/ UNCHANGED <<looks, met>> /\ (ipc'[r] = "create" => ipc[r] = "create")
           \/ Looks(r, {SiteOf[r]})
           \/ Looked(r) /\ ipc'[r] # "create"
    BY <1>1, CrawlLooks DEF batch
  <2>2. /\ ~met' => ~met /\ \A l, m \in looks' : l[2] = m[2] => l[1] = m[1]
        /\ \A l \in looks : l[1] # r => l \in looks'
    BY <2>1, LooksAlone
  <2>3. ipc'[r] = "create" => <<r, SiteOf[r]>> \in looks'
    BY <1>0, <2>1 DEF Looks
  <2>4. \A q \in Crawled : ipc'[q] = "create" => <<q, SiteOf[q]>> \in looks'
    BY <1>0, <2>1, <2>2, <2>3
  <2>5. \A b \in Batches, i \in Nat :
          Running(b)' /\ i \in DOMAIN FileOf[b] \ skip'[b] => <<b, SiteAt(b, i)>> \in looks'
    BY <1>0, <2>1, <2>2 DEF Running
  <2> QED
    BY <2>2, <2>4, <2>5 DEF LooksInv, SiteAt
<1>2. ASSUME NEW b \in Batches, RunBatch(b) \/ BatchFault(b)
      PROVE  LooksInv' /\ (~met' => ~met)
  <2>1. /\ UNCHANGED ipc
        /\ \A c \in Batches \ {b} : bpc'[c] = bpc[c] /\ skip'[c] = skip[c]
    BY <1>2, BatchLooks
  <2>2. /\ ~met' => ~met /\ \A l, m \in looks' : l[2] = m[2] => l[1] = m[1]
        /\ \A l \in looks : l[1] # b => l \in looks'
    <3>1. CASE BatchStart(b)
      <4>1. Looks(b, {SiteAt(b, i) : i \in DOMAIN FileOf[b] \ skip'[b]})
        BY <3>1 DEF BatchStart
      <4> DEFINE sites == {SiteAt(b, i) : i \in DOMAIN FileOf[b] \ skip'[b]}
      <4>2. Looks(b, sites)
        BY <4>1
      <4> HIDE DEF sites
      <4> QED
        BY <4>2, LooksAlone
    <3>2. CASE ~BatchStart(b)
      BY <1>2, <3>2, BatchLooks, LooksAlone
    <3> QED
      BY <3>1, <3>2
  <2>3. \A q \in Crawled : ipc'[q] = "create" => <<q, SiteOf[q]>> \in looks'
    BY <1>0, <2>1, <2>2
  <2>4. ASSUME NEW i \in Nat, Running(b)', i \in DOMAIN FileOf[b] \ skip'[b]
        PROVE  <<b, SiteAt(b, i)>> \in looks'
    <3>1. CASE BatchStart(b)
      <4>1. looks' = looks \union ({b} \X {SiteAt(b, j) : j \in DOMAIN FileOf[b] \ skip'[b]})
        BY <3>1 DEF BatchStart, Looks
      <4>2. SiteAt(b, i) \in {SiteAt(b, j) : j \in DOMAIN FileOf[b] \ skip'[b]}
        BY <2>4
      <4> QED
        BY <4>1, <4>2
    <3>2. CASE ~BatchStart(b)
      <4>1. UNCHANGED <<looks, met>> /\ Running(b) /\ skip'[b] = skip[b]
        BY <1>2, <2>4, <3>2, BatchLooks DEF GoesOn
      <4> QED
        BY <1>0, <2>4, <4>1
    <3> QED
      BY <3>1, <3>2
  <2>5. \A c \in Batches, i \in Nat :
          Running(c)' /\ i \in DOMAIN FileOf[c] \ skip'[c] => <<c, SiteAt(c, i)>> \in looks'
    <3>1. \A c \in Batches \ {b} : Running(c)' => Running(c)
      BY <2>1 DEF Running
    <3> QED
      BY <1>0, <2>1, <2>2, <2>4, <3>1
  <2> QED
    BY <2>2, <2>3, <2>5 DEF LooksInv, SiteAt
<1>3. CASE \/ EditorBegins \/ EditorCreate \/ EditorUpdate \/ EditorRefused \/ RemoveTool
           \/ UNCHANGED catalog
  <2>1. UNCHANGED <<looks, met, skip, bpc, ipc>>
    BY <1>3 DEF EditorBegins, EditorCreate, EditorUpdate, EditorRefused, RemoveTool,
                catalog, catalogTask, batch
  <2> QED
    BY <1>0, <2>1 DEF LooksInv, Running, SiteAt
<1> QED
  BY <1>1, <1>2, <1>3 DEF CatalogNext, CatalogRest

\* A website stays vacant until somebody else than an editor creates a tool of it, ...
LEMMA VacantKept ==
  ASSUME NoneAdded, NEW site, NEW who, Vacant(site, who)
  PROVE  Vacant(site, who)'
BY DEF NoneAdded, Vacant, Live

LEMMA VacantAdded ==
  ASSUME CatalogTypeInv, NEW slug \in Slugs, NEW new \in Sites,
         NEW by \in {"crawl", "editor"} \union Batches, Create(slug, new, by),
         NEW site, NEW who, Vacant(site, who), new # site \/ by \in {"editor", who}
  PROVE  Vacant(site, who)'
<1>1. /\ Live' = Live \union {Len(tools) + 1} /\ \A t \in Live : tools'[t] = tools[t]
      /\ tools'[Len(tools) + 1].site = new /\ tools'[Len(tools) + 1].by = by
  BY ToolAdded
<1> QED
  BY <1>1 DEF Vacant

\* ... and the tools of one import stay apart as long as nothing but an editor's change
\* touches them.
LEMMA ImportKept ==
  ASSUME CatalogTypeInv, ImportInv, NoneAdded,
         \A b \in Batches : (bpc'[b] = "none" => bpc[b] = "none") /\ GoesOn(b)
  PROVE  ImportInv'
<1>0. /\ Imports \subseteq Batches /\ "editor" \notin Batches
      /\ row \in [Batches -> Nat]
      /\ \A b \in Batches : DOMAIN FileOf[b] \subseteq Nat
  BY CatalogTyped, CatalogGiven
<1>1. ASSUME NEW b \in Batches, bpc'[b] = "none", NEW t \in DOMAIN tools' PROVE tools'[t].by # b
  BY <1>0, <1>1 DEF ImportInv, NoneAdded
<1>2. ASSUME NEW b \in Imports, Running(b)', NEW i \in DOMAIN FileOf[b] \ skip'[b]
      PROVE  /\ \A j \in DOMAIN FileOf[b] \ skip'[b] :
                  DomainOf[SiteAt(b, i)] = DomainOf[SiteAt(b, j)] => i = j
             /\ row'[b] <= i => \A t \in Live' : tools'[t].by = b =>
                                  DomainOf[tools'[t].site] # DomainOf[SiteAt(b, i)]
  <2>1. /\ Running(b) /\ skip'[b] = skip[b] /\ row'[b] \in {row[b], row[b] + 1}
        /\ i \in Nat /\ row[b] \in Nat
    BY <1>0, <1>2 DEF GoesOn
  <2>2. row'[b] <= i => row[b] <= i
    BY <2>1
  <2>3. \A j \in DOMAIN FileOf[b] \ skip[b] :
          DomainOf[SiteAt(b, i)] = DomainOf[SiteAt(b, j)] => i = j
    BY <1>2, <2>1 DEF ImportInv
  <2>4. row[b] <= i => \A t \in Live : tools[t].by = b =>
                         DomainOf[tools[t].site] # DomainOf[SiteAt(b, i)]
    BY <1>2, <2>1 DEF ImportInv
  <2>5. \A t \in Live' : tools'[t].by = b =>
          t \in Live /\ tools[t].by = b /\ tools'[t].site = tools[t].site
    BY <1>0 DEF NoneAdded
  <2> QED
    BY <2>1, <2>2, <2>3, <2>4, <2>5
<1> QED
  BY <1>1, <1>2 DEF ImportInv, SiteAt

\* A tool that somebody else creates is none of the import's.
LEMMA ImportAside ==
  ASSUME CatalogTypeInv, ImportInv, NEW slug \in Slugs, NEW site \in Sites,
         NEW by \in {"crawl", "editor"}, Create(slug, site, by), UNCHANGED batch
  PROVE  ImportInv'
<1>1. /\ Live' = Live \union {Len(tools) + 1} /\ DOMAIN tools' = DOMAIN tools \union {Len(tools) + 1}
      /\ Live \subseteq DOMAIN tools
      /\ \A t \in DOMAIN tools : tools'[t] = tools[t]
      /\ tools'[Len(tools) + 1].by = by
      /\ by \notin Batches /\ Imports \subseteq Batches
  BY ToolAdded, CatalogGiven
<1>2. \A b \in Batches : bpc'[b] = "none" => \A t \in DOMAIN tools' : tools'[t].by # b
  BY <1>1 DEF ImportInv, batch
<1>3. \A b \in Imports : \A t \in Live' : tools'[t].by = b => t \in Live /\ tools'[t] = tools[t]
  BY <1>1
<1> QED
  BY <1>2, <1>3 DEF ImportInv, Running, SiteAt, batch

LEMMA OnceKept ==
  ASSUME CatalogTypeInv, SiteOnce, NoneAdded, ~met' => ~met
  PROVE  SiteOnce'
<1>1. "editor" \notin Batches /\ Imports \subseteq Batches
  BY CatalogGiven
<1>2. ASSUME NEW s \in Live', NEW t \in Live', s # t,
             tools'[s].by # "editor", tools'[t].by # "editor"
      PROVE  /\ s \in Live /\ tools'[s].by = tools[s].by /\ tools'[s].site = tools[s].site
             /\ t \in Live /\ tools'[t].by = tools[t].by /\ tools'[t].site = tools[t].site
  BY <1>2 DEF NoneAdded
<1> QED
  BY <1>1, <1>2 DEF SiteOnce

\* The tool that is added is the second of its website to an editor's only, or to
\* another of the same auto-update.
LEMMA OnceAdded ==
  ASSUME CatalogTypeInv, SiteOnce, NEW slug \in Slugs, NEW site \in Sites,
         NEW by \in {"crawl", "editor"} \union Batches, Create(slug, site, by),
         ~met' => ~met,
         ~met => by = "editor" \/ Vacant(site, IF by = "crawl" THEN "editor" ELSE by),
         by \in Imports => \A t \in Live : tools[t].by = by =>
                                             DomainOf[tools[t].site] # DomainOf[site]
  PROVE  SiteOnce'
<1> DEFINE new == Len(tools) + 1
           Apart(s, t) ==
             /\ ~met' /\ tools'[s].site = tools'[t].site =>
                  \/ "editor" \in {tools'[s].by, tools'[t].by}
                  \/ tools'[s].by = tools'[t].by /\ tools'[s].by \in Batches \ Imports
             /\ tools'[s].by = tools'[t].by /\ tools'[s].by \in Imports =>
                  DomainOf[tools'[s].site] # DomainOf[tools'[t].site]
<1>1. /\ Live' = Live \union {new} /\ \A t \in Live : tools'[t] = tools[t]
      /\ tools'[new].site = site /\ tools'[new].by = by
  BY ToolAdded DEF Live
<1>2. "crawl" \notin Batches /\ "editor" \notin Batches /\ Imports \subseteq Batches
  BY CatalogGiven
<1>3. \A s, t \in Live : s # t => Apart(s, t)
  BY <1>1 DEF SiteOnce
<1>4. ASSUME NEW t \in Live PROVE Apart(t, new) /\ Apart(new, t)
  <2>1. ~met' /\ tools[t].site = site =>
          \/ "editor" \in {tools[t].by, by}
          \/ tools[t].by = by /\ by \in Batches
    BY DEF Vacant
  <2>2. tools[t].by = by /\ by \in Imports => DomainOf[tools[t].site] # DomainOf[site]
    OBVIOUS
  <2>3. tools[t].site = site => DomainOf[tools[t].site] = DomainOf[site]
    OBVIOUS
  <2>4. /\ ~met' /\ tools[t].site = site =>
             "editor" \in {tools[t].by, by} \/ (tools[t].by = by /\ by \in Batches \ Imports)
        /\ tools[t].by = by /\ by \in Imports => DomainOf[tools[t].site] # DomainOf[site]
    BY <2>1, <2>2, <2>3
  <2> QED
    BY <1>1, <2>4
<1>5. \A s, t \in Live \union {new} : s # t => Apart(s, t)
  BY <1>3, <1>4
<1> QED
  BY <1>1, <1>5 DEF SiteOnce

Single == CatalogTypeInv /\ LooksInv /\ VacantInv /\ ImportInv /\ SiteOnce

LEMMA SingleOfIngest ==
  ASSUME Single, NEW r \in Crawled, Ingest(r) \/ IngestFault(r), ~met' => ~met
  PROVE  VacantInv' /\ ImportInv' /\ SiteOnce'
<1>0. /\ CatalogTypeInv /\ LooksInv /\ VacantInv /\ ImportInv /\ SiteOnce
      /\ ipc \in [Crawled -> {"idle", "find", "update", "create", "follow"}]
      /\ Crawled \intersect Batches = {}
      /\ \A q \in Crawled : SlugOf[q] \in Slugs /\ SiteOf[q] \in Sites
  BY CatalogTyped, CatalogGiven DEF Single
<1>1. UNCHANGED batch /\ \A q \in Crawled \ {r} : ipc'[q] = ipc[q]
  BY <1>0, CrawlLooks
<1>2. CASE IngestCreate(r)
  <2>1. /\ Create(SlugOf[r], SiteOf[r], "crawl") /\ ipc[r] = "create" /\ ipc'[r] # "create"
    BY <1>0, <1>2 DEF IngestCreate, IAt, IngestGoto
  <2>2. <<r, SiteOf[r]>> \in looks
    BY <1>0, <2>1 DEF LooksInv
  <2>3. SiteOnce'
    <3>1. ~met => Vacant(SiteOf[r], "editor")
      BY <1>0, <2>1 DEF VacantInv
    <3> QED
      BY <1>0, <2>1, <3>1, CatalogGiven, OnceAdded
  <2>4. ImportInv'
    BY <1>0, <1>1, <2>1, ImportAside
  <2>5. \A site, who : SiteOf[r] # site /\ Vacant(site, who) => Vacant(site, who)'
    BY <1>0, <2>1, VacantAdded
  <2>6. ASSUME ~met, NEW q \in Crawled, ipc'[q] = "create" PROVE Vacant(SiteOf[q], "editor")'
    <3>1. q # r /\ ipc[q] = "create"
      BY <1>1, <2>1, <2>6
    <3>2. SiteOf[r] # SiteOf[q]
      BY <1>0, <2>2, <2>6, <3>1 DEF LooksInv
    <3> QED
      BY <1>0, <2>5, <2>6, <3>1, <3>2 DEF VacantInv
  <2>7. ASSUME ~met, NEW b \in Batches, NEW i \in Nat, Running(b), i \in DOMAIN FileOf[b] \ skip[b]
        PROVE  Vacant(SiteAt(b, i), b)'
    <3>1. <<b, SiteAt(b, i)>> \in looks /\ b # r
      BY <1>0, <2>7 DEF LooksInv
    <3>2. SiteOf[r] # SiteAt(b, i)
      BY <1>0, <2>2, <2>7, <3>1 DEF LooksInv
    <3>3. Vacant(SiteAt(b, i), b)
      BY <1>0, <2>7 DEF VacantInv
    <3> HIDE DEF SiteAt
    <3> QED
      BY <2>5, <3>2, <3>3 DEF SiteAt
  <2> QED
    BY <1>0, <1>1, <2>3, <2>4, <2>6, <2>7 DEF VacantInv, Running, SiteAt, batch
<1>3. CASE ~IngestCreate(r)
  <2>1. UNCHANGED tools
    BY <1>3 DEF Ingest, IngestFault, IngestEnqueue, IngestTake, IngestFind, IngestUpdate,
                IngestDone, IngestClash
  <2>2. NoneAdded /\ \A b \in Batches : bpc'[b] = bpc[b] /\ GoesOn(b)
    BY <1>0, <1>1, <2>1, ToolsKept DEF GoesOn, Running, batch
  <2>3. SiteOnce' /\ ImportInv'
    BY <1>0, <2>2, OnceKept, ImportKept
  <2>4. \A site, who : Vacant(site, who) => Vacant(site, who)'
    BY <2>2, VacantKept
  <2>5. ipc'[r] = "create" => ipc[r] = "create" \/ ~SiteUsed(SiteOf[r])
    BY <1>0, CrawlLooks
  <2>6. ~SiteUsed(SiteOf[r]) => Vacant(SiteOf[r], "editor")
    BY DEF SiteUsed, Vacant
  <2>7. ~met => \A q \in Crawled : ipc'[q] = "create" => Vacant(SiteOf[q], "editor")
    BY <1>0, <1>1, <2>5, <2>6 DEF VacantInv
  <2> QED
    BY <1>0, <1>1, <2>3, <2>4, <2>7 DEF VacantInv, Running, SiteAt, batch
<1> QED
  BY <1>2, <1>3

LEMMA SingleOfBatch ==
  ASSUME Single, NEW b \in Batches, RunBatch(b) \/ BatchFault(b), ~met' => ~met
  PROVE  VacantInv' /\ ImportInv' /\ SiteOnce'
<1>0. /\ CatalogTypeInv /\ LooksInv /\ VacantInv /\ ImportInv /\ SiteOnce
      /\ Crawled \intersect Batches = {} /\ Imports \subseteq Batches
      /\ "editor" \notin Batches /\ "crawl" \notin Batches
      /\ bpc \in [Batches -> {"none", "next", "create", "over"}]
      /\ skip \in [Batches -> SUBSET Nat] /\ row \in [Batches -> Nat]
      /\ Len(FileOf[b]) \in Nat /\ DOMAIN FileOf[b] = 1..Len(FileOf[b])
      /\ \A i \in DOMAIN FileOf[b] : SlugAt(b, i) \in Slugs /\ SiteAt(b, i) \in Sites
  BY CatalogTyped, CatalogGiven DEF Single
<1>1. /\ UNCHANGED ipc /\ bpc'[b] # "none"
      /\ \A c \in Batches \ {b} : bpc'[c] = bpc[c] /\ skip'[c] = skip[c] /\ row'[c] = row[c]
      /\ ~BatchStart(b) => GoesOn(b)
  BY <1>0, BatchLooks
<1>2. \A c \in Batches \ {b} : GoesOn(c) /\ (Running(c)' => Running(c))
  BY <1>1 DEF GoesOn, Running
<1>3. CASE BatchCreate(b)
  <2> DEFINE new == SiteAt(b, row[b])
  <2>1. /\ Create(SlugAt(b, row[b]), new, b) /\ row[b] \in DOMAIN FileOf[b] \ skip[b]
        /\ Running(b) /\ skip'[b] = skip[b] /\ row'[b] = row[b] + 1
    BY <1>0, <1>3 DEF BatchCreate, BatchAt, Running, CatalogTypeInv, BatchHolds, AtRecord
  <2>2. new \in Sites /\ SlugAt(b, row[b]) \in Slugs /\ row[b] \in Nat
    BY <1>0, <2>1
  <2>3. <<b, new>> \in looks
    BY <1>0, <2>1, <2>2 DEF LooksInv
  <2>4. /\ ~met => Vacant(new, b)
        /\ b \in Imports => \A t \in Live : tools[t].by = b =>
                              DomainOf[tools[t].site] # DomainOf[new]
    BY <1>0, <2>1, <2>2 DEF VacantInv, ImportInv
  <2>5. \A i \in DOMAIN FileOf[b] \ skip[b] : b \in Imports /\ i # row[b] =>
          DomainOf[new] # DomainOf[SiteAt(b, i)]
    BY <1>0, <2>1 DEF ImportInv
  <2> HIDE DEF new
  <2>6. SiteOnce'
    BY <1>0, <2>1, <2>2, <2>4, OnceAdded
  <2>7. \A site, who : (new # site \/ who = b) /\ Vacant(site, who) => Vacant(site, who)'
    BY <1>0, <2>1, <2>2, VacantAdded
  <2>8. VacantInv'
    <3>1. ASSUME ~met, NEW q \in Crawled, ipc[q] = "create" PROVE Vacant(SiteOf[q], "editor")'
      <4>1. <<q, SiteOf[q]>> \in looks /\ q # b
        BY <1>0, <3>1 DEF LooksInv
      <4>2. new # SiteOf[q]
        BY <1>0, <2>3, <3>1, <4>1 DEF LooksInv
      <4> QED
        BY <1>0, <2>7, <3>1, <4>2 DEF VacantInv
    <3>2. ASSUME ~met, NEW c \in Batches, NEW i \in Nat, Running(c)',
                 i \in DOMAIN FileOf[c] \ skip'[c]
          PROVE  Vacant(SiteAt(c, i), c)'
      <4>1. Running(c) /\ skip'[c] = skip[c]
        BY <1>1, <1>2, <2>1, <3>2
      <4>2. <<c, SiteAt(c, i)>> \in looks /\ Vacant(SiteAt(c, i), c)
        BY <1>0, <3>2, <4>1 DEF LooksInv, VacantInv
      <4>3. c # b => new # SiteAt(c, i)
        BY <1>0, <2>3, <3>2, <4>2 DEF LooksInv
      <4> QED
        BY <2>7, <4>2, <4>3 DEF SiteAt
    <3> QED
      BY <1>0, <1>1, <3>1, <3>2 DEF VacantInv, SiteAt
  <2>9. ImportInv'
    <3>1. /\ Live' = Live \union {Len(tools) + 1} /\ \A t \in DOMAIN tools : tools'[t] = tools[t]
          /\ DOMAIN tools' = DOMAIN tools \union {Len(tools) + 1} /\ Live \subseteq DOMAIN tools
          /\ tools'[Len(tools) + 1].site = new /\ tools'[Len(tools) + 1].by = b
      BY <1>0, <2>1, <2>2, ToolAdded
    <3>2. \A c \in Batches : bpc'[c] = "none" => \A t \in DOMAIN tools' : tools'[t].by # c
      BY <1>0, <1>1, <3>1 DEF ImportInv
    <3>3. ASSUME NEW c \in Imports, Running(c)', NEW i \in DOMAIN FileOf[c] \ skip'[c]
          PROVE  /\ \A j \in DOMAIN FileOf[c] \ skip'[c] :
                      DomainOf[SiteAt(c, i)] = DomainOf[SiteAt(c, j)] => i = j
                 /\ row'[c] <= i => \A t \in Live' : tools'[t].by = c =>
                                      DomainOf[tools'[t].site] # DomainOf[SiteAt(c, i)]
      <4>1. Running(c) /\ skip'[c] = skip[c]
        BY <1>0, <1>1, <1>2, <2>1, <3>3
      <4>2. \A j \in DOMAIN FileOf[c] \ skip[c] :
              DomainOf[SiteAt(c, i)] = DomainOf[SiteAt(c, j)] => i = j
        BY <1>0, <3>3, <4>1 DEF ImportInv
      <4>3. row[c] <= i => \A t \in Live : tools[t].by = c =>
                             DomainOf[tools[t].site] # DomainOf[SiteAt(c, i)]
        BY <1>0, <3>3, <4>1 DEF ImportInv
      <4>4. CASE c = b
        <5>1. row'[b] <= i => i # row[b] /\ row[b] <= i
          BY <1>0, <2>1, <2>2, <3>3, <4>1, <4>4
        <5>2. row'[b] <= i => DomainOf[new] # DomainOf[SiteAt(b, i)]
          BY <2>5, <3>3, <4>1, <4>4, <5>1
        <5> QED
          BY <3>1, <4>1, <4>2, <4>3, <4>4, <5>1, <5>2
      <4>5. CASE c # b
        BY <1>0, <1>1, <3>1, <4>1, <4>2, <4>3, <4>5
      <4> QED
        BY <4>4, <4>5
    <3> QED
      BY <3>2, <3>3 DEF ImportInv, SiteAt
  <2> QED
    BY <2>6, <2>8, <2>9
<1>4. CASE ~BatchCreate(b)
  <2>1. UNCHANGED tools
    BY <1>4 DEF RunBatch, BatchFault, BatchStart, BatchSkip, BatchSlug, BatchAbort, BatchDone
  <2>2. NoneAdded
    BY <1>0, <2>1, ToolsKept
  <2>3. SiteOnce'
    BY <1>0, <2>2, OnceKept
  <2>4. \A site, who : Vacant(site, who) => Vacant(site, who)'
    BY <2>2, VacantKept
  <2>5. CASE BatchStart(b)
    <3>1. skip'[b] = {i \in DOMAIN FileOf[b] : Duplicate(b, i)} /\ bpc[b] = "none"
      BY <1>0, <2>5 DEF BatchStart, BatchAt
    <3>2. ASSUME NEW i \in DOMAIN FileOf[b] \ skip'[b]
          PROVE  /\ ~SiteUsed(SiteAt(b, i))
                 /\ b \in Imports => \A j \in 1..(i - 1) :
                                       DomainOf[SiteAt(b, j)] # DomainOf[SiteAt(b, i)]
      BY <3>1 DEF Duplicate, DomainUsed, SiteUsed
    <3>3. \A i \in DOMAIN FileOf[b] \ skip'[b] : Vacant(SiteAt(b, i), b)
      BY <3>2 DEF SiteUsed, Vacant
    <3>4. VacantInv'
      <4>1. ASSUME ~met, NEW c \in Batches, NEW i \in Nat, Running(c)',
                   i \in DOMAIN FileOf[c] \ skip'[c]
            PROVE  Vacant(SiteAt(c, i), c)
        BY <1>0, <1>1, <1>2, <3>3, <4>1 DEF VacantInv
      <4> QED
        BY <1>0, <1>1, <2>4, <4>1 DEF VacantInv, SiteAt
    <3>5. ImportInv'
      <4>1. ASSUME b \in Imports, NEW i \in DOMAIN FileOf[b] \ skip'[b],
                   NEW j \in DOMAIN FileOf[b] \ skip'[b], i # j
            PROVE  DomainOf[SiteAt(b, i)] # DomainOf[SiteAt(b, j)]
        <5>1. i \in 1..(j - 1) \/ j \in 1..(i - 1)
          BY <1>0, <4>1
        <5> QED
          BY <3>2, <4>1, <5>1
      <4>2. \A t \in DOMAIN tools : tools[t].by # b
        BY <1>0, <3>1 DEF ImportInv
      <4>3. Live' = Live /\ Live \subseteq DOMAIN tools
        BY <2>1 DEF Live
      <4> QED
        BY <1>0, <1>1, <1>2, <2>1, <4>1, <4>2, <4>3 DEF ImportInv, SiteAt
    <3> QED
      BY <2>3, <3>4, <3>5
  <2>6. CASE ~BatchStart(b)
    <3>1. \A c \in Batches : (bpc'[c] = "none" => bpc[c] = "none") /\ GoesOn(c)
      BY <1>1, <1>2, <2>6
    <3>2. ImportInv'
      BY <1>0, <2>2, <3>1, ImportKept
    <3>3. VacantInv'
      BY <1>0, <1>1, <2>4, <3>1 DEF VacantInv, GoesOn, SiteAt
    <3> QED
      BY <2>3, <3>2, <3>3
  <2> QED
    BY <2>5, <2>6
<1> QED
  BY <1>3, <1>4

LEMMA SingleStep == Single /\ [CatalogNext]_catalog => Single'
<1> SUFFICES ASSUME Single, [CatalogNext]_catalog PROVE Single'
  OBVIOUS
<1>0. CatalogTypeInv /\ LooksInv /\ VacantInv /\ ImportInv /\ SiteOnce
  BY DEF Single
<1>1. CatalogTypeInv' /\ LooksInv' /\ (~met' => ~met)
  BY <1>0, CatalogTypeStep, LooksStep
<1>2. CASE \/ EditorBegins \/ EditorCreate \/ EditorUpdate \/ EditorRefused \/ RemoveTool
           \/ UNCHANGED catalog
  <2>1. UNCHANGED <<ipc, bpc, skip, row>> /\ UNCHANGED batch
    BY <1>2 DEF EditorBegins, EditorCreate, EditorUpdate, EditorRefused, RemoveTool,
                catalog, catalogTask, batch
  <2>2. /\ SiteOnce' /\ ImportInv'
        /\ \A site : \A who \in {"editor"} \union Batches : Vacant(site, who) => Vacant(site, who)'
    <3>1. CASE EditorCreate
      <4>1. /\ Create(editing.slug, editing.site, "editor")
            /\ editing.slug \in Slugs /\ editing.site \in Sites
        BY <1>0, <3>1 DEF EditorCreate, CatalogTypeInv, CatalogTypeOK, Edit
      <4>2. SiteOnce'
        BY <1>0, <1>1, <4>1, CatalogGiven, OnceAdded
      <4>3. ImportInv'
        BY <1>0, <2>1, <4>1, ImportAside
      <4> QED
        BY <1>0, <4>1, <4>2, <4>3, VacantAdded
    <3>2. CASE UNCHANGED tools \/ EditorUpdate \/ RemoveTool
      <4>1. NoneAdded
        BY <1>0, <3>2, ToolsKept
      <4>2. \A b \in Batches : bpc'[b] = bpc[b] /\ GoesOn(b)
        BY <2>1 DEF GoesOn, Running
      <4> QED
        BY <1>0, <1>1, <4>1, <4>2, OnceKept, ImportKept, VacantKept
    <3> QED
      BY <1>2, <3>1, <3>2 DEF EditorBegins, EditorRefused, catalog
  <2>3. VacantInv'
    BY <1>0, <1>1, <2>1, <2>2 DEF VacantInv, Running, SiteAt
  <2> QED
    BY <1>1, <2>2, <2>3 DEF Single
<1> QED
  BY <1>1, <1>2, SingleOfIngest, SingleOfBatch DEF CatalogNext, CatalogRest, Single

\* ingestTool and the batches look for a website and then create its tool: two tools of
\* one website come only from looks at the same time, from an editor, or from one
\* auto-update; two of one import differ in their domains.
THEOREM OneToolPerSite == CatalogSpec => []SiteOnce
<1>1. CatalogInit => Single
  <2> SUFFICES ASSUME CatalogInit PROVE Single
    OBVIOUS
  <2>1. Live = {} /\ DOMAIN tools = {}
    BY DEF CatalogInit, Live
  <2>2. /\ looks = {} /\ \A r \in Crawled : ipc[r] # "create"
        /\ \A b \in Batches : ~Running(b)
    BY DEF CatalogInit, Running
  <2>3. Imports \subseteq Batches
    BY CatalogGiven
  <2>4. LooksInv /\ VacantInv /\ ImportInv /\ SiteOnce
    BY <2>1, <2>2, <2>3 DEF LooksInv, VacantInv, ImportInv, SiteOnce
  <2> QED
    BY <2>4, CatalogTypeInit DEF Single
<1>2. Single => SiteOnce
  BY DEF Single
<1> QED
  BY <1>1, <1>2, SingleStep, PTL DEF CatalogSpec

-----------------------------------------------------------------------------
(* Translations *)

\* A worker executes active tasks only and holds the text it has read until it leaves; a
\* task is given up when its executions are used up.
WorkerHolds ==
  \A j \in TrIds :
    /\ trpc[j] # "idle" => trTask[j] = "active"
    /\ trText[j] # 0 <=> trpc[j] \notin {"idle", "run", "read"}
    /\ trTask[j] # "dead" => trFails[j] < MaxExecutions
TranslationsTypeInv == TranslationsTypeOK /\ WorkerHolds

\* A translation that is not published will be published by a task, or one was given up;
\* and only what was written succeeds.
Unfinished == \E j \in TrIds : trTask[j] \in {"waiting", "active", "dead"}
PublishInv ==
  /\ translation.status = "AI_GENERATED" => Unfinished
  /\ translation.status = "none" =>
       /\ \A j \in TrIds : trpc[j] \notin {"update", "succeed", "publish"}
       /\ \A j \in DOMAIN trJobs : trJobs[j] # "SUCCEEDED"

\* While no jobs overlap, the one that holds a text has read it last, and what it has
\* written is still there.
NewestInv ==
  ~alongside =>
    /\ \A i, j \in TrIds : trText[i] # 0 /\ trText[j] # 0 => i = j
    /\ \A j \in TrIds : trText[j] # 0 => trText[j] = newest
    /\ \A j \in TrIds : trpc[j] \in {"succeed", "publish"} => translation.text = newest
    /\ translation.text = newest \/ Unfinished

LEMMA TranslationsTyped ==
  ASSUME TranslationsTypeInv
  PROVE  /\ text \in 1..MaxTexts /\ MaxTexts \in Nat /\ translation \in Translation
         /\ trJobs \in Seq({"PENDING", "RUNNING", "SUCCEEDED"})
         /\ Len(trJobs) \in Nat /\ Len(trJobs) <= MaxJobs /\ MaxJobs \in Nat
         /\ DOMAIN trJobs = 1..Len(trJobs)
         /\ trTask \in [TrIds -> TrTasks] /\ trpc \in [TrIds -> TrPcs]
         /\ trText \in [TrIds -> 0..MaxTexts] /\ trFails \in [TrIds -> 0..MaxExecutions]
         /\ MaxExecutions \in Nat /\ lapses \in 0..MaxLapses /\ MaxLapses \in Nat
         /\ newest \in 0..MaxTexts /\ alongside \in BOOLEAN
BY TranslationAssumption DEF TranslationsTypeInv, TranslationsTypeOK

LEMMA TranslationsTypeInit == TranslationsInit => TranslationsTypeInv
<1> SUFFICES ASSUME TranslationsInit PROVE TranslationsTypeInv
  OBVIOUS
<1>1. /\ 0 \in 0..MaxTexts /\ 0 \in 0..MaxExecutions /\ 0 \in 0..MaxLapses
      /\ 1 \in 1..MaxTexts /\ 0 < MaxExecutions /\ 0 <= MaxJobs
  BY TranslationAssumption
<1>2. translation \in Translation /\ text \in 1..MaxTexts
  BY <1>1 DEF TranslationsInit, Translation
<1>3. trJobs \in Seq({"PENDING", "RUNNING", "SUCCEEDED"}) /\ Len(trJobs) <= MaxJobs
  BY <1>1 DEF TranslationsInit
<1>4. trTask \in [TrIds -> TrTasks] /\ trpc \in [TrIds -> TrPcs]
  BY DEF TranslationsInit, TrTasks, TrPcs
<1>5. trText \in [TrIds -> 0..MaxTexts] /\ trFails \in [TrIds -> 0..MaxExecutions]
  BY <1>1 DEF TranslationsInit
<1>6. \A j \in TrIds : trTask[j] # "none" => j \in DOMAIN trJobs
  BY DEF TranslationsInit
<1>7. /\ lapses \in 0..MaxLapses /\ newest \in 0..MaxTexts /\ alongside \in BOOLEAN
  BY <1>1 DEF TranslationsInit
<1>8. TranslationsTypeOK
  BY <1>2, <1>3, <1>4, <1>5, <1>6, <1>7 DEF TranslationsTypeOK
<1>9. WorkerHolds
  BY <1>1 DEF TranslationsInit, WorkerHolds
<1> QED
  BY <1>8, <1>9 DEF TranslationsTypeInv

\* The status of a job is written.
LEMMA TrJobMarked ==
  ASSUME TranslationsTypeInv, NEW j \in TrIds, trTask[j] = "active",
         NEW s \in {"PENDING", "RUNNING", "SUCCEEDED"},
         trJobs' = [trJobs EXCEPT ![j] = s]
  PROVE  /\ trJobs' \in Seq({"PENDING", "RUNNING", "SUCCEEDED"})
         /\ Len(trJobs') = Len(trJobs) /\ DOMAIN trJobs' = DOMAIN trJobs
         /\ j \in DOMAIN trJobs /\ trJobs'[j] = s
         /\ \A i \in DOMAIN trJobs : i # j => trJobs'[i] = trJobs[i]
<1>1. j \in DOMAIN trJobs /\ trJobs \in Seq({"PENDING", "RUNNING", "SUCCEEDED"})
  BY DEF TranslationsTypeInv, TranslationsTypeOK
<1> QED
  BY <1>1

LEMMA TranslationsTypeStep ==
  ASSUME TranslationsTypeInv, [TranslationsNext]_translations PROVE TranslationsTypeInv'
<1>0. /\ TranslationsTypeOK /\ WorkerHolds /\ MaxExecutions \in Nat /\ MaxLapses \in Nat
      /\ MaxTexts \in Nat /\ MaxJobs \in Nat
  BY TranslationsTyped DEF TranslationsTypeInv
<1> USE DEF TrAt, TrGoto, TrLeave, Lapse
<1>1. CASE EditText \/ UNCHANGED translations
  <2>1. CASE EditText
    BY <1>0, <2>1 DEF EditText, TranslationsTypeInv, TranslationsTypeOK, WorkerHolds
  <2>2. CASE UNCHANGED translations
    BY <1>0, <2>2 DEF translations, TranslationsTypeInv, TranslationsTypeOK, WorkerHolds
  <2> QED
    BY <1>1, <2>1, <2>2
<1>2. CASE CreateTrJob
  <2>1. /\ trJobs' = Append(trJobs, "PENDING") /\ Len(trJobs) < MaxJobs
        /\ trTask' = [trTask EXCEPT ![Len(trJobs')] = "created"]
        /\ UNCHANGED <<text, translation, trpc, trText, trFails, lapses, newest, alongside>>
    BY <1>2 DEF CreateTrJob
  <2>2. /\ trJobs' \in Seq({"PENDING", "RUNNING", "SUCCEEDED"})
        /\ Len(trJobs') = Len(trJobs) + 1 /\ DOMAIN trJobs' = 1..(Len(trJobs) + 1)
        /\ DOMAIN trJobs = 1..Len(trJobs) /\ Len(trJobs) \in Nat
    BY <2>1, TranslationsTyped
  <2>3. Len(trJobs') <= MaxJobs /\ Len(trJobs') \in TrIds
    BY <1>0, <2>1, <2>2 DEF TrIds
  <2>4. /\ trTask' \in [TrIds -> TrTasks]
        /\ \A j \in TrIds : j # Len(trJobs') => trTask'[j] = trTask[j]
        /\ trTask'[Len(trJobs')] = "created"
    BY <1>0, <2>1, <2>3 DEF TranslationsTypeOK, TrTasks
  <2>5. \A j \in TrIds : trTask'[j] # "none" => j \in DOMAIN trJobs'
    BY <1>0, <2>2, <2>4 DEF TranslationsTypeOK
  <2>6. TranslationsTypeOK'
    BY <1>0, <2>1, <2>2, <2>3, <2>4, <2>5 DEF TranslationsTypeOK
  <2>7. ~(Len(trJobs') \in DOMAIN trJobs)
    BY <2>2
  <2>8. trTask[Len(trJobs')] = "none"
    BY <1>0, <2>3, <2>7 DEF TranslationsTypeOK
  <2>9. WorkerHolds'
    BY <1>0, <2>1, <2>3, <2>4, <2>8 DEF WorkerHolds
  <2> QED
    BY <2>6, <2>9 DEF TranslationsTypeInv
<1>3. ASSUME NEW j \in TrIds, EnqueueTrJob(j) \/ EnqueueTrFault(j) PROVE TranslationsTypeInv'
  <2>1. /\ UNCHANGED <<text, translation, trJobs, trpc, trText, trFails, newest, alongside>>
        /\ lapses' \in 0..MaxLapses /\ trTask[j] = "created"
        /\ trTask' = [trTask EXCEPT ![j] = "waiting"] \/ trTask' = [trTask EXCEPT ![j] = "lost"]
    BY <1>0, <1>3 DEF EnqueueTrJob, EnqueueTrFault, TranslationsTypeOK
  <2>2. TranslationsTypeOK'
    BY <1>0, <2>1 DEF TranslationsTypeOK, TrTasks
  <2>3. WorkerHolds'
    BY <1>0, <2>1 DEF WorkerHolds, TranslationsTypeOK
  <2> QED
    BY <2>2, <2>3 DEF TranslationsTypeInv
<1>4. ASSUME NEW j \in TrIds, TrTake(j) \/ TrRead(j) \/ TrFind(j) PROVE TranslationsTypeInv'
  <2>1. TranslationsTypeOK'
    <3>1. CASE TrTake(j)
      BY <1>0, <3>1 DEF TrTake, TranslationsTypeOK, TrTasks, TrPcs
    <3>2. CASE TrRead(j)
      <4>1. text \in 0..MaxTexts
        BY <1>0 DEF TranslationsTypeOK
      <4>2. trText' \in [TrIds -> 0..MaxTexts] /\ newest' \in 0..MaxTexts
        BY <1>0, <3>2, <4>1 DEF TrRead, TranslationsTypeOK
      <4>3. trpc' \in [TrIds -> TrPcs] /\ alongside' \in BOOLEAN
        BY <1>0, <3>2 DEF TrRead, TranslationsTypeOK, TrPcs
      <4> QED
        BY <1>0, <3>2, <4>2, <4>3 DEF TrRead, TranslationsTypeOK
    <3>3. CASE TrFind(j)
      BY <1>0, <3>3 DEF TrFind, TranslationsTypeOK, TrPcs
    <3> QED
      BY <1>4, <3>1, <3>2, <3>3
  <2>2. WorkerHolds'
    BY <1>0, <1>4 DEF TrTake, TrRead, TrFind, TranslationsTypeOK, WorkerHolds
  <2> QED
    BY <2>1, <2>2 DEF TranslationsTypeInv
<1>5. ASSUME NEW j \in TrIds, TrRun(j) \/ TrSucceed(j) PROVE TranslationsTypeInv'
  <2>1. /\ trTask[j] = "active" /\ trpc[j] \in {"run", "succeed"}
        /\ \E s \in {"RUNNING", "SUCCEEDED"} : trJobs' = [trJobs EXCEPT ![j] = s]
        /\ \/ trpc[j] = "run" /\ trpc' = [trpc EXCEPT ![j] = "read"]
           \/ trpc[j] = "succeed" /\ trpc' = [trpc EXCEPT ![j] = "publish"]
        /\ UNCHANGED <<text, translation, trTask, trText, trFails, lapses, newest, alongside>>
    BY <1>5 DEF TrRun, TrSucceed
  <2>2. /\ trJobs' \in Seq({"PENDING", "RUNNING", "SUCCEEDED"})
        /\ Len(trJobs') = Len(trJobs) /\ DOMAIN trJobs' = DOMAIN trJobs
    BY <2>1, TrJobMarked
  <2>3. trpc' \in [TrIds -> TrPcs]
    BY <1>0, <2>1 DEF TranslationsTypeOK, TrPcs
  <2>4. TranslationsTypeOK'
    BY <1>0, <2>1, <2>2, <2>3 DEF TranslationsTypeOK
  <2>5. WorkerHolds'
    BY <1>0, <2>1 DEF TranslationsTypeOK, WorkerHolds
  <2> QED
    BY <2>4, <2>5 DEF TranslationsTypeInv
<1>6. ASSUME NEW j \in TrIds, TrUpdate(j) \/ TrCreate(j) PROVE TranslationsTypeInv'
  <2>1. /\ trTask[j] = "active" /\ trpc[j] \in {"update", "create"}
        /\ translation' = [text |-> trText[j], status |-> "AI_GENERATED"]
        /\ trpc' = [trpc EXCEPT ![j] = "succeed"]
        /\ UNCHANGED <<text, trJobs, trTask, trText, trFails, lapses, newest, alongside>>
    BY <1>6 DEF TrUpdate, TrCreate, Translated
  <2>2. translation' \in Translation
    BY <1>0, <2>1 DEF Translation, TranslationsTypeOK
  <2>3. trpc' \in [TrIds -> TrPcs]
    BY <1>0, <2>1 DEF TranslationsTypeOK, TrPcs
  <2>4. TranslationsTypeOK'
    BY <1>0, <2>1, <2>2, <2>3 DEF TranslationsTypeOK
  <2>5. WorkerHolds'
    BY <1>0, <2>1 DEF TranslationsTypeOK, WorkerHolds
  <2> QED
    BY <2>4, <2>5 DEF TranslationsTypeInv
<1>7. ASSUME NEW j \in TrIds, TrClash(j) \/ TrFault(j) PROVE TranslationsTypeInv'
  <2>1. /\ TrThrow(j) /\ trTask[j] = "active" /\ lapses' \in 0..MaxLapses
        /\ UNCHANGED <<text, translation, trJobs, newest, alongside>>
    BY <1>0, <1>7 DEF TrClash, TrFault, TranslationsTypeOK
  <2>2. /\ trFails' = [trFails EXCEPT ![j] = trFails[j] + 1] /\ trFails[j] \in Nat
        /\ trFails'[j] = trFails[j] + 1 /\ trFails[j] < MaxExecutions
        /\ trpc' = [trpc EXCEPT ![j] = "idle"] /\ trText' = [trText EXCEPT ![j] = 0]
    BY <1>0, <2>1 DEF TrThrow, TranslationsTypeOK, WorkerHolds
  <2>3. trTask' = [trTask EXCEPT ![j] = IF trFails[j] + 1 < MaxExecutions THEN "waiting"
                                        ELSE "dead"]
    BY <2>1, <2>2 DEF TrThrow
  <2>4. /\ trTask' \in [TrIds -> TrTasks] /\ trpc' \in [TrIds -> TrPcs]
        /\ \A i \in TrIds : trTask'[i] # "none" => trTask[i] # "none"
    BY <1>0, <2>1, <2>2, <2>3 DEF TranslationsTypeOK, TrTasks, TrPcs
  <2>5. trText' \in [TrIds -> 0..MaxTexts] /\ trFails' \in [TrIds -> 0..MaxExecutions]
    BY <1>0, <2>2 DEF TranslationsTypeOK
  <2>6. TranslationsTypeOK'
    BY <1>0, <2>1, <2>4, <2>5 DEF TranslationsTypeOK
  <2>7. WorkerHolds'
    BY <1>0, <2>2, <2>3 DEF TranslationsTypeOK, WorkerHolds
  <2> QED
    BY <2>6, <2>7 DEF TranslationsTypeInv
<1>8. ASSUME NEW j \in TrIds, TrPublish(j) PROVE TranslationsTypeInv'
  <2>1. /\ trTask[j] = "active" /\ translation' = [translation EXCEPT !.status = "PUBLISHED"]
        /\ trTask' = [trTask EXCEPT ![j] = "done"] /\ trpc' = [trpc EXCEPT ![j] = "idle"]
        /\ trText' = [trText EXCEPT ![j] = 0]
        /\ UNCHANGED <<text, trJobs, trFails, lapses, newest, alongside>>
    BY <1>8 DEF TrPublish
  <2>2. translation' \in Translation
    BY <1>0, <2>1 DEF Translation, TranslationsTypeOK
  <2>3. /\ trTask' \in [TrIds -> TrTasks] /\ trpc' \in [TrIds -> TrPcs]
        /\ \A i \in TrIds : trTask'[i] # "none" => trTask[i] # "none"
    BY <1>0, <2>1 DEF TranslationsTypeOK, TrTasks, TrPcs
  <2>4. trText' \in [TrIds -> 0..MaxTexts]
    BY <1>0, <2>1 DEF TranslationsTypeOK
  <2>5. TranslationsTypeOK'
    BY <1>0, <2>1, <2>2, <2>3, <2>4 DEF TranslationsTypeOK
  <2>6. WorkerHolds'
    BY <1>0, <2>1 DEF TranslationsTypeOK, WorkerHolds
  <2> QED
    BY <2>5, <2>6 DEF TranslationsTypeInv
<1> QED
  BY <1>1, <1>2, <1>3, <1>4, <1>5, <1>6, <1>7, <1>8
     DEF TranslationsNext, TrWork, TranslationsRest

\* The type invariant of the translation jobs and of the row they share.
THEOREM TranslationsTypeCorrect == TranslationsSpec => []TranslationsTypeOK
<1>1. TranslationsTypeInv /\ [TranslationsNext]_translations => TranslationsTypeInv'
  BY TranslationsTypeStep
<1>2. TranslationsTypeInv => TranslationsTypeOK
  BY DEF TranslationsTypeInv
<1> QED
  BY TranslationsTypeInit, <1>1, <1>2, PTL DEF TranslationsSpec

LEMMA PublishedStep ==
  ASSUME TranslationsTypeInv, PublishInv, NewestInv, [TranslationsNext]_translations
  PROVE  PublishInv' /\ NewestInv'
<1>0. /\ trTask \in [TrIds -> TrTasks] /\ trpc \in [TrIds -> TrPcs]
      /\ trText \in [TrIds -> 0..MaxTexts] /\ text \in 1..MaxTexts /\ text # 0
      /\ translation \in Translation /\ alongside \in BOOLEAN /\ WorkerHolds
  BY TranslationsTyped DEF TranslationsTypeInv
<1> USE DEF TrAt, TrGoto, TrLeave
<1>1. CASE EditText \/ UNCHANGED translations
  BY <1>1 DEF EditText, translations, PublishInv, NewestInv, Unfinished
<1>2. CASE CreateTrJob
  <2>1. /\ UNCHANGED <<translation, trpc, trText, newest, alongside>>
        /\ trJobs' = Append(trJobs, "PENDING")
        /\ \A j \in TrIds : trTask'[j] \in {trTask[j], "created"} 
        /\ \A j \in TrIds : trTask[j] # "none" => trTask'[j] = trTask[j]
    <3>1. /\ UNCHANGED <<translation, trpc, trText, newest, alongside>>
          /\ trJobs' = Append(trJobs, "PENDING")
          /\ trTask' = [trTask EXCEPT ![Len(trJobs')] = "created"]
      BY <1>2 DEF CreateTrJob
    <3>2. Len(trJobs') = Len(trJobs) + 1 /\ ~(Len(trJobs') \in DOMAIN trJobs)
      BY <3>1, TranslationsTyped
    <3>3. \A j \in TrIds : trTask[j] # "none" => j # Len(trJobs')
      BY <3>2 DEF TranslationsTypeInv, TranslationsTypeOK
    <3> QED
      BY <1>0, <3>1, <3>3
  <2>2. \A j \in DOMAIN trJobs' : trJobs'[j] = "SUCCEEDED" => j \in DOMAIN trJobs /\ trJobs[j] = "SUCCEEDED"
    BY <2>1, TranslationsTyped
  <2>3. Unfinished => Unfinished'
    BY <2>1 DEF Unfinished
  <2> QED
    BY <2>1, <2>2, <2>3 DEF PublishInv, NewestInv
<1>3. ASSUME NEW j \in TrIds, EnqueueTrJob(j) \/ EnqueueTrFault(j) \/ TrTake(j) \/ TrFind(j)
      PROVE  PublishInv' /\ NewestInv'
  <2>1. /\ UNCHANGED <<translation, trJobs, trText, newest, alongside>>
        /\ \A i \in TrIds : trTask[i] \in {"waiting", "active", "dead"} =>
                              trTask'[i] \in {"waiting", "active", "dead"}
        /\ \A i \in TrIds : trpc'[i] \in {"succeed", "publish"} => trpc[i] \in {"succeed", "publish"}
        /\ translation.status = "none" =>
             \A i \in TrIds : trpc'[i] = "update" => trpc[i] = "update"
    BY <1>0, <1>3 DEF EnqueueTrJob, EnqueueTrFault, TrTake, TrFind
  <2>2. Unfinished => Unfinished'
    BY <2>1 DEF Unfinished
  <2> QED
    BY <2>1, <2>2 DEF PublishInv, NewestInv
<1>4. ASSUME NEW j \in TrIds, TrRun(j) \/ TrSucceed(j) PROVE PublishInv' /\ NewestInv'
  <2>1. /\ UNCHANGED <<translation, trTask, trText, newest, alongside>>
        /\ trTask[j] = "active" /\ \A i \in TrIds \ {j} : trpc'[i] = trpc[i]
        /\ \/ trpc'[j] = "read" /\ trJobs' = [trJobs EXCEPT ![j] = "RUNNING"]
           \/ /\ trpc[j] = "succeed" /\ trpc'[j] = "publish"
              /\ trJobs' = [trJobs EXCEPT ![j] = "SUCCEEDED"]
    BY <1>0, <1>4 DEF TrRun, TrSucceed
  <2>2. /\ DOMAIN trJobs' = DOMAIN trJobs
        /\ \A i \in DOMAIN trJobs : i # j => trJobs'[i] = trJobs[i]
        /\ trpc'[j] = "read" => trJobs'[j] = "RUNNING"
    BY <2>1, TrJobMarked
  <2>3. Unfinished => Unfinished'
    BY <2>1 DEF Unfinished
  <2>4. PublishInv'
    BY <2>1, <2>2, <2>3 DEF PublishInv
  <2>5. NewestInv'
    BY <2>1, <2>3 DEF NewestInv
  <2> QED
    BY <2>4, <2>5
<1>5. ASSUME NEW j \in TrIds, TrRead(j) PROVE PublishInv' /\ NewestInv'
  <2>1. /\ UNCHANGED <<translation, trJobs, trTask>> /\ trTask[j] = "active"
        /\ newest' = text /\ trText'[j] = text /\ trpc'[j] = "find"
        /\ \A i \in TrIds \ {j} : trpc'[i] = trpc[i] /\ trText'[i] = trText[i]
        /\ alongside' = (alongside \/ \E i \in TrIds : trText[i] # 0)
    BY <1>0, <1>5 DEF TrRead
  <2>2. Unfinished'
    BY <2>1 DEF Unfinished
  <2>3. PublishInv'
    BY <2>1, <2>2 DEF PublishInv
  <2>4. NewestInv'
    <3> SUFFICES ASSUME ~alongside' PROVE NewestInv'
      BY DEF NewestInv
    <3>1. \A i \in TrIds : trText[i] = 0
      BY <1>0, <2>1
    <3>2. \A i \in TrIds \ {j} : trText'[i] = 0 /\ trpc'[i] \notin {"succeed", "publish"}
      BY <1>0, <2>1, <3>1 DEF WorkerHolds
    <3> QED
      BY <2>1, <2>2, <3>2 DEF NewestInv
  <2> QED
    BY <2>3, <2>4
<1>6. ASSUME NEW j \in TrIds, TrUpdate(j) \/ TrCreate(j) PROVE PublishInv' /\ NewestInv'
  <2>1. /\ UNCHANGED <<trJobs, trTask, trText, newest, alongside>> /\ trTask[j] = "active"
        /\ trpc[j] \in {"update", "create"} /\ trpc'[j] = "succeed"
        /\ translation'.text = trText[j] /\ translation'.status = "AI_GENERATED"
        /\ \A i \in TrIds \ {j} : trpc'[i] = trpc[i]
    BY <1>0, <1>6 DEF TrUpdate, TrCreate, Translated
  <2>2. Unfinished'
    BY <2>1 DEF Unfinished
  <2>3. PublishInv'
    BY <2>1, <2>2 DEF PublishInv
  <2>4. trText[j] # 0
    BY <2>1, <1>0 DEF WorkerHolds
  <2>5. ~alongside => trText[j] = newest
    BY <2>4 DEF NewestInv
  <2>6. NewestInv'
    BY <2>1, <2>5 DEF NewestInv
  <2> QED
    BY <2>3, <2>6
<1>7. ASSUME NEW j \in TrIds, TrClash(j) \/ TrFault(j) PROVE PublishInv' /\ NewestInv'
  <2>1. /\ UNCHANGED <<translation, trJobs, newest, alongside>>
        /\ trTask'[j] \in {"waiting", "dead"} /\ trpc'[j] = "idle" /\ trText'[j] = 0
        /\ \A i \in TrIds \ {j} : trpc'[i] = trpc[i] /\ trText'[i] = trText[i]
    BY <1>0, <1>7 DEF TrClash, TrFault, TrThrow
  <2>2. Unfinished'
    BY <2>1 DEF Unfinished
  <2>3. PublishInv'
    BY <2>1, <2>2 DEF PublishInv
  <2>4. NewestInv'
    BY <2>1, <2>2 DEF NewestInv
  <2> QED
    BY <2>3, <2>4
<1>8. ASSUME NEW j \in TrIds, TrPublish(j) PROVE PublishInv' /\ NewestInv'
  <2>1. /\ UNCHANGED <<trJobs, newest, alongside>> /\ trpc[j] = "publish"
        /\ translation'.text = translation.text /\ translation'.status = "PUBLISHED"
        /\ trpc'[j] = "idle" /\ trText'[j] = 0
        /\ \A i \in TrIds \ {j} : trpc'[i] = trpc[i] /\ trText'[i] = trText[i]
    BY <1>0, <1>8 DEF TrPublish, Translation
  <2>2. PublishInv'
    BY <2>1 DEF PublishInv
  <2>3. ~alongside => translation.text = newest
    BY <2>1 DEF NewestInv
  <2>4. NewestInv'
    BY <2>1, <2>3 DEF NewestInv
  <2> QED
    BY <2>2, <2>4
<1> QED
  BY <1>1, <1>2, <1>3, <1>4, <1>5, <1>6, <1>7, <1>8
     DEF TranslationsNext, TrWork, TranslationsRest

\* When nothing is left to do and a job has succeeded, the translation is published, and
\* of the newest text unless jobs overlapped, as long as no task was given up.
THEOREM PublishesTheNewest == TranslationsSpec => []PublishedIsNewest
<1> DEFINE Fresh == TranslationsTypeInv /\ PublishInv /\ NewestInv
<1>1. TranslationsInit => Fresh
  <2> SUFFICES ASSUME TranslationsInit PROVE Fresh
    OBVIOUS
  <2>1. PublishInv /\ NewestInv
    BY DEF TranslationsInit, PublishInv, NewestInv
  <2> QED
    BY <2>1, TranslationsTypeInit
<1>2. Fresh /\ [TranslationsNext]_translations => Fresh'
  BY TranslationsTypeStep, PublishedStep
<1>3. Fresh => PublishedIsNewest
  <2> SUFFICES ASSUME Fresh, TranslationsQuiet,
                      \E j \in DOMAIN trJobs : trJobs[j] = "SUCCEEDED",
                      \A j \in TrIds : trTask[j] # "dead"
               PROVE  /\ translation.status = "PUBLISHED"
                      /\ alongside \/ translation.text = newest
    BY DEF PublishedIsNewest
  <2>1. ~Unfinished
    BY DEF Unfinished, TranslationsQuiet
  <2>2. translation.status \notin {"none", "AI_GENERATED"}
    BY <2>1 DEF PublishInv
  <2>3. translation.status \in {"none", "AI_GENERATED", "PUBLISHED"}
    BY TranslationsTyped DEF Translation
  <2> QED
    BY <2>1, <2>2, <2>3 DEF NewestInv
<1> QED
  BY <1>1, <1>2, <1>3, PTL DEF TranslationsSpec

-----------------------------------------------------------------------------
(* CacheAside *)

\* A request holds a version from its load to its set.
GettersHold ==
  \A g \in Getters : /\ gpc[g] = "set" <=> gValue[g] # 0
                     /\ gValue[g] = 0 => gHeld[g] = 0
CacheTypeInv == CacheTypeOK /\ GettersHold

\* A version is as old as the request that loaded it at most, and in the entry as old as
\* a request and the time since the entry was set.
AgesInv ==
  /\ \A v \in ToolWrites : stored <= v => ages[v] = 0
  /\ \A g \in Getters : gValue[g] # 0 => ages[gValue[g]] <= gHeld[g]
  /\ cached # 0 => ages[cached] + cachedTtl <= MaxAge
  /\ oldest < MaxAge

\* No request holds a version older than what a purge has listed, unless one did when it
\* listed the keys.
PurgeInv ==
  ~acrossPurge =>
    /\ \A g \in Getters : gValue[g] # 0 => purging <= gValue[g] /\ purgedTo <= gValue[g]
    /\ ~hashed => cached = 0 \/ purgedTo <= cached

LEMMA CacheTyped ==
  ASSUME CacheTypeInv
  PROVE  /\ stored \in ToolWrites /\ stored \in Nat /\ stored # 0
         /\ MaxToolWrites \in Nat /\ stored <= MaxToolWrites
         /\ cached \in 0..stored /\ cachedTtl \in 0..Ttl /\ cached \in Nat /\ cachedTtl \in Nat
         /\ cached = 0 <=> cachedTtl = 0
         /\ Ttl \in Nat \ {0} /\ Patience \in Nat /\ MaxAge \in Nat /\ MaxAge = Ttl + Patience
         /\ gpc \in [Getters -> {"idle", "get", "load", "set"}]
         /\ gValue \in [Getters -> 0..stored] /\ gHeld \in [Getters -> 0..Patience]
         /\ \A g \in Getters : gValue[g] # 0 => gValue[g] \in ToolWrites
         /\ cached # 0 => cached \in ToolWrites
         /\ purging \in 0..stored /\ purgedTo \in 0..stored
         /\ ages \in [ToolWrites -> 0..MaxAge] /\ oldest \in 0..MaxAge
         /\ redisFaults \in 0..MaxRedisFaults /\ MaxRedisFaults \in Nat
         /\ hashed \in BOOLEAN /\ acrossPurge \in BOOLEAN
<1>1. /\ stored \in ToolWrites /\ stored \in Nat /\ stored # 0
      /\ MaxToolWrites \in Nat /\ stored <= MaxToolWrites
      /\ Ttl \in Nat \ {0} /\ Patience \in Nat /\ MaxAge \in Nat /\ MaxAge = Ttl + Patience
      /\ MaxRedisFaults \in Nat
  BY CacheAssumption DEF CacheTypeInv, CacheTypeOK, ToolWrites, MaxAge
<1>2. /\ cached \in 0..stored /\ cachedTtl \in 0..Ttl /\ (cached = 0 <=> cachedTtl = 0)
      /\ gpc \in [Getters -> {"idle", "get", "load", "set"}]
      /\ gValue \in [Getters -> 0..stored] /\ gHeld \in [Getters -> 0..Patience]
      /\ purging \in 0..stored /\ purgedTo \in 0..stored
      /\ ages \in [ToolWrites -> 0..MaxAge] /\ oldest \in 0..MaxAge
      /\ redisFaults \in 0..MaxRedisFaults /\ hashed \in BOOLEAN /\ acrossPurge \in BOOLEAN
  BY DEF CacheTypeInv, CacheTypeOK
<1>3. \A v \in 0..stored : v # 0 => v \in ToolWrites
  BY <1>1 DEF ToolWrites
<1> QED
  BY <1>1, <1>2, <1>3

\* The greater of two numbers.
LEMMA MaxOfTwo ==
  ASSUME NEW a \in Nat, NEW b \in Nat
  PROVE  Max({a, b}) \in {a, b} /\ a <= Max({a, b}) /\ b <= Max({a, b})
<1> DEFINE IsMax(x) == x \in {a, b} /\ \A y \in {a, b} : x >= y
<1>1. \E x : IsMax(x)
  <2>1. CASE a <= b
    BY <2>1
  <2>2. CASE b <= a
    BY <2>2
  <2> QED
    BY <2>1, <2>2
<1>2. Max({a, b}) = CHOOSE x : IsMax(x)
  BY DEF Max
<1>3. IsMax(CHOOSE x : IsMax(x))
  BY <1>1
<1> QED
  BY <1>2, <1>3

LEMMA CacheTypeInit == CacheInit => CacheTypeInv
<1> SUFFICES ASSUME CacheInit PROVE CacheTypeInv
  OBVIOUS
<1>1. /\ 1 \in ToolWrites /\ 0 \in 0..1 /\ 0 \in 0..Ttl /\ 0 \in 0..Patience
      /\ 0 \in 0..MaxRedisFaults /\ 0 \in 0..MaxAge
  BY CacheAssumption DEF ToolWrites, MaxAge
<1>2. /\ gpc \in [Getters -> {"idle", "get", "load", "set"}]
      /\ gValue \in [Getters -> 0..1] /\ gHeld \in [Getters -> 0..Patience]
      /\ ages \in [ToolWrites -> 0..MaxAge]
  BY <1>1 DEF CacheInit
<1>3. stored = 1 /\ cached \in 0..1 /\ cachedTtl \in 0..Ttl /\ (cached = 0 <=> cachedTtl = 0)
      /\ purging \in 0..1 /\ purgedTo \in 0..1 /\ redisFaults \in 0..MaxRedisFaults
      /\ oldest \in 0..MaxAge /\ hashed \in BOOLEAN /\ acrossPurge \in BOOLEAN
  BY <1>1 DEF CacheInit
<1>4. CacheTypeOK
  BY <1>1, <1>2, <1>3 DEF CacheTypeOK
<1>5. GettersHold
  BY DEF CacheInit, GettersHold
<1> QED
  BY <1>4, <1>5 DEF CacheTypeInv

\* What an answer makes of the greatest age.
LEMMA AnswerAged ==
  ASSUME CacheTypeInv, NEW v \in ToolWrites, Answers(v)
  PROVE  oldest' \in {oldest, ages[v]} /\ oldest' \in 0..MaxAge
<1>1. ages[v] \in 0..MaxAge /\ oldest \in 0..MaxAge /\ MaxAge \in Nat
  BY CacheTyped
<1>2. Max({oldest, ages[v]}) \in {oldest, ages[v]}
  BY <1>1, MaxOfTwo
<1> QED
  BY <1>1, <1>2 DEF Answers

LEMMA CacheTypeStep ==
  ASSUME CacheTypeInv, [CacheNext]_cacheAside PROVE CacheTypeInv'
<1>0. CacheTypeOK /\ GettersHold /\ MaxRedisFaults \in Nat
  BY CacheTyped DEF CacheTypeInv
<1>t. /\ stored \in Nat /\ stored # 0 /\ MaxToolWrites \in Nat
      /\ Ttl \in Nat \ {0} /\ Patience \in Nat /\ MaxAge \in Nat /\ MaxAge = Ttl + Patience
      /\ cached \in Nat /\ cachedTtl \in Nat
  BY CacheTyped
<1> USE DEF getters, GetterGoto, GetterLeave
<1>1. CASE WriteTool
  <2>1. /\ stored' = stored + 1 /\ stored' \in ToolWrites
        /\ \A n \in 0..stored : n \in 0..stored'
    BY <1>t, <1>1 DEF WriteTool, ToolWrites
  <2>2. gValue' \in [Getters -> 0..stored']
    BY <1>0, <1>1, <2>1 DEF WriteTool, CacheTypeOK
  <2>3. CacheTypeOK'
    BY <1>0, <1>1, <2>1, <2>2 DEF WriteTool, CacheTypeOK
  <2>4. GettersHold'
    BY <1>0, <1>1 DEF WriteTool, GettersHold
  <2> QED
    BY <2>3, <2>4 DEF CacheTypeInv
<1>2. ASSUME NEW g \in Getters, GetRequest(g) \/ GetMiss(g) PROVE CacheTypeInv'
  <2>1. /\ gpc[g] \in {"idle", "get"}
        /\ gpc' = [gpc EXCEPT ![g] = "get"] \/ gpc' = [gpc EXCEPT ![g] = "load"]
        /\ UNCHANGED <<stored, cached, cachedTtl, hashed, gValue, gHeld, purging, redisFaults,
                       ages, oldest, purgedTo, acrossPurge>>
    BY <1>2 DEF GetRequest, GetMiss
  <2>2. CacheTypeOK'
    BY <1>0, <2>1 DEF CacheTypeOK
  <2>3. GettersHold'
    BY <1>0, <2>1 DEF GettersHold, CacheTypeOK
  <2> QED
    BY <2>2, <2>3 DEF CacheTypeInv
<1>3. ASSUME NEW g \in Getters, Load(g) PROVE CacheTypeInv'
  <2>1. gValue' \in [Getters -> 0..stored] /\ gpc' \in [Getters -> {"idle", "get", "load", "set"}]
    BY <1>0, <1>t, <1>3 DEF Load, CacheTypeOK
  <2>2. CacheTypeOK'
    BY <1>0, <1>3, <2>1 DEF Load, CacheTypeOK
  <2>3. GettersHold'
    BY <1>0, <1>t, <1>3 DEF Load, GettersHold, CacheTypeOK
  <2> QED
    BY <2>2, <2>3 DEF CacheTypeInv
<1>4. ASSUME NEW g \in Getters, GetHit(g) \/ SetEntry(g) \/ GetFault(g) PROVE CacheTypeInv'
  <2>1. /\ gpc' = [gpc EXCEPT ![g] = "idle"] /\ gValue' = [gValue EXCEPT ![g] = 0]
        /\ gHeld' = [gHeld EXCEPT ![g] = 0]
        /\ UNCHANGED <<stored, hashed, purging, ages, purgedTo, acrossPurge>>
    BY <1>4 DEF GetHit, SetEntry, GetFault
  <2>2. /\ cached' \in 0..stored /\ cachedTtl' \in 0..Ttl /\ (cached' = 0 <=> cachedTtl' = 0)
    <3>1. CASE UNCHANGED <<cached, cachedTtl>>
      BY <1>0, <3>1 DEF CacheTypeOK
    <3>2. CASE gpc[g] = "set" /\ cached' = gValue[g] /\ cachedTtl' = Ttl
      BY <1>0, <1>t, <3>2 DEF CacheTypeOK, GettersHold
    <3> QED
      BY <1>4, <3>1, <3>2 DEF GetHit, SetEntry, GetFault, Unrenewed
  <2>3. oldest' \in 0..MaxAge
    <3>1. CASE GetHit(g)
      <4>1. cached \in ToolWrites
        BY <3>1, CacheTyped DEF GetHit, Hit
      <4> QED
        BY <3>1, <4>1, AnswerAged DEF GetHit
    <3>2. CASE SetEntry(g)
      <4>1. gValue[g] \in ToolWrites
        BY <1>0, <3>2, CacheTyped DEF SetEntry, GettersHold
      <4> QED
        BY <3>2, <4>1, AnswerAged DEF SetEntry
    <3>3. CASE GetFault(g)
      BY <1>0, <3>3 DEF GetFault, CacheTypeOK
    <3> QED
      BY <1>4, <3>1, <3>2, <3>3
  <2>4. redisFaults' \in 0..MaxRedisFaults
    BY <1>0, <1>4 DEF GetHit, SetEntry, GetFault, CacheTypeOK
  <2>5. /\ gpc' \in [Getters -> {"idle", "get", "load", "set"}]
        /\ gValue' \in [Getters -> 0..stored] /\ gHeld' \in [Getters -> 0..Patience]
    BY <1>0, <1>t, <2>1 DEF CacheTypeOK
  <2>6. CacheTypeOK'
    BY <1>0, <2>1, <2>2, <2>3, <2>4, <2>5 DEF CacheTypeOK
  <2>7. GettersHold'
    BY <1>0, <2>1 DEF GettersHold, CacheTypeOK
  <2> QED
    BY <2>6, <2>7 DEF CacheTypeInv
<1>5. CASE PurgeList \/ PurgeDelete \/ PurgeFault
  <2>1. UNCHANGED <<stored, hashed, gpc, gValue, gHeld, ages, oldest>>
    BY <1>5 DEF PurgeList, PurgeDelete, PurgeFault
  <2>2. /\ cached' \in 0..stored /\ cachedTtl' \in 0..Ttl /\ (cached' = 0 <=> cachedTtl' = 0)
        /\ purging' \in 0..stored /\ purgedTo' \in 0..stored /\ acrossPurge' \in BOOLEAN
        /\ redisFaults' \in 0..MaxRedisFaults
    <3>1. CASE PurgeList
      BY <1>0, <1>t, <3>1 DEF PurgeList, CacheTypeOK
    <3>2. CASE PurgeDelete
      BY <1>0, <1>t, <3>2 DEF PurgeDelete, CacheTypeOK
    <3>3. CASE PurgeFault
      BY <1>0, <1>t, <3>3 DEF PurgeFault, CacheTypeOK
    <3> QED
      BY <1>5, <3>1, <3>2, <3>3
  <2>3. CacheTypeOK'
    BY <1>0, <2>1, <2>2 DEF CacheTypeOK
  <2>4. GettersHold'
    BY <1>0, <2>1 DEF GettersHold
  <2> QED
    BY <2>3, <2>4 DEF CacheTypeInv
<1>6. CASE CacheTick
  <2>1. UNCHANGED <<stored, hashed, gpc, gValue, purging, redisFaults, oldest, purgedTo,
                    acrossPurge>>
    BY <1>6 DEF CacheTick
  <2>2. cached' \in 0..stored /\ cachedTtl' \in 0..Ttl /\ (cached' = 0 <=> cachedTtl' = 0)
    BY <1>0, <1>t, <1>6 DEF CacheTick, CacheTypeOK
  <2>3. gHeld' \in [Getters -> 0..Patience]
    BY <1>0, <1>t, <1>6 DEF CacheTick, CacheTypeOK
  <2>4. ages' \in [ToolWrites -> 0..MaxAge]
    BY <1>0, <1>t, <1>6 DEF CacheTick, CacheTypeOK
  <2>5. CacheTypeOK'
    BY <1>0, <2>1, <2>2, <2>3, <2>4 DEF CacheTypeOK
  <2>6. GettersHold'
    BY <1>0, <1>6, <2>1 DEF CacheTick, GettersHold
  <2> QED
    BY <2>5, <2>6 DEF CacheTypeInv
<1>7. CASE UNCHANGED cacheAside
  BY <1>0, <1>7 DEF cacheAside, CacheTypeInv, CacheTypeOK, GettersHold
<1> QED
  BY <1>1, <1>2, <1>3, <1>4, <1>5, <1>6, <1>7 DEF CacheNext

\* The type invariant of the entry, of the requests that fill it and of the ages.
THEOREM CacheTypeCorrect == CacheSpec => []CacheTypeOK
<1>1. CacheTypeInv /\ [CacheNext]_cacheAside => CacheTypeInv'
  BY CacheTypeStep
<1>2. CacheTypeInv => CacheTypeOK
  BY DEF CacheTypeInv
<1> QED
  BY CacheTypeInit, <1>1, <1>2, PTL DEF CacheSpec

LEMMA AgesStep ==
  ASSUME CacheTypeInv, AgesInv, [CacheNext]_cacheAside PROVE AgesInv'
<1>0. /\ stored \in Nat /\ stored \in ToolWrites
      /\ Ttl \in Nat \ {0} /\ Patience \in Nat /\ MaxAge = Ttl + Patience
      /\ cached \in Nat /\ cachedTtl \in 0..Ttl /\ (cached = 0 <=> cachedTtl = 0)
      /\ gpc \in [Getters -> {"idle", "get", "load", "set"}]
      /\ gValue \in [Getters -> 0..stored] /\ gHeld \in [Getters -> 0..Patience]
      /\ \A g \in Getters : gValue[g] # 0 => gValue[g] \in ToolWrites
      /\ cached # 0 => cached \in ToolWrites
      /\ ages \in [ToolWrites -> 0..MaxAge] /\ oldest \in 0..MaxAge /\ GettersHold
  BY CacheTyped DEF CacheTypeInv
<1>1. /\ \A v \in ToolWrites : stored <= v => ages[v] = 0
      /\ \A g \in Getters : gValue[g] # 0 => ages[gValue[g]] <= gHeld[g]
      /\ cached # 0 => ages[cached] + cachedTtl <= MaxAge
      /\ oldest < MaxAge
  BY DEF AgesInv
<1> USE DEF getters, GetterGoto, GetterLeave
<1>2. CASE WriteTool
  <2>1. /\ stored' = stored + 1
        /\ UNCHANGED <<cached, cachedTtl, gValue, gHeld, ages, oldest>>
    BY <1>2 DEF WriteTool
  <2>2. \A v \in ToolWrites : stored' <= v => stored <= v
    BY <1>0, <2>1 DEF ToolWrites
  <2> QED
    BY <1>1, <2>1, <2>2 DEF AgesInv
<1>3. ASSUME NEW g \in Getters, GetRequest(g) \/ GetMiss(g) PROVE AgesInv'
  BY <1>1, <1>3 DEF GetRequest, GetMiss, AgesInv
<1>4. ASSUME NEW g \in Getters, Load(g) PROVE AgesInv'
  <2>1. /\ gValue' = [gValue EXCEPT ![g] = stored]
        /\ UNCHANGED <<stored, cached, cachedTtl, gHeld, ages, oldest>>
    BY <1>4 DEF Load
  <2>2. ages[stored] <= gHeld[g]
    BY <1>0, <1>1
  <2>3. \A h \in Getters : gValue'[h] # 0 => ages'[gValue'[h]] <= gHeld'[h]
    BY <1>0, <1>1, <2>1, <2>2
  <2> QED
    BY <1>1, <2>1, <2>3 DEF AgesInv
<1>5. ASSUME NEW g \in Getters, GetHit(g) \/ SetEntry(g) \/ GetFault(g) PROVE AgesInv'
  <2>1. /\ gValue' = [gValue EXCEPT ![g] = 0] /\ gHeld' = [gHeld EXCEPT ![g] = 0]
        /\ UNCHANGED <<stored, ages>>
    BY <1>5 DEF GetHit, SetEntry, GetFault
  <2>2. gpc[g] = "set" => gValue[g] \in ToolWrites /\ ages[gValue[g]] <= Patience
    BY <1>0, <1>1 DEF GettersHold
  <2>3. \/ UNCHANGED <<cached, cachedTtl>>
        \/ gpc[g] = "set" /\ cached' = gValue[g] /\ cachedTtl' = Ttl
    BY <1>5 DEF GetHit, SetEntry, GetFault, Unrenewed
  <2>4. cached' # 0 => ages'[cached'] + cachedTtl' <= MaxAge
    <3>1. CASE UNCHANGED <<cached, cachedTtl>>
      BY <1>1, <2>1, <3>1
    <3>2. CASE gpc[g] = "set" /\ cached' = gValue[g] /\ cachedTtl' = Ttl
      <4>1. ages[gValue[g]] \in Nat
        BY <1>0, <2>2, <3>2
      <4> QED
        BY <1>0, <2>1, <2>2, <3>2, <4>1
    <3> QED
      BY <2>3, <3>1, <3>2
  <2>5. oldest' < MaxAge
    <3>1. CASE GetHit(g)
      <4>1. cached # 0 /\ cached \in ToolWrites /\ Answers(cached)
        BY <1>0, <3>1 DEF GetHit, Hit
      <4>2. ages[cached] \in Nat /\ ages[cached] < MaxAge
        BY <1>0, <1>1, <4>1
      <4> QED
        BY <1>1, <4>1, <4>2, AnswerAged
    <3>2. CASE SetEntry(g)
      <4>1. gValue[g] \in ToolWrites /\ Answers(gValue[g]) /\ ages[gValue[g]] <= Patience
        BY <2>2, <3>2 DEF SetEntry
      <4>2. ages[gValue[g]] \in Nat /\ ages[gValue[g]] < MaxAge
        BY <1>0, <4>1
      <4> QED
        BY <1>1, <4>1, <4>2, AnswerAged
    <3>3. CASE GetFault(g)
      BY <1>1, <3>3 DEF GetFault
    <3> QED
      BY <1>5, <3>1, <3>2, <3>3
  <2>6. \A h \in Getters : gValue'[h] # 0 => ages'[gValue'[h]] <= gHeld'[h]
    BY <1>0, <1>1, <2>1
  <2> QED
    BY <1>1, <2>1, <2>4, <2>5, <2>6 DEF AgesInv
<1>6. CASE PurgeList \/ PurgeDelete \/ PurgeFault
  <2>1. /\ UNCHANGED <<stored, gValue, gHeld, ages, oldest>>
        /\ UNCHANGED <<cached, cachedTtl>> \/ cached' = 0
    BY <1>6 DEF PurgeList, PurgeDelete, PurgeFault
  <2> QED
    BY <1>1, <2>1 DEF AgesInv
<1>7. CASE CacheTick
  <2>1. /\ UNCHANGED <<stored, gValue, oldest>>
        /\ gHeld' = [g \in Getters |-> IF gValue[g] = 0 THEN 0 ELSE gHeld[g] + 1]
        /\ cachedTtl' = IF cachedTtl > 0 THEN cachedTtl - 1 ELSE 0
        /\ cached' = IF cachedTtl > 1 THEN cached ELSE 0
        /\ ages' = [v \in ToolWrites |->
                      IF v < stored /\ ages[v] < MaxAge THEN ages[v] + 1 ELSE ages[v]]
    BY <1>7 DEF CacheTick
  <2>2. \A v \in ToolWrites : /\ ages[v] \in Nat /\ ages'[v] \in Nat /\ ages'[v] <= ages[v] + 1
                              /\ stored <= v => ages'[v] = ages[v]
    <3> SUFFICES ASSUME NEW v \in ToolWrites
                 PROVE  /\ ages[v] \in Nat /\ ages'[v] \in Nat /\ ages'[v] <= ages[v] + 1
                        /\ stored <= v => ages'[v] = ages[v]
      OBVIOUS
    <3>1. v \in Nat /\ ages[v] \in Nat
      <4>1. v \in Nat
        BY DEF ToolWrites
      <4>2. ages[v] \in 0..MaxAge /\ MaxAge \in Nat
        BY <1>0
      <4> QED
        BY <4>1, <4>2
    <3>2. ages'[v] = IF v < stored /\ ages[v] < MaxAge THEN ages[v] + 1 ELSE ages[v]
      BY <2>1
    <3>3. stored <= v => ~(v < stored)
      BY <1>0, <3>1
    <3> QED
      BY <3>1, <3>2, <3>3
  <2>3. \A g \in Getters : gValue'[g] # 0 => ages'[gValue'[g]] <= gHeld'[g]
    <3> SUFFICES ASSUME NEW g \in Getters, gValue[g] # 0
                 PROVE  ages'[gValue[g]] <= gHeld'[g]
      BY <2>1
    <3>1. gValue[g] \in ToolWrites /\ gHeld'[g] = gHeld[g] + 1 /\ gHeld[g] \in Nat
      BY <1>0, <2>1
    <3> QED
      BY <1>1, <2>2, <3>1
  <2>4. cached' # 0 => ages'[cached'] + cachedTtl' <= MaxAge
    <3> SUFFICES ASSUME cached' # 0 PROVE ages'[cached'] + cachedTtl' <= MaxAge
      OBVIOUS
    <3>1. cached' = cached /\ cached # 0 /\ cachedTtl' = cachedTtl - 1 /\ cachedTtl \in Nat
      BY <1>0, <2>1
    <3>2. /\ ages[cached] \in Nat /\ ages'[cached] \in Nat /\ ages'[cached] <= ages[cached] + 1
          /\ ages[cached] + cachedTtl <= MaxAge
      BY <1>0, <1>1, <2>2, <3>1
    <3> QED
      BY <1>0, <3>1, <3>2
  <2> QED
    BY <1>1, <2>1, <2>2, <2>3, <2>4 DEF AgesInv
<1>8. CASE UNCHANGED cacheAside
  BY <1>8 DEF cacheAside, AgesInv
<1> QED
  BY <1>2, <1>3, <1>4, <1>5, <1>6, <1>7, <1>8 DEF CacheNext

LEMMA PurgeStep ==
  ASSUME CacheTypeInv, PurgeInv, [CacheNext]_cacheAside PROVE PurgeInv'
<1> SUFFICES ASSUME ~acrossPurge' PROVE PurgeInv'
  BY DEF PurgeInv
<1>0. /\ stored \in Nat /\ cached \in Nat /\ GettersHold
      /\ gpc \in [Getters -> {"idle", "get", "load", "set"}]
      /\ gValue \in [Getters -> 0..stored]
      /\ purging \in 0..stored /\ purgedTo \in 0..stored /\ acrossPurge \in BOOLEAN
  BY CacheTyped DEF CacheTypeInv
<1> USE DEF getters, GetterGoto, GetterLeave
<1>1. ~acrossPurge
  BY <1>0 DEF CacheNext, WriteTool, PurgeList, PurgeDelete, PurgeFault, CacheTick,
     GetRequest,
              GetHit, GetMiss, Load, SetEntry, GetFault, cacheAside
<1>2. /\ \A g \in Getters : gValue[g] # 0 => purging <= gValue[g] /\ purgedTo <= gValue[g]
      /\ ~hashed => cached = 0 \/ purgedTo <= cached
  BY <1>1 DEF PurgeInv
<1>3. CASE WriteTool \/ CacheTick \/ UNCHANGED cacheAside
  <2>1. UNCHANGED <<gValue, purging, purgedTo, hashed>> /\ cached' \in {0, cached}
    BY <1>3 DEF WriteTool, CacheTick, cacheAside
  <2> QED
    BY <1>2, <2>1 DEF PurgeInv
<1>4. ASSUME NEW g \in Getters, GetRequest(g) \/ GetMiss(g) PROVE PurgeInv'
  BY <1>2, <1>4 DEF GetRequest, GetMiss, PurgeInv
<1>5. ASSUME NEW g \in Getters, Load(g) PROVE PurgeInv'
  <2>1. gValue' = [gValue EXCEPT ![g] = stored] /\ UNCHANGED <<cached, purging, purgedTo, hashed>>
    BY <1>5 DEF Load
  <2>2. \A h \in Getters : gValue'[h] # 0 => purging <= gValue'[h] /\ purgedTo <= gValue'[h]
    BY <1>0, <1>2, <2>1
  <2> QED
    BY <1>2, <2>1, <2>2 DEF PurgeInv
<1>6. ASSUME NEW g \in Getters, GetHit(g) \/ SetEntry(g) \/ GetFault(g) PROVE PurgeInv'
  <2>1. /\ gValue' = [gValue EXCEPT ![g] = 0] /\ UNCHANGED <<purging, purgedTo, hashed>>
        /\ \/ cached' = cached
           \/ gpc[g] = "set" /\ cached' = gValue[g]
    BY <1>6 DEF GetHit, SetEntry, GetFault
  <2>2. \A h \in Getters : gValue'[h] # 0 => purging <= gValue'[h] /\ purgedTo <= gValue'[h]
    BY <1>0, <1>2, <2>1
  <2>3. ~hashed => cached' = 0 \/ purgedTo <= cached'
    BY <1>0, <1>2, <2>1 DEF GettersHold
  <2> QED
    BY <2>1, <2>2, <2>3 DEF PurgeInv
<1>7. CASE PurgeList
  <2>1. /\ \A g \in Getters : gValue[g] \in {0, stored} /\ UNCHANGED <<gValue, cached, hashed>>
        /\ \/ purging' = stored /\ purgedTo' = purgedTo
           \/ purgedTo' = stored /\ purging' = purging /\ (cached = 0 \/ hashed)
    BY <1>7 DEF PurgeList
  <2>2. UNCHANGED <<gValue, cached, hashed>>
    BY <1>7 DEF PurgeList
  <2>3. \A g \in Getters : gValue'[g] # 0 => purging' <= gValue'[g] /\ purgedTo' <= gValue'[g]
    BY <1>0, <1>2, <2>1, <2>2
  <2> QED
    BY <1>2, <2>1, <2>2, <2>3 DEF PurgeInv
<1>8. CASE PurgeDelete \/ PurgeFault
  <2>1. /\ UNCHANGED <<gValue, hashed>> /\ purging' = 0
        /\ \/ cached' = 0 /\ purgedTo' = purging
           \/ UNCHANGED <<cached, purgedTo>>
    BY <1>8 DEF PurgeDelete, PurgeFault
  <2>2. \A g \in Getters : gValue'[g] # 0 => purging' <= gValue'[g] /\ purgedTo' <= gValue'[g]
    BY <1>0, <1>2, <2>1
  <2> QED
    BY <1>2, <2>1, <2>2 DEF PurgeInv
<1> QED
  BY <1>3, <1>4, <1>5, <1>6, <1>7, <1>8 DEF CacheNext

\* No answer is older than the time to live and the time of one request; a complete
\* purge leaves no older version, unless a request held one or the key is hashed.
THEOREM AnswersAreFresh == CacheSpec => []StaleBounded
<1> DEFINE Bounded == CacheTypeInv /\ AgesInv /\ PurgeInv
<1>1. CacheInit => Bounded
  <2> SUFFICES ASSUME CacheInit PROVE Bounded
    OBVIOUS
  <2>1. AgesInv /\ PurgeInv
    BY CacheAssumption DEF CacheInit, AgesInv, PurgeInv, MaxAge
  <2> QED
    BY <2>1, CacheTypeInit
<1>2. Bounded /\ [CacheNext]_cacheAside => Bounded'
  BY CacheTypeStep, AgesStep, PurgeStep
<1>3. Bounded => StaleBounded
  <2> SUFFICES ASSUME Bounded PROVE StaleBounded
    OBVIOUS
  <2>1. cached \in Nat /\ purgedTo \in Nat
    BY CacheTyped
  <2> QED
    BY <2>1 DEF AgesInv, PurgeInv, StaleBounded
<1> QED
  BY <1>1, <1>2, <1>3, PTL DEF CacheSpec
=============================================================================
