----------------------------- MODULE ToolVersions -----------------------------
(***************************************************************************)
(* The versions of one tool: apps/api/src/tools/tool-versions.service.ts.  *)
(*                                                                         *)
(* create numbers a version after the newest active one, in one statement, *)
(* and inserts it in another.  remove only marks a row as deleted.  The    *)
(* database accepts a number once per tool, deleted rows included, and a   *)
(* slug once among the active rows (migrations/20260627100000_init_...).   *)
(*                                                                         *)
(* A slug is the number k of the name "v<k>" it has by default.  Snapshot, *)
(* changelog and status are left out.                                      *)
(***************************************************************************)
EXTENDS Naturals, Sequences

CONSTANTS
  Editors,             \* requests that may run at the same time
  MaxVersions,         \* bound: version rows
  MaxNumber,           \* bound: numbers and slugs a request may ask for
  MaxVersionRequests   \* bound: requests

ASSUME VersionAssumption ==
  MaxVersions \in Nat /\ MaxNumber \in Nat /\ MaxVersionRequests \in Nat

VARIABLES
  versions,            \* the tool_versions rows, in the order of creation
  vpc,                 \* of each request: the await executed next
  vRow,                \* of each request: the version it is about, 0 for a new one
  vNumber,             \* of each request: the number it will write
  vSlug,               \* of each request: the slug it will write
  asked,               \* requests so far
  \* History:
  renamed              \* a request asked for a number or a slug of its own

request      == <<vpc, vRow, vNumber, vSlug>>
toolVersions == <<versions, request, asked, renamed>>

Numbers == 1..MaxNumber
Version == [number : Nat, slug : Nat, deleted : BOOLEAN]

Active == {v \in DOMAIN versions : ~versions[v].deleted}

ToolVersionsInit ==
  /\ versions = << >>
  /\ vpc = [e \in Editors |-> "idle"]
  /\ vRow = [e \in Editors |-> 0]
  /\ vNumber = [e \in Editors |-> 0]
  /\ vSlug = [e \in Editors |-> 0]
  /\ asked = 0
  /\ renamed = FALSE

\* A request begins.
Ask(e) ==
  /\ vpc[e] = "idle"
  /\ asked < MaxVersionRequests
  /\ asked' = asked + 1

VGoto(e, p) == vpc' = [vpc EXCEPT ![e] = p]

Answer(e) ==
  /\ VGoto(e, "idle")
  /\ vRow' = [vRow EXCEPT ![e] = 0]
  /\ vNumber' = [vNumber EXCEPT ![e] = 0]
  /\ vSlug' = [vSlug EXCEPT ![e] = 0]

SlugFree(v, slug) == \A w \in Active \ {v} : versions[w].slug # slug

\* The unique index of the numbers.  (Mutant: deleted rows are not in it.)
ActiveNumberFree(v, n) == \A w \in Active \ {v} : versions[w].number # n
NumberFree(v, n) == \A w \in DOMAIN versions \ {v} : versions[w].number # n

-----------------------------------------------------------------------------
\* The newest active version has number n.
Newest(n) ==
  IF Active = {} THEN n = 0
  ELSE /\ \E v \in Active : versions[v].number = n
       /\ \A v \in Active : versions[v].number <= n

CreateRead(e) ==
  /\ Ask(e)
  /\ Len(versions) < MaxVersions
  /\ \E n \in {0} \union {versions[v].number : v \in Active} :
       /\ Newest(n)
       /\ vNumber' = [vNumber EXCEPT ![e] = n + 1]
  /\ \E slug \in Numbers \union {vNumber'[e]} :
       /\ vSlug' = [vSlug EXCEPT ![e] = slug]
       /\ renamed' = (renamed \/ slug # vNumber'[e])
  /\ vRow' = [vRow EXCEPT ![e] = 0]
  /\ VGoto(e, "slug")
  /\ UNCHANGED versions

\* update: the version must be active; it may ask for another number or slug.
UpdateFind(e) ==
  /\ Ask(e)
  /\ \E v \in Active, n, slug \in Numbers :
       /\ vRow' = [vRow EXCEPT ![e] = v]
       /\ vNumber' = [vNumber EXCEPT ![e] = n]
       /\ vSlug' = [vSlug EXCEPT ![e] = slug]
       /\ renamed' = (renamed \/ n # versions[v].number \/ slug # versions[v].slug)
  /\ VGoto(e, "slug")
  /\ UNCHANGED versions

RemoveFind(e) ==
  /\ Ask(e)
  /\ \E v \in Active : vRow' = [vRow EXCEPT ![e] = v]
  /\ VGoto(e, "remove")
  /\ UNCHANGED <<versions, vNumber, vSlug, renamed>>

Refuse(e) ==
  /\ Answer(e)
  /\ UNCHANGED <<versions, asked, renamed>>

\* ensureVersionSlugAvailable
SlugTaken(e) ==
  /\ vpc[e] = "slug"
  /\ ~SlugFree(vRow[e], vSlug[e])
  /\ Refuse(e)

SlugFound(e) ==
  /\ vpc[e] = "slug"
  /\ SlugFree(vRow[e], vSlug[e])
  /\ VGoto(e, "write")
  /\ UNCHANGED <<versions, vRow, vNumber, vSlug, asked, renamed>>

\* The version an update found may have been removed meanwhile.
Accepted(e) ==
  /\ NumberFree(vRow[e], vNumber[e])
  /\ vRow[e] = 0 \/ vRow[e] \in Active => SlugFree(vRow[e], vSlug[e])

WriteCreate(e) ==
  /\ vpc[e] = "write" /\ vRow[e] = 0
  /\ Accepted(e)
  /\ versions' = Append(versions,
                   [number |-> vNumber[e], slug |-> vSlug[e], deleted |-> FALSE])
  /\ Answer(e)
  /\ UNCHANGED <<asked, renamed>>

WriteUpdate(e) ==
  /\ vpc[e] = "write" /\ vRow[e] # 0
  /\ Accepted(e)
  /\ versions' = [versions EXCEPT ![vRow[e]].number = vNumber[e],
                                  ![vRow[e]].slug = vSlug[e]]
  /\ Answer(e)
  /\ UNCHANGED <<asked, renamed>>

WriteRefused(e) ==
  /\ vpc[e] = "write"
  /\ ~Accepted(e)
  /\ Refuse(e)

WriteRemove(e) ==
  /\ vpc[e] = "remove"
  /\ versions' = [versions EXCEPT ![vRow[e]].deleted = TRUE]
  /\ Answer(e)
  /\ UNCHANGED <<asked, renamed>>

-----------------------------------------------------------------------------
ToolVersionsRest == (\A e \in Editors : vpc[e] = "idle") /\ UNCHANGED toolVersions

ToolVersionsNext ==
  \/ \E e \in Editors :
       \/ CreateRead(e) \/ UpdateFind(e) \/ RemoveFind(e)
       \/ SlugTaken(e) \/ SlugFound(e)
       \/ WriteCreate(e) \/ WriteUpdate(e) \/ WriteRefused(e) \/ WriteRemove(e)
  \/ ToolVersionsRest

ToolVersionsSpec == ToolVersionsInit /\ [][ToolVersionsNext]_toolVersions

-----------------------------------------------------------------------------
(* Properties *)

ToolVersionsTypeOK ==
  /\ versions \in Seq(Version)
  /\ vpc \in [Editors -> {"idle", "slug", "write", "remove"}]
  /\ vRow \in [Editors -> 0..Len(versions)]
  /\ \A e \in Editors : vpc[e] = "remove" => vRow[e] # 0
  /\ vNumber \in [Editors -> Nat] /\ vSlug \in [Editors -> Nat]
  /\ asked \in Nat /\ renamed \in BOOLEAN

\* As long as no request asks for a number, or for a slug that is not its number's,
\* the versions ever created are numbered 1, 2, 3 ... in the order of their creation:
\* no number is used again after a removal, and no two concurrent requests share one.
NumbersInOrder ==
  ~renamed => \A v \in DOMAIN versions : versions[v].number = v
=============================================================================
