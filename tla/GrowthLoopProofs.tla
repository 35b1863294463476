-------------------------- MODULE GrowthLoopProofs --------------------------
(***************************************************************************)
(* Proofs about GrowthLoop and the WorkflowRun it uses, for every number   *)
(* of growth jobs, index tasks, crawls, edits, steps, runs and faults.     *)
(***************************************************************************)
EXTENDS GrowthLoop, FiniteSetTheorems, SequenceTheorems, TLAPS

-----------------------------------------------------------------------------
(* The inductive invariants *)

JobPcs == {"idle", "read", "clear", "link", "ensure", "assign", "geoRead", "geoWrite",
           "index", "emit", "workflow", "write"}
TaskPcs == {"idle", "read", "write", "upsert", "popRead", "popWrite"}
Crawling(n) == EnqueueCrawl(n) \/ CrawlWork(n) \/ CrawlFault(n)

\* The program counters, and what is left of a list of categories.
PcsTyped ==
  /\ jpc \in [Jobs -> JobPcs]
  /\ ipc \in [IndexTasks -> TaskPcs]
  /\ epc \in {"idle", "write", "clear", "first", "rest"}
  /\ newest \in Seq(Categories)
  /\ todo \in [Changers -> Seq(Categories)]
  /\ \A j \in Jobs : jpc[j] = "clear" => snap[j].crawled # << >>
  /\ \A j \in Jobs : jpc[j] = "link" => todo[j] # << >>
  /\ \A n \in Crawls : crawlState[n] = "active" /\ cpc[n] \in {"clear", "link"} => cList[n] # << >>
  /\ \A n \in Crawls : cpc[n] = "link" => todo[n] # << >>
  /\ \A t \in IndexTasks : taskState[t] # "active" => ipc[t] = "idle"
  /\ torn \in BOOLEAN /\ faulted \in BOOLEAN

\* A task that can still run has an execution left.
Budgeted ==
  /\ \A j \in Jobs : jobState[j] # "dead" => tries[j] < MaxTries
  /\ \A t \in IndexTasks : taskState[t] # "dead" => iTries[t] < MaxTries
  /\ \A n \in Crawls : crawlState[n] # "dead" => cTries[n] < MaxTries

\* A caller that is advancing a run has one.
RunHeld ==
  \A k \in Callers : wpc[k] \in {"read", "write"} => runOf[k] # 0 /\ looked[k] # 0

TypeInv == GrowthTypeOK /\ PcsTyped /\ Budgeted /\ RunHeld

\* What a writer has read holds all keys that were written since the last crawl,
\* except the GEO document, and that crawl's categories, until another writer writes.
AllWritten(s) == written \ {"geo"} \subseteq s.keys /\ s.crawled = newest
KeysInv ==
  ~torn =>
    /\ AllWritten(metadata)
    /\ \A j \in Jobs : jobState[j] = "active" /\ jpc[j] # "read" => AllWritten(snap[j])
    /\ \A j \in Jobs : JobAt(j, "geoWrite") => AllWritten(geoSnap[j])
    /\ \A t \in IndexTasks : ipc[t] \in {"write", "popWrite"} => AllWritten(iSnap[t])
    /\ epc = "write" => AllWritten(eSnap)

Completed(r) == runs[r].status = "COMPLETED"

\* The newest run a job has seen is completed, or it is the one the job advances.
NewestInv ==
  \A j \in Jobs :
    /\ wpc[j] \in {"read", "write"} => Completed(looked[j]) \/ runOf[j] = looked[j]
    /\ looked[j] # 0 /\ \/ wpc[j] = "back"
                        \/ JobAt(j, "write")
                        \/ jobState[j] = "done" /\ toolState # "DELETED"
         => Completed(looked[j])

\* A completed run that stands before its end is advanced by somebody.
StepsInv ==
  /\ \A r \in DOMAIN runs : runs[r].status = "RUNNING" => runs[r].step < Steps
  /\ ~faulted =>
       \A r \in DOMAIN runs :
         Completed(r) /\ runs[r].step < Steps =>
           \E k \in Callers : wpc[k] \in {"read", "write"} /\ runOf[k] = r

\* Who changes the categories, and is in the middle of it.
Listed(a) == IF a \in Jobs THEN snap[a].crawled ELSE cList[a]
TodoInv ==
  /\ \A j \in Jobs : jobState[j] # "active" => jpc[j] = "idle"
  /\ \A n \in Crawls : crawlState[n] # "active" => cpc[n] = "idle"
  /\ \A j \in Jobs : todo[j] # << >> => jpc[j] = "link"
  /\ \A n \in Crawls : todo[n] # << >> => cpc[n] = "link"
  /\ \A a \in Changers \ {Editor} : todo[a] # << >> => Len(todo[a]) <= Len(Listed(a))
  /\ todo[Editor] # << >> => epc \in {"first", "rest"}
  /\ epc = "first" => todo[Editor] # << >>

\* A tool that some job has brought past the default category has a category, or
\* somebody is going to link one.
Mending(j) ==
  jobState[j] = "waiting" \/ jpc[j] \in {"read", "clear", "link", "ensure", "assign"}
Relinking(n) ==
  cList[n] # << >> /\ (crawlState[n] = "waiting" \/ cpc[n] \in {"update", "clear", "link"})
Passed(j) ==
  \/ jobState[j] = "done"
  \/ jpc[j] \in {"geoRead", "geoWrite", "index", "emit", "workflow", "write"}
MendedInv ==
  (~Failed /\ toolState # "DELETED" /\ \E j \in Jobs : Passed(j)) =>
    \/ Linked # {} \/ todo[Editor] # << >>
    \/ \E i \in Jobs : Mending(i)
    \/ \E n \in Crawls : Relinking(n)

\* Until two changes overlap there is one at a time; what a job has found missing is
\* still missing when it creates it.
AloneInv ==
  ~clashed =>
    /\ \A a, b \in Changers : Syncing(a) /\ Syncing(b) => a = b
    /\ \A j \in Jobs : jpc[j] = "assign" => Linked = {}

\* Whoever links a list has linked nothing yet, or the primary category, which does
\* not come again.
OnlyPrimary(c) == Linked \intersect primary = {c}
AtFirst(a) == IF a = Editor THEN epc = "first" ELSE todo[a] = Listed(a)
PrimaryInv ==
  (~clashed /\ ~repeated) =>
    /\ Linked = {} \/ \E c \in Categories : OnlyPrimary(c)
    /\ \A a \in Changers : todo[a] # << >> =>
         IF AtFirst(a) THEN Linked = {} /\ Head(todo[a]) \notin Range(Tail(todo[a]))
         ELSE \E c \in Categories : OnlyPrimary(c) /\ c \notin Range(todo[a])

CategoryInv == TodoInv /\ MendedInv /\ AloneInv /\ PrimaryInv

\* The document is up to date, or a task carries the current categories to it, or a
\* task is still to read them.
EarlyPcs == {"read", "clear", "link", "ensure", "assign", "geoRead", "geoWrite"}
Ahead ==
  \/ epc # "idle"
  \/ \E j \in Jobs : \/ jobState[j] = "waiting"
                     \/ jobState[j] = "active" /\ jpc[j] \in EarlyPcs \union {"index"}
  \/ \E t \in IndexTasks : taskState[t] = "waiting" \/ ipc[t] = "read"
Carried == \E t \in IndexTasks : Indexing(t) /\ iCats[t] = Linked
DocumentInv ==
  /\ ~crossed => \A t, u \in IndexTasks : Indexing(t) /\ Indexing(u) => t = u
  /\ (toolState = "PUBLISHED" /\ ~Failed /\ ~crossed /\ ~unread) =>
       \/ Ahead \/ Carried
       \/ document = Linked /\ \A t \in IndexTasks : ~Indexing(t)

-----------------------------------------------------------------------------
(* Types *)

LEMMA TypeInit == GrowthInit => TypeInv
<1> SUFFICES ASSUME GrowthInit PROVE TypeInv
  OBVIOUS
<1>0. /\ newest \in Seq(Categories) /\ Default \in Categories
      /\ metadata \in Metadata /\ Nothing \in Metadata
  <2>1. newest \in Seq(Categories) /\ metadata = [keys |-> {}, crawled |-> newest]
    BY GrowthAssumption DEF GrowthInit
  <2>2. << >> \in Seq(Categories)
    OBVIOUS
  <2> QED
    BY <2>1, <2>2, GrowthAssumption DEF Metadata, Nothing
<1>1. runs \in Seq(Run) /\ Len(runs) \in Nat
  <2>1. NewRun \in Run /\ runs \in {<< >>, <<NewRun>>}
    BY DEF GrowthInit, WorkflowInit, NewRun, Run
  <2>2. <<NewRun>> \in Seq(Run) /\ Len(<<NewRun>>) = 1
    BY <2>1
  <2>3. << >> \in Seq(Run) /\ Len(<< >>) = 0
    OBVIOUS
  <2> QED
    BY <2>1, <2>2, <2>3
<1>2. WorkflowTypeOK /\ RunHeld
  BY <1>1 DEF GrowthInit, WorkflowInit, WorkflowTypeOK, WorkflowPcs, RunHeld
<1>3. links \in [Categories -> {"absent", "active", "deleted"}] /\ primary \subseteq Categories
  BY <1>0 DEF GrowthInit
<1>4. GrowthTypeOK
  <2>1. \A a \in Changers : todo[a] \in Seq(Categories)
    BY DEF GrowthInit
  <2>2. /\ cList \in [Crawls -> Seq(Categories)] /\ cTries \in [Crawls -> 0..MaxTries]
        /\ tries \in [Jobs -> 0..MaxTries] /\ iTries \in [IndexTasks -> 0..MaxTries]
    BY GrowthAssumption DEF GrowthInit
  <2> QED
    BY <1>0, <1>2, <1>3, <2>1, <2>2, GrowthAssumption DEF GrowthInit, GrowthTypeOK
<1>5. PcsTyped
  <2>1. todo \in [Changers -> Seq(Categories)]
    BY DEF GrowthInit
  <2> QED
    BY <1>0, <2>1 DEF GrowthInit, PcsTyped, JobPcs, TaskPcs
<1>6. Budgeted
  BY GrowthAssumption DEF GrowthInit, Budgeted
<1> QED
  BY <1>2, <1>4, <1>5, <1>6 DEF TypeInv

\* The workflow runs, whichever caller does what.
LEMMA WorkflowTyped ==
  ASSUME WorkflowTypeOK, RunHeld,
         \/ \E k \in Callers : CallComplete(k) \/ WorkflowStep(k) \/ Return(k)
         \/ StartRun \/ UNCHANGED workflow
  PROVE  WorkflowTypeOK' /\ RunHeld'
<1> USE DEF WorkflowTypeOK, RunHeld, WorkflowPcs
<1>0. Len(runs) \in Nat /\ DOMAIN runs = 1..Len(runs) /\ \A r \in DOMAIN runs : runs[r] \in Run
  OBVIOUS
<1>1. ASSUME NEW k \in Callers, CallComplete(k) PROVE WorkflowTypeOK' /\ RunHeld'
  BY <1>0, <1>1 DEF CallComplete
<1>2. ASSUME NEW k \in Callers, Return(k) PROVE WorkflowTypeOK' /\ RunHeld'
  BY <1>0, <1>2 DEF Return
<1>3. ASSUME NEW k \in Callers, FindRun(k) PROVE WorkflowTypeOK' /\ RunHeld'
  <2>1. PICK r \in Open : runOf' = [runOf EXCEPT ![k] = r]
    BY <1>3 DEF FindRun
  <2>2. r \in 1..Len(runs)
    BY <1>0, <2>1 DEF Open
  <2>3. Len(runs) # 0
    BY <1>0, <2>2
  <2>4. /\ UNCHANGED <<runs, stepOf>> /\ looked' = [looked EXCEPT ![k] = Len(runs)]
        /\ wpc' = [wpc EXCEPT ![k] = "read"]
    BY <1>3 DEF FindRun
  <2> QED
    BY <1>0, <2>1, <2>2, <2>3, <2>4
<1>4. ASSUME NEW k \in Callers, FindNothing(k) PROVE WorkflowTypeOK' /\ RunHeld'
  BY <1>0, <1>4 DEF FindNothing
<1>5. ASSUME NEW k \in Callers, AdvanceRead(k) PROVE WorkflowTypeOK' /\ RunHeld'
  <2>1. runs[runOf[k]].step \in Nat
    BY <1>0, <1>5 DEF AdvanceRead, Run
  <2> QED
    BY <1>0, <1>5, <2>1 DEF AdvanceRead
<1>6. ASSUME NEW k \in Callers, AdvanceStep(k) \/ AdvanceLast(k)
      PROVE  WorkflowTypeOK' /\ RunHeld'
  <2>1. runOf[k] \in DOMAIN runs /\ NextIndex(k) \in Nat /\ runs[runOf[k]] \in Run
    BY <1>0, <1>6 DEF AdvanceStep, AdvanceLast, NextIndex
  <2>2. \E n \in Run : runs' = [runs EXCEPT ![runOf[k]] = n]
    <3>1. CASE AdvanceStep(k)
      <4>1. [runs[runOf[k]] EXCEPT !.step = NextIndex(k)] \in Run
        BY <2>1 DEF Run
      <4> QED
        BY <2>1, <3>1, <4>1 DEF AdvanceStep
    <3>2. CASE AdvanceLast(k)
      <4>1. Finished(k, runs[runOf[k]]) \in Run
        BY <2>1 DEF Run, Finished
      <4> QED
        BY <2>1, <3>2, <4>1 DEF AdvanceLast
    <3> QED
      BY <1>6, <3>1, <3>2
  <2>3. runs' \in Seq(Run) /\ Len(runs') = Len(runs)
    BY <1>0, <2>1, <2>2
  <2> QED
    BY <1>0, <1>6, <2>3 DEF AdvanceStep, AdvanceLast
<1>7. CASE StartRun
  <2>1. runs' \in Seq(Run) /\ Len(runs') = Len(runs) + 1
    BY <1>7 DEF StartRun, NewRun, Run
  <2> QED
    BY <1>0, <1>7, <2>1 DEF StartRun
<1>8. CASE UNCHANGED workflow
  BY <1>8 DEF workflow
<1> QED
  BY <1>1, <1>2, <1>3, <1>4, <1>5, <1>6, <1>7, <1>8 DEF WorkflowStep

\* What the changes of the metadata and of the links keep.
LEMMA Shared ==
  ASSUME TypeInv, NEW a \in Changers \union IndexTasks, NEW s \in Metadata,
         NEW key \in Keys, WriteMetadata(a, s, key)
  PROVE  metadata' \in Metadata /\ written' \subseteq Keys /\ torn' \in BOOLEAN
BY DEF WriteMetadata, Merged, Metadata, TypeInv, GrowthTypeOK, PcsTyped

LEMMA Cleared ==
  ASSUME TypeInv, NEW a \in Changers, NEW list \in Seq(Categories),
         ClearLinks(a, list)
  PROVE  /\ links' \in [Categories -> {"absent", "active", "deleted"}]
         /\ todo' \in [Changers -> Seq(Categories)]
         /\ todo'[a] = list
         /\ \A b \in Changers : b # a => todo'[b] = todo[b]
<1>1. /\ links \in [Categories -> {"absent", "active", "deleted"}]
      /\ todo \in [Changers -> Seq(Categories)]
  BY DEF TypeInv, GrowthTypeOK, PcsTyped
<1> QED
  BY <1>1 DEF ClearLinks

LEMMA LinkMade ==
  ASSUME TypeInv, NEW a \in Changers, todo[a] # << >>,
         NEW isFirst \in BOOLEAN, UpsertLink(a, isFirst)
  PROVE  /\ links' \in [Categories -> {"absent", "active", "deleted"}]
         /\ primary' \subseteq Categories
         /\ todo' \in [Changers -> Seq(Categories)]
         /\ Len(todo[a]) # 1 => todo'[a] # << >>
         /\ \A b \in Changers : b # a => todo'[b] = todo[b]
<1>1. /\ links \in [Categories -> {"absent", "active", "deleted"}]
      /\ primary \subseteq Categories
      /\ todo \in [Changers -> Seq(Categories)]
  BY DEF TypeInv, GrowthTypeOK, PcsTyped
<1>2. todo[a] \in Seq(Categories)
  BY <1>1
<1>3. Head(todo[a]) \in Categories /\ Tail(todo[a]) \in Seq(Categories)
  BY <1>2
<1>4. Len(todo[a]) # 1 => Tail(todo[a]) # << >>
  <2> SUFFICES ASSUME Len(todo[a]) # 1, Tail(todo[a]) = << >> PROVE FALSE
    OBVIOUS
  <2>1. Len(todo[a]) # 0 /\ Len(Tail(todo[a])) = Len(todo[a]) - 1
    BY <1>2
  <2>2. Len(Tail(todo[a])) = 0
    <3>1. \A q : q = << >> => Len(q) = 0
      OBVIOUS
    <3> QED
      BY <3>1, Zenon
  <2> QED
    BY <1>2, <2>1, <2>2
<1>5. links' = [links EXCEPT ![Head(todo[a])] = "active"]
  BY DEF UpsertLink
<1>6. primary' \subseteq primary \union {Head(todo[a])}
  BY DEF UpsertLink, Flag
<1>7. todo' = [todo EXCEPT ![a] = Tail(todo[a])]
  BY DEF UpsertLink
<1> QED
  BY <1>1, <1>3, <1>4, <1>5, <1>6, <1>7

LEMMA NothingTyped == Nothing \in Metadata
<1>1. << >> \in Seq(Categories)
  OBVIOUS
<1> QED
  BY <1>1 DEF Nothing, Metadata

\* A step of a growth job.
LEMMA TypeOfJob ==
  ASSUME TypeInv, NEW j \in Jobs, EnqueueGrowth(j) \/ JobWork(j) \/ JobFault(j)
  PROVE  TypeInv'
<1>0. /\ TypeInv /\ WorkflowTypeOK /\ RunHeld
      /\ j \in Changers /\ j \in Changers \union IndexTasks
      /\ MaxTries \in Nat /\ MaxLoad \in Nat /\ Nothing \in Metadata
      /\ snap[j] \in Metadata /\ geoSnap[j] \in Metadata
      /\ j \notin Crawls /\ Jobs \subseteq Changers /\ Crawls \subseteq Changers
  BY GrowthAssumption, NothingTyped DEF TypeInv, GrowthTypeOK, Changers, Jobs
<1>1. WorkflowTypeOK' /\ RunHeld'
  <2>1. \/ \E k \in Callers : CallComplete(k) \/ WorkflowStep(k) \/ Return(k)
        \/ StartRun \/ UNCHANGED workflow
    BY DEF EnqueueGrowth, JobWork, JobFault, JobTake, JobToolGone, JobRead, JobClear,
           JobLink, JobEnsure, JobAssign, JobAssignConflict, JobGeoRead, JobGeoWrite,
           JobIndex, JobComplete, JobWorkflow, JobReturn, JobWrite, JobFails, Jobs
  <2> QED
    BY <1>0, <2>1, WorkflowTyped
<1> USE DEF GrowthTypeOK, PcsTyped, Budgeted, JobPcs, tool, jobs, tasks, edit, crawls, history,
            JobGoto, JobAt, JobLeave, Spend
<1>2. CASE EnqueueGrowth(j)
  <2>1. jobState' = [jobState EXCEPT ![j] = "waiting"] /\ load' \in 0..MaxLoad
        /\ tries[j] < MaxTries
    BY <1>0, <1>2 DEF EnqueueGrowth, TypeInv
  <2> QED
    BY <1>0, <1>1, <1>2, <2>1 DEF EnqueueGrowth, TypeInv
<1>13. CASE JobTake(j)
  BY <1>0, <1>1, <1>13 DEF JobTake, TypeInv
<1>3. CASE JobToolGone(j)
  BY <1>0, <1>1, <1>3 DEF JobToolGone, TypeInv
<1>14. CASE JobRead(j)
  BY <1>0, <1>1, <1>14 DEF JobRead, TypeInv
<1>4. CASE JobClear(j)
  <2>1. /\ ClearLinks(j, snap[j].crawled) /\ snap[j].crawled # << >>
        /\ snap[j].crawled \in Seq(Categories)
    BY <1>0, <1>4 DEF JobClear, TypeInv, Metadata
  <2>2. /\ links' \in [Categories -> {"absent", "active", "deleted"}]
        /\ todo' \in [Changers -> Seq(Categories)]
        /\ todo'[j] = snap[j].crawled
        /\ \A b \in Changers : b # j => todo'[b] = todo[b]
    BY <1>0, <2>1, Cleared
  <2>3. GrowthTypeOK'
    BY <1>0, <1>1, <1>4, <2>1, <2>2 DEF JobClear, TypeInv
  <2>4. PcsTyped'
    BY <1>0, <1>1, <1>4, <2>1, <2>2 DEF JobClear, TypeInv
  <2>5. Budgeted'
    BY <1>0, <1>1, <1>4, <2>1, <2>2 DEF JobClear, TypeInv
  <2> QED
    BY <1>1, <2>3, <2>4, <2>5 DEF TypeInv
<1>5. CASE JobLink(j)
  <2>1. /\ todo[j] # << >> /\ (todo[j] = snap[j].crawled) \in BOOLEAN
        /\ UpsertLink(j, todo[j] = snap[j].crawled)
    BY <1>0, <1>5 DEF JobLink, TypeInv
  <2>2. /\ links' \in [Categories -> {"absent", "active", "deleted"}]
        /\ primary' \subseteq Categories
        /\ todo' \in [Changers -> Seq(Categories)]
        /\ Len(todo[j]) # 1 => todo'[j] # << >>
        /\ \A b \in Changers : b # j => todo'[b] = todo[b]
    BY <1>0, <2>1, LinkMade
  <2>3. GrowthTypeOK'
    BY <1>0, <1>1, <1>5, <2>1, <2>2 DEF JobLink, TypeInv
  <2>4. PcsTyped'
    BY <1>0, <1>1, <1>5, <2>1, <2>2 DEF JobLink, TypeInv
  <2>5. Budgeted'
    BY <1>0, <1>1, <1>5, <2>1, <2>2 DEF JobLink, TypeInv
  <2> QED
    BY <1>1, <2>3, <2>4, <2>5 DEF TypeInv
<1>6. CASE JobEnsure(j) \/ JobGeoRead(j)
  <2>1. CASE JobEnsure(j)
    BY <1>0, <1>1, <2>1 DEF JobEnsure, TypeInv
  <2>2. CASE JobGeoRead(j)
    BY <1>0, <1>1, <2>2 DEF JobGeoRead, TypeInv
  <2> QED
    BY <1>6, <2>1, <2>2
<1>7. CASE JobAssign(j)
  BY <1>0, <1>1, <1>7, GrowthAssumption DEF JobAssign, TypeInv
<1>8. CASE JobGeoWrite(j)
  <2>1. metadata' \in Metadata /\ written' \subseteq Keys /\ torn' \in BOOLEAN
    BY <1>0, <1>8, Shared DEF JobGeoWrite, TypeInv, Keys
  <2> QED
    BY <1>0, <1>1, <1>8, <2>1 DEF JobGeoWrite, TypeInv
<1>9. CASE JobIndex(j)
  BY <1>0, <1>1, <1>9 DEF JobIndex, EnqueueIndex, TypeInv
<1>10. CASE JobComplete(j) \/ JobWorkflow(j) \/ JobReturn(j)
  <2>1. CASE JobComplete(j)
    BY <1>0, <1>1, <2>1 DEF JobComplete, TypeInv
  <2>2. CASE JobWorkflow(j)
    BY <1>0, <1>1, <2>2 DEF JobWorkflow, TypeInv
  <2>3. CASE JobReturn(j)
    BY <1>0, <1>1, <2>3 DEF JobReturn, TypeInv
  <2> QED
    BY <1>10, <2>1, <2>2, <2>3
<1>11. CASE JobWrite(j)
  <2>1. metadata' \in Metadata /\ written' \subseteq Keys /\ torn' \in BOOLEAN
    BY <1>0, <1>11, Shared DEF JobWrite, TypeInv, Keys
  <2> QED
    BY <1>0, <1>1, <1>11, <2>1 DEF JobWrite, TypeInv
<1>12. CASE JobAssignConflict(j) \/ JobFault(j)
  <2>1. JobFails(j) /\ load' \in 0..MaxLoad /\ jobState[j] = "active"
    BY <1>0, <1>12 DEF JobAssignConflict, JobFault, TypeInv
  <2>2. /\ todo' \in [Changers -> Seq(Categories)]
        /\ \A b \in Changers : b # j => todo'[b] = todo[b]
    <3>1. /\ todo \in [Changers -> Seq(Categories)] /\ << >> \in Seq(Categories)
          /\ todo' = [todo EXCEPT ![j] = << >>]
      BY <1>0, <2>1 DEF JobFails, TypeInv
    <3> QED
      BY <1>0, <3>1
  <2>3. /\ tries[j] < MaxTries /\ tries[j] \in Nat
        /\ tries' = [tries EXCEPT ![j] = tries[j] + 1]
        /\ jobState' = [jobState EXCEPT ![j] = AfterFailure(tries[j])]
        /\ AfterFailure(tries[j]) \in {"waiting", "dead"}
        /\ AfterFailure(tries[j]) = "waiting" => tries[j] + 1 < MaxTries
    <3>1. tries[j] \in 0..MaxTries /\ tries[j] < MaxTries
      BY <1>0, <2>1 DEF TypeInv
    <3>2. /\ AfterFailure(tries[j]) \in {"waiting", "dead"}
          /\ AfterFailure(tries[j]) = "waiting" => tries[j] + 1 < MaxTries
      BY <3>1 DEF AfterFailure
    <3>3. /\ jobState' = [jobState EXCEPT ![j] = AfterFailure(tries[j])]
          /\ tries' = [tries EXCEPT ![j] = tries[j] + 1]
      BY <2>1 DEF JobFails
    <3> QED
      BY <1>0, <3>1, <3>2, <3>3
  <2>4. Budgeted'
    BY <1>0, <2>1, <2>3 DEF JobFails, TypeInv
  <2>5. GrowthTypeOK'
    BY <1>0, <1>1, <2>1, <2>2, <2>3 DEF JobFails, TypeInv
  <2>6. PcsTyped'
    BY <1>0, <2>1, <2>2 DEF JobFails, TypeInv
  <2> QED
    BY <1>1, <2>4, <2>5, <2>6 DEF TypeInv
<1> QED
  BY <1>2, <1>3, <1>4, <1>5, <1>6, <1>7, <1>8, <1>9, <1>10, <1>11, <1>12, <1>13,
     <1>14 DEF JobWork

\* A step of a search index task.
LEMMA TypeOfTask ==
  ASSUME TypeInv, NEW t \in IndexTasks, TaskWork(t) \/ TaskFault(t)
  PROVE  TypeInv'
<1>0. /\ TypeInv /\ WorkflowTypeOK /\ RunHeld
      /\ t \in Changers \union IndexTasks
      /\ MaxTries \in Nat /\ MaxLoad \in Nat /\ Nothing \in Metadata
      /\ iSnap[t] \in Metadata
  BY GrowthAssumption, NothingTyped DEF TypeInv, GrowthTypeOK
<1>1. WorkflowTypeOK' /\ RunHeld'
  <2>1. UNCHANGED workflow
    BY DEF TaskWork, TaskFault, TaskTake, TaskRead, TaskRemove, TaskWrite, TaskUpsert,
           TaskPopRead, TaskPopGone, TaskPopWrite
  <2> QED
    BY <1>0, <2>1, WorkflowTyped
<1> USE DEF GrowthTypeOK, PcsTyped, Budgeted, TaskPcs, tool, jobs, tasks, edit, crawls, history,
            TaskAt, TaskLeave, Spend
<1>2. CASE TaskTake(t)
  BY <1>0, <1>1, <1>2 DEF TaskTake, TypeInv
<1>7. CASE TaskRead(t)
  <2>1. iCats' \in [IndexTasks -> SUBSET Categories]
    BY <1>0, <1>7 DEF TaskRead, Linked, TypeInv
  <2> QED
    BY <1>0, <1>1, <1>7, <2>1 DEF TaskRead, TypeInv
<1>8. CASE TaskRemove(t)
  BY <1>0, <1>1, <1>8 DEF TaskRemove, TypeInv
<1>3. CASE TaskWrite(t)
  <2>1. metadata' \in Metadata /\ written' \subseteq Keys /\ torn' \in BOOLEAN
    BY <1>0, <1>3, Shared DEF TaskWrite, TypeInv, Keys
  <2> QED
    BY <1>0, <1>1, <1>3, <2>1 DEF TaskWrite, TypeInv
<1>4. CASE TaskUpsert(t) \/ TaskPopRead(t) \/ TaskPopGone(t)
  <2>1. CASE TaskUpsert(t)
    BY <1>0, <1>1, <2>1 DEF TaskUpsert, TypeInv
  <2>2. CASE TaskPopRead(t)
    BY <1>0, <1>1, <2>2 DEF TaskPopRead, TypeInv
  <2>3. CASE TaskPopGone(t)
    BY <1>0, <1>1, <2>3 DEF TaskPopGone, TypeInv
  <2> QED
    BY <1>4, <2>1, <2>2, <2>3
<1>5. CASE TaskPopWrite(t)
  <2>1. metadata' \in Metadata /\ written' \subseteq Keys /\ torn' \in BOOLEAN
    BY <1>0, <1>5, Shared DEF TaskPopWrite, TypeInv, Keys
  <2> QED
    BY <1>0, <1>1, <1>5, <2>1 DEF TaskPopWrite, TypeInv
<1>6. CASE TaskFault(t)
  <2>1. /\ iTries[t] < MaxTries /\ iTries[t] \in Nat /\ load' \in 0..MaxLoad
        /\ iTries' = [iTries EXCEPT ![t] = iTries[t] + 1]
        /\ taskState' = [taskState EXCEPT ![t] = AfterFailure(iTries[t])]
        /\ AfterFailure(iTries[t]) \in {"waiting", "dead"}
        /\ AfterFailure(iTries[t]) = "waiting" => iTries[t] + 1 < MaxTries
    <3>1. /\ iTries[t] \in 0..MaxTries /\ iTries[t] < MaxTries
          /\ load' \in 0..MaxLoad
      BY <1>0, <1>6 DEF TaskFault, TypeInv
    <3>2. /\ AfterFailure(iTries[t]) \in {"waiting", "dead"}
          /\ AfterFailure(iTries[t]) = "waiting" => iTries[t] + 1 < MaxTries
      BY <3>1 DEF AfterFailure
    <3>3. /\ taskState' = [taskState EXCEPT ![t] = AfterFailure(iTries[t])]
          /\ iTries' = [iTries EXCEPT ![t] = iTries[t] + 1]
      BY <1>6 DEF TaskFault
    <3> QED
      BY <1>0, <3>1, <3>2, <3>3
  <2>2. Budgeted'
    BY <1>0, <1>6, <2>1 DEF TaskFault, TypeInv
  <2>3. GrowthTypeOK'
    BY <1>0, <1>1, <1>6, <2>1 DEF TaskFault, TypeInv
  <2>4. PcsTyped'
    BY <1>0, <1>6, <2>1 DEF TaskFault, TypeInv
  <2> QED
    BY <1>1, <2>2, <2>3, <2>4 DEF TypeInv
<1> QED
  BY <1>2, <1>3, <1>4, <1>5, <1>6, <1>7, <1>8 DEF TaskWork

\* A step of the editor, and the events around the tool.
LEMMA TypeOfOthers ==
  ASSUME TypeInv, \/ EditStart \/ EditWork \/ EditFault
                  \/ Withdraw \/ UNCHANGED vars
  PROVE  TypeInv'
<1>0. /\ TypeInv /\ WorkflowTypeOK /\ RunHeld
      /\ Editor \in Changers /\ Editor \in Changers \union IndexTasks
      /\ Editor \notin Jobs /\ Editor \notin Crawls /\ MaxLoad \in Nat
      /\ Jobs \subseteq Changers /\ Crawls \subseteq Changers
      /\ EditLists \subseteq Seq(Categories)
      /\ Nothing \in Metadata /\ eSnap \in Metadata
  BY GrowthAssumption, NothingTyped DEF TypeInv, GrowthTypeOK, Jobs, Changers
<1>1. WorkflowTypeOK' /\ RunHeld'
  <2>1. UNCHANGED workflow
    BY DEF EditStart, EditWork, EditFault, EditWrite, EditClear, EditLink, EditIndex,
           Withdraw, vars
  <2> QED
    BY <1>0, <2>1, WorkflowTyped
<1> USE DEF GrowthTypeOK, PcsTyped, Budgeted, tool, jobs, tasks, edit, crawls, history,
            Spend
<1>2. CASE EditStart \/ Withdraw
  BY <1>0, <1>1, <1>2 DEF EditStart, Withdraw, TypeInv
<1>3. CASE EditWrite
  <2>1. metadata' \in Metadata /\ written' \subseteq Keys /\ torn' \in BOOLEAN
    BY <1>0, <1>3, Shared DEF EditWrite, TypeInv, Keys
  <2> QED
    BY <1>0, <1>1, <1>3, <2>1 DEF EditWrite, TypeInv
<1>4. CASE EditClear
  <2>1. PICK list \in EditLists : ClearLinks(Editor, list)
    BY <1>4 DEF EditClear
  <2>2. /\ links' \in [Categories -> {"absent", "active", "deleted"}]
        /\ todo' \in [Changers -> Seq(Categories)]
        /\ \A b \in Changers : b # Editor => todo'[b] = todo[b]
    BY <1>0, <2>1, Cleared
  <2>3. GrowthTypeOK'
    BY <1>0, <1>1, <1>4, <2>2 DEF EditClear, TypeInv
  <2>4. PcsTyped'
    BY <1>0, <1>1, <1>4, <2>2 DEF EditClear, TypeInv
  <2>5. Budgeted'
    BY <1>0, <1>1, <1>4, <2>2 DEF EditClear, TypeInv
  <2> QED
    BY <1>1, <2>3, <2>4, <2>5 DEF TypeInv
<1>5. CASE EditLink
  <2>1. todo[Editor] # << >> /\ (epc = "first") \in BOOLEAN /\ UpsertLink(Editor, epc = "first")
    BY <1>5 DEF EditLink
  <2>2. /\ links' \in [Categories -> {"absent", "active", "deleted"}]
        /\ primary' \subseteq Categories
        /\ todo' \in [Changers -> Seq(Categories)]
        /\ \A b \in Changers : b # Editor => todo'[b] = todo[b]
    BY <1>0, <2>1, LinkMade
  <2>3. GrowthTypeOK'
    BY <1>0, <1>1, <1>5, <2>2 DEF EditLink, TypeInv
  <2>4. PcsTyped'
    BY <1>0, <1>1, <1>5, <2>2 DEF EditLink, TypeInv
  <2>5. Budgeted'
    BY <1>0, <1>1, <1>5, <2>2 DEF EditLink, TypeInv
  <2> QED
    BY <1>1, <2>3, <2>4, <2>5 DEF TypeInv
<1>6. CASE EditIndex
  BY <1>0, <1>1, <1>6 DEF EditIndex, EnqueueIndex, TypeInv
<1>7. CASE EditFault
  <2>1. todo' \in [Changers -> Seq(Categories)]
    BY <1>0, <1>7 DEF EditFault, TypeInv
  <2> QED
    BY <1>0, <1>1, <1>7, <2>1 DEF EditFault, TypeInv
<1>8. CASE UNCHANGED vars
  BY <1>0, <1>1, <1>8 DEF vars, TypeInv
<1> QED
  BY <1>2, <1>3, <1>4, <1>5, <1>6, <1>7, <1>8 DEF EditWork

\* What a crawl leaves alone, and the run it may open.
LEMMA CrawlFrame ==
  ASSUME NEW n \in Crawls, Crawling(n)
  PROVE  /\ UNCHANGED <<toolState, document, jobs, tasks, edit, crossed, abandoned>>
         /\ CrawlUpdate(n) \/ UNCHANGED <<metadata, written, newest, torn>>
         /\ \/ CrawlClear(n) \/ CrawlLink(n) \/ CrawlFault(n)
            \/ UNCHANGED <<links, primary, todo, clashed, repeated, unread>>
         /\ \/ StartRun /\ UNCHANGED faulted
            \/ UNCHANGED workflow /\ (faulted' \/ faulted' = faulted)
BY DEF Crawling, CrawlWork, EnqueueCrawl, CrawlFind, CrawlToolGone, CrawlUpdate, CrawlClear,
       CrawlLink, CrawlRun, CrawlFault, tool, history

\* A step of a crawl.
LEMMA TypeOfCrawl ==
  ASSUME TypeInv, NEW n \in Crawls, Crawling(n)
  PROVE  TypeInv'
<1>0. /\ TypeInv /\ WorkflowTypeOK /\ RunHeld /\ n \in Changers
      /\ MaxTries \in Nat /\ MaxLoad \in Nat /\ CrawlLists \subseteq Seq(Categories)
      /\ cList[n] \in Seq(Categories) /\ todo \in [Changers -> Seq(Categories)]
      /\ n \notin Jobs /\ n # Editor
      /\ Jobs \subseteq Changers /\ Crawls \subseteq Changers
  BY GrowthAssumption DEF TypeInv, GrowthTypeOK, PcsTyped, Changers, Jobs
<1>1. WorkflowTypeOK' /\ RunHeld'
  BY <1>0, CrawlFrame, WorkflowTyped
<1> USE DEF GrowthTypeOK, PcsTyped, Budgeted, tool, jobs, tasks, edit, crawls, history,
            CrawlGoto, CrawlAt, CrawlLeave, Spend
<1>2. CASE EnqueueCrawl(n)
  <2>1. PICK list \in CrawlLists : cList' = [cList EXCEPT ![n] = list]
    BY <1>2 DEF EnqueueCrawl
  <2>2. cList' \in [Crawls -> Seq(Categories)]
    BY <1>0, <2>1 DEF TypeInv
  <2>3. GrowthTypeOK'
    BY <1>0, <1>1, <1>2, <2>1, <2>2 DEF EnqueueCrawl, TypeInv
  <2>4. PcsTyped'
    BY <1>0, <1>1, <1>2, <2>1, <2>2 DEF EnqueueCrawl, TypeInv
  <2>5. Budgeted'
    BY <1>0, <1>1, <1>2, <2>1, <2>2 DEF EnqueueCrawl, TypeInv
  <2> QED
    BY <1>1, <2>3, <2>4, <2>5 DEF TypeInv
<1>3. CASE CrawlFind(n) \/ CrawlToolGone(n) \/ CrawlRun(n)
  <2>1. CASE CrawlFind(n)
    BY <1>0, <1>1, <2>1 DEF CrawlFind, TypeInv
  <2>2. CASE CrawlToolGone(n)
    BY <1>0, <1>1, <2>2 DEF CrawlToolGone, TypeInv
  <2>3. CASE CrawlRun(n)
    BY <1>0, <1>1, <2>3 DEF CrawlRun, TypeInv
  <2> QED
    BY <1>3, <2>1, <2>2, <2>3
<1>4. CASE CrawlUpdate(n)
  <2>1. metadata' \in Metadata /\ newest' \in Seq(Categories)
    BY <1>0, <1>4 DEF CrawlUpdate, Metadata
  <2> QED
    BY <1>0, <1>1, <1>4, <2>1 DEF CrawlUpdate, TypeInv
<1>5. CASE CrawlClear(n)
  <2>1. ClearLinks(n, cList[n]) /\ cList[n] # << >>
    BY <1>0, <1>5 DEF CrawlClear, TypeInv
  <2>2. /\ links' \in [Categories -> {"absent", "active", "deleted"}]
        /\ todo' \in [Changers -> Seq(Categories)] /\ todo'[n] = cList[n]
        /\ \A b \in Changers : b # n => todo'[b] = todo[b]
    BY <1>0, <2>1, Cleared
  <2> QED
    BY <1>0, <1>1, <1>5, <2>1, <2>2 DEF CrawlClear, TypeInv
<1>6. CASE CrawlLink(n)
  <2>1. /\ todo[n] # << >> /\ (todo[n] = cList[n]) \in BOOLEAN
        /\ UpsertLink(n, todo[n] = cList[n])
    BY <1>0, <1>6 DEF CrawlLink, TypeInv
  <2>2. /\ links' \in [Categories -> {"absent", "active", "deleted"}]
        /\ primary' \subseteq Categories
        /\ todo' \in [Changers -> Seq(Categories)]
        /\ Len(todo[n]) # 1 => todo'[n] # << >>
        /\ \A b \in Changers : b # n => todo'[b] = todo[b]
    BY <1>0, <2>1, LinkMade
  <2> QED
    BY <1>0, <1>1, <1>6, <2>1, <2>2 DEF CrawlLink, TypeInv
<1>7. CASE CrawlFault(n)
  <2>1. /\ crawlState[n] = "active" /\ load' \in 0..MaxLoad
        /\ cTries[n] \in 0..MaxTries /\ cTries[n] < MaxTries
        /\ cTries' = [cTries EXCEPT ![n] = cTries[n] + 1]
        /\ crawlState' = [crawlState EXCEPT ![n] = AfterFailure(cTries[n])]
        /\ cpc' = [cpc EXCEPT ![n] = "idle"] /\ todo' = [todo EXCEPT ![n] = << >>]
    BY <1>0, <1>7 DEF CrawlFault, TypeInv
  <2>2. /\ AfterFailure(cTries[n]) \in {"waiting", "dead"}
        /\ AfterFailure(cTries[n]) = "waiting" => cTries[n] + 1 < MaxTries
    BY <2>1 DEF AfterFailure
  <2>3. todo' \in [Changers -> Seq(Categories)]
    BY <1>0, <2>1
  <2>4. Budgeted'
    BY <1>0, <1>7, <2>1, <2>2 DEF CrawlFault, TypeInv
  <2>5. GrowthTypeOK'
    BY <1>0, <1>1, <1>7, <2>1, <2>2, <2>3 DEF CrawlFault, TypeInv
  <2>6. PcsTyped'
    BY <1>0, <1>7, <2>1, <2>3 DEF CrawlFault, TypeInv, Changers
  <2> QED
    BY <1>1, <2>4, <2>5, <2>6 DEF TypeInv
<1> QED
  BY <1>2, <1>3, <1>4, <1>5, <1>6, <1>7 DEF Crawling, CrawlWork

\* Every step is one of these.
LEMMA EveryStep ==
  ASSUME [GrowthNext]_vars
  PROVE  \/ \E j \in Jobs : EnqueueGrowth(j) \/ JobWork(j) \/ JobFault(j)
         \/ \E t \in IndexTasks : TaskWork(t) \/ TaskFault(t)
         \/ \E n \in Crawls : Crawling(n)
         \/ EditStart \/ EditWork \/ EditFault \/ Withdraw \/ UNCHANGED vars
BY DEF GrowthNext, GrowthRest, Crawling

LEMMA TypeStep == ASSUME TypeInv, [GrowthNext]_vars PROVE TypeInv'
BY EveryStep, TypeOfJob, TypeOfTask, TypeOfCrawl, TypeOfOthers

\* The type invariant of the growth loop, its index tasks, crawls, editor and workflow
\* runs: no task is executed once too often, and no job advances a run it has not found.
THEOREM GrowthTypeCorrect == GrowthSpec => []GrowthTypeOK
<1>1. TypeInv /\ [GrowthNext]_vars => TypeInv'
  BY TypeStep
<1>2. TypeInv => GrowthTypeOK
  BY DEF TypeInv
<1> QED
  BY TypeInit, <1>1, <1>2, PTL DEF GrowthSpec

-----------------------------------------------------------------------------
(* The workflow runs *)

\* What TypeInv says of the variables that the workflow is about.
LEMMA RunsTyped ==
  ASSUME TypeInv
  PROVE  /\ runs \in Seq(Run) /\ Len(runs) \in Nat /\ DOMAIN runs = 1..Len(runs)
         /\ \A r \in DOMAIN runs : runs[r] \in Run
         /\ wpc \in [Callers -> WorkflowPcs]
         /\ runOf \in [Callers -> 0..Len(runs)] /\ looked \in [Callers -> 0..Len(runs)]
         /\ \A k \in Callers : looked[k] # 0 => looked[k] \in DOMAIN runs
         /\ \A k \in Callers : wpc[k] \in {"read", "write"} =>
              runOf[k] \in DOMAIN runs /\ looked[k] # 0
         /\ jpc \in [Jobs -> JobPcs]
         /\ jobState \in [Jobs -> {"none", "waiting", "active", "done", "dead"}]
BY DEF TypeInv, GrowthTypeOK, WorkflowTypeOK, PcsTyped, RunHeld

\* Steps that leave the workflow alone and neither end a job nor bring it to its
\* last await.
LEMMA NewestKept ==
  ASSUME TypeInv, NewestInv, UNCHANGED workflow,
         toolState' # "DELETED" => toolState # "DELETED",
         \A j \in Jobs :
           /\ JobAt(j, "write")' => JobAt(j, "write")
           /\ jobState'[j] = "done" => jobState[j] = "done" \/ toolState' = "DELETED"
  PROVE  NewestInv'
BY DEF NewestInv, workflow, Completed

LEMMA NewestOfJob ==
  ASSUME TypeInv, NewestInv, NEW j \in Jobs, EnqueueGrowth(j) \/ JobWork(j) \/ JobFault(j)
  PROVE  NewestInv'
<1>0. /\ TypeInv /\ Jobs = Callers
      /\ jpc \in [Jobs -> JobPcs]
      /\ jobState \in [Jobs -> {"none", "waiting", "active", "done", "dead"}]
  BY RunsTyped DEF Jobs
<1>1. CASE \/ EnqueueGrowth(j) \/ JobTake(j) \/ JobToolGone(j) \/ JobRead(j)
           \/ JobClear(j) \/ JobLink(j) \/ JobEnsure(j) \/ JobAssign(j)
           \/ JobGeoRead(j) \/ JobGeoWrite(j) \/ JobIndex(j)
  <2>1. UNCHANGED <<toolState, workflow>>
    BY <1>1 DEF EnqueueGrowth, JobTake, JobToolGone, JobRead, JobClear, JobLink, JobEnsure,
                JobAssign, JobGeoRead, JobGeoWrite, JobIndex, tool
  <2>2. \A i \in Jobs \ {j} : jpc'[i] = jpc[i] /\ jobState'[i] = jobState[i]
    BY <1>0, <1>1
       DEF EnqueueGrowth, JobTake, JobToolGone, JobRead, JobClear, JobLink, JobEnsure,
           JobAssign, JobGeoRead, JobGeoWrite, JobIndex, JobGoto, JobLeave
  <2>3. /\ jobState'[j] \in {"waiting", "active"} \/ toolState' = "DELETED"
        /\ jpc'[j] # "write" \/ jobState'[j] # "active"
    <3>1. CASE EnqueueGrowth(j) \/ JobTake(j)
      BY <1>0, <3>1 DEF EnqueueGrowth, JobTake, JobGoto
    <3>2. CASE JobToolGone(j)
      BY <1>0, <2>1, <3>2 DEF JobToolGone, JobGoto, JobLeave
    <3>3. CASE JobRead(j) \/ JobClear(j) \/ JobLink(j)
      BY <1>0, <3>3 DEF JobRead, JobClear, JobLink, JobGoto, JobAt
    <3>4. CASE JobEnsure(j) \/ JobAssign(j)
      BY <1>0, <3>4 DEF JobEnsure, JobAssign, JobGoto, JobAt
    <3>5. CASE JobGeoRead(j) \/ JobGeoWrite(j) \/ JobIndex(j)
      BY <1>0, <3>5 DEF JobGeoRead, JobGeoWrite, JobIndex, JobGoto, JobAt
    <3> QED
      BY <1>1, <3>1, <3>2, <3>3, <3>4, <3>5
  <2> QED
    BY <1>0, <2>1, <2>2, <2>3, NewestKept DEF JobAt
<1>2. CASE JobComplete(j)
  BY <1>0, <1>2, RunsTyped
     DEF JobComplete, CallComplete, JobGoto, tool, NewestInv, JobAt, Completed
<1>3. CASE JobWorkflow(j)
  <2>0. /\ jobState[j] = "active" /\ jpc[j] = "workflow"
        /\ UNCHANGED <<toolState, jobState, jpc>>
    BY <1>3 DEF JobWorkflow, JobAt, tool, jobs
  <2>1. CASE FindRun(j)
    <3>1. PICK r \in Open : Chosen(r) /\ runOf' = [runOf EXCEPT ![j] = r]
      BY <2>1 DEF FindRun
    <3>2. /\ looked' = [looked EXCEPT ![j] = Len(runs)]
          /\ wpc' = [wpc EXCEPT ![j] = "read"] /\ UNCHANGED runs
      BY <2>1 DEF FindRun
    <3>3. r \in 1..Len(runs) /\ Len(runs) \in DOMAIN runs
      BY <1>0, <3>1, RunsTyped DEF Open
    <3>4. Completed(Len(runs)) \/ r = Len(runs)
      <4>1. CASE Len(runs) \in Open
        <5>1. Len(runs) <= r /\ Len(runs) \in Nat
          BY <1>0, <3>1, <4>1, RunsTyped DEF Chosen
        <5> QED
          BY <3>3, <5>1
      <4>2. CASE Len(runs) \notin Open
        BY <1>0, <3>3, <4>2, RunsTyped DEF Open, Completed, Run
      <4> QED
        BY <4>1, <4>2
    <3> QED
      BY <1>0, <2>0, <3>1, <3>2, <3>4, RunsTyped DEF NewestInv, JobAt, Completed
  <2>2. CASE FindNothing(j)
    <3>1. Len(runs) # 0 => Completed(Len(runs))
      <4> SUFFICES ASSUME Len(runs) # 0 PROVE Completed(Len(runs))
        OBVIOUS
      <4>1. Len(runs) \in DOMAIN runs /\ runs[Len(runs)].status \in {"RUNNING", "COMPLETED"}
        <5>1. /\ Len(runs) \in Nat /\ DOMAIN runs = 1..Len(runs)
              /\ \A r \in DOMAIN runs : runs[r] \in Run
          BY <1>0, RunsTyped
        <5>2. Len(runs) \in DOMAIN runs
          BY <5>1
        <5>3. runs[Len(runs)] \in Run
          BY <5>1, <5>2
        <5> QED
          BY <5>2, <5>3 DEF Run
      <4> QED
        BY <2>2, <4>1 DEF FindNothing, Open, Completed
    <3> QED
      BY <1>0, <2>0, <2>2, <3>1, RunsTyped DEF FindNothing, NewestInv, JobAt, Completed
  <2>3. CASE AdvanceRead(j)
    BY <1>0, <2>0, <2>3, RunsTyped DEF AdvanceRead, NewestInv, JobAt, Completed
  <2>4. CASE AdvanceStep(j) \/ AdvanceLast(j)
    <3>1. runOf[j] \in DOMAIN runs /\ wpc[j] = "write"
      BY <1>0, <2>4, RunsTyped DEF AdvanceStep, AdvanceLast
    <3>2. \A r \in DOMAIN runs : Completed(r) => Completed(r)'
      <4>1. CASE AdvanceStep(j)
        <5>1. \A r \in DOMAIN runs : runs'[r].status = runs[r].status
          <6>1. /\ runs' = [runs EXCEPT
                              ![runOf[j]] = [runs[runOf[j]] EXCEPT !.step = NextIndex(j)]]
                /\ runs[runOf[j]] \in Run
            BY <1>0, <3>1, <4>1, RunsTyped DEF AdvanceStep
          <6>2. [runs[runOf[j]] EXCEPT !.step = NextIndex(j)].status = runs[runOf[j]].status
            BY <6>1 DEF Run
          <6> QED
            BY <1>0, <6>1, <6>2, RunsTyped
        <5> QED
          BY <5>1 DEF Completed
      <4>2. CASE AdvanceLast(j)
        BY <1>0, <3>1, <4>2, RunsTyped DEF AdvanceLast, Finished, Completed
      <4> QED
        BY <2>4, <4>1, <4>2
    <3>3. /\ UNCHANGED <<looked, runOf>>
          /\ wpc' = [wpc EXCEPT ![j] = "read"] \/ wpc' = [wpc EXCEPT ![j] = "back"]
          /\ wpc'[j] = "back" => Completed(runOf[j])'
      BY <1>0, <2>4, <3>1, RunsTyped
         DEF AdvanceStep, AdvanceLast, Finished, Completed
    <3>4. wpc'[j] = "back" => Completed(looked[j])'
      BY <1>0, <3>1, <3>2, <3>3, RunsTyped DEF NewestInv
    <3> QED
      BY <1>0, <2>0, <3>1, <3>2, <3>3, <3>4, RunsTyped DEF NewestInv, JobAt
  <2> QED
    BY <1>3, <2>1, <2>2, <2>3, <2>4 DEF JobWorkflow, WorkflowStep
<1>4. CASE JobReturn(j)
  BY <1>0, <1>4, RunsTyped DEF JobReturn, Return, JobGoto, tool, NewestInv, JobAt, Completed
<1>5. CASE JobWrite(j)
  BY <1>0, <1>5, RunsTyped
     DEF JobWrite, JobLeave, JobGoto, NewestInv, JobAt, Completed, workflow
<1>6. CASE JobAssignConflict(j) \/ JobFault(j)
  <2>1. JobFails(j)
    BY <1>6 DEF JobAssignConflict, JobFault
  <2>2. AfterFailure(tries[j]) \in {"waiting", "dead"}
    BY DEF AfterFailure
  <2> QED
    BY <1>0, <2>1, <2>2, RunsTyped
       DEF JobFails, JobLeave, JobGoto, Return, tool, NewestInv, JobAt, Completed
<1> QED
  BY <1>1, <1>2, <1>3, <1>4, <1>5, <1>6 DEF JobWork

LEMMA NewestStep == ASSUME TypeInv, NewestInv, [GrowthNext]_vars PROVE NewestInv'
<1>1. CASE \E j \in Jobs : EnqueueGrowth(j) \/ JobWork(j) \/ JobFault(j)
  BY <1>1, NewestOfJob
<1>2. CASE \/ \E t \in IndexTasks : TaskWork(t) \/ TaskFault(t)
           \/ EditStart \/ EditWork \/ EditFault \/ Withdraw \/ UNCHANGED vars
  <2>1. UNCHANGED <<workflow, jpc, jobState>> /\ (toolState' = toolState \/ Withdraw)
    BY <1>2 DEF TaskWork, TaskFault, TaskTake, TaskRead, TaskRemove, TaskWrite, TaskUpsert,
                TaskPopRead, TaskPopGone, TaskPopWrite, EditStart, EditWork, EditFault,
                EditWrite, EditClear, EditLink, EditIndex, Withdraw, vars, jobs, tool
  <2>2. toolState' # "DELETED" => toolState # "DELETED"
    BY <2>1 DEF Withdraw
  <2> QED
    BY <2>1, <2>2, NewestKept DEF JobAt
<1>3. ASSUME NEW n \in Crawls, Crawling(n) PROVE NewestInv'
  <2>0. UNCHANGED <<toolState, jpc, jobState>> /\ (StartRun \/ UNCHANGED workflow)
    BY <1>3, CrawlFrame DEF jobs
  <2>1. CASE StartRun
    <3>1. runs' = Append(runs, NewRun) /\ UNCHANGED <<wpc, runOf, looked>>
      BY <2>1 DEF StartRun
    <3>2. \A r \in DOMAIN runs : runs'[r] = runs[r]
      BY <3>1, RunsTyped
    <3> QED
      BY <2>0, <3>1, <3>2, RunsTyped DEF NewestInv, Completed, JobAt, Jobs
  <2>2. CASE UNCHANGED workflow
    BY <2>0, <2>2, NewestKept DEF JobAt
  <2> QED
    BY <2>0, <2>1, <2>2
<1> QED
  BY <1>1, <1>2, <1>3, EveryStep

\* A growth job that is done has completed the newest run there was when it looked,
\* whichever runs crawls open and other jobs advance at the same time.
THEOREM NewestIsCompleted == GrowthSpec => []NewestCompleted
<1>1. GrowthInit => NewestInv
  <2>1. ASSUME GrowthInit, NEW j \in Jobs
        PROVE  wpc[j] = "out" /\ looked[j] = 0 /\ jobState[j] = "none"
    BY <2>1 DEF GrowthInit, WorkflowInit, Jobs
  <2> QED
    BY <2>1 DEF NewestInv, JobAt
<1>2. TypeInv /\ NewestInv /\ [GrowthNext]_vars => (TypeInv /\ NewestInv)'
  BY TypeStep, NewestStep
<1>3. TypeInv /\ NewestInv => NewestCompleted
  BY RunsTyped DEF NewestInv, NewestCompleted, Completed, Jobs
<1> QED
  BY TypeInit, <1>1, <1>2, <1>3, PTL DEF GrowthSpec

\* A caller moves inside the subroutine, and no run changes.
LEMMA StepsKept ==
  ASSUME TypeInv, StepsInv, UNCHANGED runs, faulted' \/ faulted' = faulted,
         ~faulted' => \A k \in Callers :
           wpc[k] \in {"read", "write"} =>
             wpc'[k] \in {"read", "write"} /\ runOf'[k] = runOf[k]
  PROVE  StepsInv'
BY DEF StepsInv, Completed, TypeInv, PcsTyped

\* A caller writes the next step of its run.
LEMMA StepsOfAdvance ==
  ASSUME TypeInv, StepsInv, NEW k \in Callers, AdvanceStep(k) \/ AdvanceLast(k),
         UNCHANGED faulted
  PROVE  StepsInv'
<1>0. /\ TypeInv /\ wpc[k] = "write" /\ runOf[k] \in DOMAIN runs
      /\ runs \in Seq(Run) /\ \A r \in DOMAIN runs : runs[r] \in Run
      /\ wpc \in [Callers -> WorkflowPcs]
      /\ stepOf[k] \in Nat /\ NextIndex(k) \in Nat /\ Steps \in Nat
  BY RunsTyped, WorkflowAssumption, SMTT(30)
     DEF AdvanceStep, AdvanceLast, NextIndex, TypeInv, GrowthTypeOK, WorkflowTypeOK
<1> DEFINE mine == runOf[k]
<1>1. /\ DOMAIN runs' = DOMAIN runs /\ UNCHANGED runOf
      /\ \A r \in DOMAIN runs \ {mine} : runs'[r] = runs[r]
      /\ \A i \in Callers \ {k} : wpc'[i] = wpc[i]
  BY <1>0 DEF AdvanceStep, AdvanceLast
<1>2. CASE AdvanceStep(k)
  <2>1. NextIndex(k) < Steps /\ wpc'[k] = "read"
    BY <1>0, <1>2 DEF AdvanceStep
  <2>2. runs'[mine].step = NextIndex(k)
    <3>1. runs' = [runs EXCEPT ![mine] = [runs[mine] EXCEPT !.step = NextIndex(k)]]
      BY <1>2 DEF AdvanceStep
    <3>2. [runs[mine] EXCEPT !.step = NextIndex(k)].step = NextIndex(k)
      BY <1>0 DEF Run
    <3> QED
      BY <1>0, <3>1, <3>2
  <2>3. \A i \in Callers : wpc[i] \in {"read", "write"} => wpc'[i] \in {"read", "write"}
    BY <1>1, <2>1
  <2> HIDE DEF mine
  <2>4. \A r \in DOMAIN runs' : runs'[r].status = "RUNNING" => runs'[r].step < Steps
    BY <1>1, <2>1, <2>2 DEF StepsInv
  <2>5. ASSUME ~faulted', NEW r \in DOMAIN runs', Completed(r)', runs'[r].step < Steps
        PROVE  \E i \in Callers : wpc'[i] \in {"read", "write"} /\ runOf'[i] = r
    <3>1. CASE r = mine
      BY <1>1, <2>1, <3>1 DEF mine
    <3>2. CASE r # mine
      BY <1>1, <2>3, <2>5, <3>2 DEF StepsInv, Completed
    <3> QED
      BY <3>1, <3>2
  <2> QED
    BY <2>4, <2>5 DEF StepsInv
<1>3. CASE AdvanceLast(k)
  <2>1. runs'[mine].step = NextIndex(k) /\ runs'[mine].status = "COMPLETED"
    BY <1>0, <1>3 DEF AdvanceLast, Finished
  <2>2. ~(NextIndex(k) < Steps)
    BY <1>0, <1>3 DEF AdvanceLast
  <2> HIDE DEF mine
  <2>3. \A r \in DOMAIN runs' : runs'[r].status = "RUNNING" => runs'[r].step < Steps
    BY <1>1, <2>1 DEF StepsInv
  <2>4. ASSUME ~faulted', NEW r \in DOMAIN runs', Completed(r)', runs'[r].step < Steps
        PROVE  \E i \in Callers : wpc'[i] \in {"read", "write"} /\ runOf'[i] = r
    <3>1. r # mine
      BY <2>1, <2>2, <2>4
    <3>2. PICK i \in Callers : wpc[i] \in {"read", "write"} /\ runOf[i] = r
      BY <1>1, <2>4, <3>1 DEF StepsInv, Completed
    <3>3. i # k
      BY <3>1, <3>2 DEF mine
    <3> QED
      BY <1>1, <3>2, <3>3
  <2> QED
    BY <2>3, <2>4 DEF StepsInv
<1> QED
  BY <1>2, <1>3

LEMMA StepsStep == ASSUME TypeInv, StepsInv, [GrowthNext]_vars PROVE StepsInv'
<1>0. /\ TypeInv /\ Jobs = Callers
      /\ wpc \in [Callers -> WorkflowPcs] /\ runOf \in [Callers -> 0..Len(runs)]
  BY RunsTyped DEF Jobs
<1>1. ASSUME NEW j \in Jobs, JobComplete(j) PROVE StepsInv'
  BY <1>0, <1>1, StepsKept DEF JobComplete, CallComplete, history
<1>2. ASSUME NEW j \in Jobs, JobReturn(j) PROVE StepsInv'
  BY <1>0, <1>2, StepsKept DEF JobReturn, Return, history
<1>3. ASSUME NEW j \in Jobs, JobWorkflow(j) PROVE StepsInv'
  <2>1. CASE FindRun(j) \/ FindNothing(j) \/ AdvanceRead(j)
    BY <1>0, <1>3, <2>1, StepsKept DEF JobWorkflow, FindRun, FindNothing, AdvanceRead, history
  <2>2. CASE AdvanceStep(j) \/ AdvanceLast(j)
    BY <1>0, <1>3, <2>2, StepsOfAdvance DEF JobWorkflow, history
  <2> QED
    BY <1>3, <2>1, <2>2 DEF JobWorkflow, WorkflowStep
<1>4. ASSUME NEW j \in Jobs, JobAssignConflict(j) \/ JobFault(j) PROVE StepsInv'
  BY <1>0, <1>4, StepsKept DEF JobAssignConflict, JobFault, JobFails, Return
<1>5. CASE StartRun /\ UNCHANGED faulted
  <2>1. runs' = Append(runs, NewRun) /\ UNCHANGED <<wpc, runOf, faulted>>
    BY <1>5 DEF StartRun
  <2>2. /\ DOMAIN runs' = DOMAIN runs \union {Len(runs) + 1}
        /\ \A r \in DOMAIN runs : runs'[r] = runs[r]
        /\ runs'[Len(runs) + 1] = NewRun
    BY <1>0, <2>1, RunsTyped
  <2>3. NewRun.status = "RUNNING" /\ NewRun.step < Steps
    BY WorkflowAssumption DEF NewRun
  <2> QED
    BY <2>1, <2>2, <2>3 DEF StepsInv, Completed
<1>6. CASE UNCHANGED workflow /\ (faulted' \/ faulted' = faulted)
  BY <1>6, StepsKept DEF workflow
<1>7. \/ \E j \in Jobs : \/ JobComplete(j) \/ JobReturn(j) \/ JobWorkflow(j)
                         \/ JobAssignConflict(j) \/ JobFault(j)
      \/ StartRun /\ UNCHANGED faulted
      \/ UNCHANGED workflow /\ (faulted' \/ faulted' = faulted)
  <2>1. ASSUME NEW j \in Jobs, EnqueueGrowth(j) \/ JobWork(j) \/ JobFault(j)
        PROVE  \/ JobComplete(j) \/ JobReturn(j) \/ JobWorkflow(j)
               \/ JobAssignConflict(j) \/ JobFault(j)
               \/ UNCHANGED <<workflow, faulted>>
    BY <2>1 DEF EnqueueGrowth, JobWork, JobTake, JobToolGone, JobRead, JobClear, JobLink,
                JobEnsure, JobAssign, JobGeoRead, JobGeoWrite, JobIndex, JobWrite, history
  <2>2. ASSUME \/ \E t \in IndexTasks : TaskWork(t) \/ TaskFault(t)
               \/ EditStart \/ EditWork \/ EditFault \/ Withdraw \/ UNCHANGED vars
        PROVE  UNCHANGED workflow /\ (faulted' \/ faulted' = faulted)
    BY <2>2 DEF TaskWork, TaskFault, TaskTake, TaskRead, TaskRemove, TaskWrite, TaskUpsert,
                TaskPopRead, TaskPopGone, TaskPopWrite, EditStart, EditWork, EditFault,
                EditWrite, EditClear, EditLink, EditIndex, Withdraw, vars, history
  <2> QED
    BY <2>1, <2>2, CrawlFrame, EveryStep
<1> QED
  BY <1>1, <1>2, <1>3, <1>4, <1>5, <1>6, <1>7

\* However jobs overwrite each other's steps, an open run has not passed its last step,
\* and without faults a completed one stands at its end once nobody advances it.
THEOREM StepsAlwaysAgree == GrowthSpec => []StepsAgree
<1>1. GrowthInit => StepsInv
  <2> SUFFICES ASSUME GrowthInit PROVE StepsInv
    OBVIOUS
  <2>1. \A r \in DOMAIN runs : runs[r] = NewRun
    BY DEF GrowthInit, WorkflowInit
  <2>2. NewRun.status = "RUNNING" /\ NewRun.step < Steps
    BY WorkflowAssumption DEF NewRun
  <2> QED
    BY <2>1, <2>2 DEF StepsInv, Completed
<1>2. TypeInv /\ StepsInv /\ [GrowthNext]_vars => (TypeInv /\ StepsInv)'
  BY TypeStep, StepsStep
<1>3. TypeInv /\ StepsInv => StepsAgree
  <2> SUFFICES ASSUME TypeInv, StepsInv, NEW r \in DOMAIN runs
               PROVE  IF runs[r].status = "RUNNING" THEN runs[r].step < Steps
                      ELSE Quiet /\ ~faulted => runs[r].step >= Steps
    BY DEF StepsAgree
  <2>1. runs[r].status \in {"RUNNING", "COMPLETED"} /\ runs[r].step \in Nat /\ Steps \in Nat
    BY RunsTyped, WorkflowAssumption DEF Run
  <2> QED
    BY <2>1 DEF StepsInv, Completed, Quiet
<1> QED
  BY TypeInit, <1>1, <1>2, <1>3, PTL DEF GrowthSpec

-----------------------------------------------------------------------------
(* The keys of the metadata *)

\* What TypeInv says of the variables that the metadata is about.
LEMMA KeysTyped ==
  ASSUME TypeInv
  PROVE  /\ jpc \in [Jobs -> JobPcs] /\ ipc \in [IndexTasks -> TaskPcs]
         /\ jobState \in [Jobs -> {"none", "waiting", "active", "done", "dead"}]
         /\ taskState \in [IndexTasks -> {"none", "waiting", "active", "done", "dead"}]
         /\ snap \in [Jobs -> Metadata] /\ geoSnap \in [Jobs -> Metadata]
         /\ iSnap \in [IndexTasks -> Metadata] /\ eSnap \in Metadata
         /\ torn \in BOOLEAN
         /\ \A t \in IndexTasks : taskState[t] # "active" => ipc[t] = "idle"
BY DEF TypeInv, GrowthTypeOK, PcsTyped

\* What writer a has read is up to date, and nobody else writes.
LEMMA Writes ==
  ASSUME TypeInv, KeysInv, NEW a, NEW s \in Metadata, NEW key \in Keys, UNCHANGED newest,
         ~torn => AllWritten(s), WriteMetadata(a, s, key), ~torn'
  PROVE  /\ ~torn /\ Holders \subseteq {a}
         /\ AllWritten(metadata)'
         /\ written' = written \union {key}
BY KeysTyped DEF WriteMetadata, Merged, AllWritten, Metadata

\* Steps that do not write the metadata.
LEMMA KeysUntouched ==
  ASSUME TypeInv, KeysInv, UNCHANGED <<metadata, written, newest, torn>>,
         \A j \in Jobs : jobState'[j] = "active" /\ jpc'[j] # "read" =>
           \/ jobState[j] = "active" /\ jpc[j] # "read" /\ snap'[j] = snap[j]
           \/ snap'[j] = metadata,
         \A j \in Jobs : JobAt(j, "geoWrite")' =>
           \/ JobAt(j, "geoWrite") /\ geoSnap'[j] = geoSnap[j]
           \/ geoSnap'[j] = metadata,
         \A t \in IndexTasks : ipc'[t] \in {"write", "popWrite"} =>
           \/ ipc[t] \in {"write", "popWrite"} /\ iSnap'[t] = iSnap[t]
           \/ iSnap'[t] = metadata,
         epc' = "write" => \/ epc = "write" /\ eSnap' = eSnap
                           \/ eSnap' = metadata
  PROVE  KeysInv'
BY DEF KeysInv, AllWritten

LEMMA KeysOfJob ==
  ASSUME TypeInv, KeysInv, NEW j \in Jobs, EnqueueGrowth(j) \/ JobWork(j) \/ JobFault(j)
  PROVE  KeysInv'
<1>0. /\ TypeInv /\ KeysInv
      /\ jpc \in [Jobs -> JobPcs] /\ snap \in [Jobs -> Metadata]
      /\ jobState \in [Jobs -> {"none", "waiting", "active", "done", "dead"}]
      /\ geoSnap \in [Jobs -> Metadata]
      /\ j # Editor /\ j \notin IndexTasks
  BY KeysTyped, GrowthAssumption DEF Jobs, IndexTasks
<1>1. CASE EnqueueGrowth(j) \/ JobTake(j)
  BY <1>0, <1>1, KeysUntouched
     DEF EnqueueGrowth, JobTake, JobGoto, JobAt, tool, tasks, edit, history
<1>2. CASE JobToolGone(j)
  BY <1>0, <1>2, KeysUntouched
     DEF JobToolGone, JobLeave, JobGoto, JobAt, tool, tasks, edit, history
<1>3. CASE JobRead(j)
  BY <1>0, <1>3, KeysUntouched DEF JobRead, JobGoto, JobAt, tool, tasks, edit, history
<1>4. CASE JobClear(j) \/ JobLink(j)
  BY <1>0, <1>4, KeysUntouched DEF JobClear, JobLink, JobGoto, JobAt, tasks, edit, history
<1>5. CASE JobEnsure(j) \/ JobAssign(j)
  BY <1>0, <1>5, KeysUntouched
     DEF JobEnsure, JobAssign, JobGoto, JobAt, tool, tasks, edit, history
<1>6. CASE JobGeoRead(j)
  BY <1>0, <1>6, KeysUntouched DEF JobGeoRead, JobGoto, JobAt, tool, tasks, edit, history
<1>7. CASE JobIndex(j)
  BY <1>0, <1>7, KeysUntouched DEF JobIndex, JobGoto, JobAt, tool, edit, history
<1>8. CASE JobComplete(j) \/ JobReturn(j)
  BY <1>0, <1>8, KeysUntouched
     DEF JobComplete, JobReturn, JobGoto, JobAt, tool, tasks, edit, history
<1>9. CASE JobWorkflow(j)
  BY <1>0, <1>9, KeysUntouched DEF JobWorkflow, JobAt, tool, jobs, tasks, edit, history
<1>10. CASE JobAssignConflict(j) \/ JobFault(j)
  <2>1. JobFails(j)
    BY <1>10 DEF JobAssignConflict, JobFault
  <2>2. AfterFailure(tries[j]) # "active"
    BY DEF AfterFailure
  <2> QED
    BY <1>0, <2>1, <2>2, KeysUntouched DEF JobFails, JobLeave, JobGoto, JobAt, tool, tasks, edit
<1>11. CASE JobGeoWrite(j)
  <2>1. /\ JobAt(j, "geoWrite") /\ WriteMetadata(j, geoSnap[j], "geo") /\ "geo" \in Keys
        /\ jpc' = [jpc EXCEPT ![j] = "index"]
        /\ UNCHANGED <<jobState, snap, ipc, iSnap, epc, eSnap, newest>>
    BY <1>11 DEF JobGeoWrite, JobGoto, Keys, tasks, edit
  <2> SUFFICES ASSUME ~torn' PROVE KeysInv'
    BY DEF KeysInv
  <2>2. /\ ~torn /\ Holders \subseteq {j} /\ AllWritten(metadata)'
        /\ written' = written \union {"geo"}
    BY <1>0, <2>1, Writes DEF KeysInv
  <2>3. \A i \in Jobs : jobState'[i] = "active" /\ jpc'[i] # "read" => AllWritten(snap[i])
    BY <1>0, <2>1, <2>2 DEF KeysInv, JobAt
  <2>4. \A i \in Jobs : ~JobAt(i, "geoWrite")'
    BY <1>0, <2>1, <2>2 DEF Holders, JobAt
  <2>5. epc # "write" /\ \A t \in IndexTasks : ipc[t] \notin {"write", "popWrite"}
    BY <1>0, <2>2 DEF Holders
  <2> QED
    BY <2>1, <2>2, <2>3, <2>4, <2>5 DEF KeysInv, AllWritten
<1>12. CASE JobWrite(j)
  <2>1. /\ JobAt(j, "write") /\ WriteMetadata(j, snap[j], "growth") /\ "growth" \in Keys
        /\ jobState' = [jobState EXCEPT ![j] = "done"] /\ jpc' = [jpc EXCEPT ![j] = "idle"]
        /\ UNCHANGED <<ipc, epc, newest>>
    BY <1>12 DEF JobWrite, JobLeave, JobGoto, Keys, tasks, edit
  <2> SUFFICES ASSUME ~torn' PROVE KeysInv'
    BY DEF KeysInv
  <2>2. ~torn /\ Holders \subseteq {j} /\ AllWritten(metadata)'
    BY <1>0, <2>1, Writes DEF KeysInv, JobAt
  <2>3. \A i \in Jobs : ~(jobState'[i] = "active" /\ jpc'[i] # "read")
    BY <1>0, <2>1, <2>2 DEF Holders
  <2>4. epc # "write" /\ \A t \in IndexTasks : ipc[t] \notin {"write", "popWrite"}
    BY <1>0, <2>2 DEF Holders
  <2> QED
    BY <2>1, <2>2, <2>3, <2>4 DEF KeysInv, JobAt
<1> QED
  BY <1>1, <1>2, <1>3, <1>4, <1>5, <1>6, <1>7, <1>8, <1>9, <1>10, <1>11, <1>12 DEF JobWork

LEMMA KeysOfTask ==
  ASSUME TypeInv, KeysInv, NEW t \in IndexTasks, TaskWork(t) \/ TaskFault(t)
  PROVE  KeysInv'
<1>0. /\ TypeInv /\ KeysInv
      /\ ipc \in [IndexTasks -> TaskPcs] /\ iSnap \in [IndexTasks -> Metadata]
      /\ t # Editor /\ t \notin Jobs
  BY KeysTyped, GrowthAssumption DEF Jobs, IndexTasks
<1>1. CASE TaskTake(t) \/ TaskRead(t)
  BY <1>0, <1>1, KeysUntouched DEF TaskTake, TaskRead, TaskAt, JobAt, tool, jobs, edit, history
<1>2. CASE TaskRemove(t) \/ TaskUpsert(t)
  BY <1>0, <1>2, KeysUntouched DEF TaskRemove, TaskUpsert, TaskAt, JobAt, jobs, edit, history
<1>3. CASE TaskPopRead(t) \/ TaskPopGone(t) \/ TaskFault(t)
  BY <1>0, <1>3, KeysUntouched
     DEF TaskPopRead, TaskPopGone, TaskFault, TaskLeave, TaskAt, JobAt, tool, jobs, edit,
         history
<1>4. CASE TaskWrite(t) \/ TaskPopWrite(t)
  <2>1. /\ ipc[t] \in {"write", "popWrite"} /\ UNCHANGED <<jobState, jpc, epc, newest>>
        /\ \E key \in Keys : WriteMetadata(t, iSnap[t], key)
        /\ \E p \in {"upsert", "idle"} : ipc' = [ipc EXCEPT ![t] = p]
    BY <1>4 DEF TaskWrite, TaskPopWrite, TaskAt, TaskLeave, Keys, jobs, edit
  <2> SUFFICES ASSUME ~torn' PROVE KeysInv'
    BY DEF KeysInv
  <2>2. ~torn /\ Holders \subseteq {t} /\ AllWritten(metadata)'
    BY <1>0, <2>1, Writes DEF KeysInv
  <2>3. epc # "write" /\ \A i \in Jobs : ~(jobState[i] = "active" /\ jpc[i] # "read")
    BY <1>0, <2>2 DEF Holders
  <2>4. \A u \in IndexTasks : ipc'[u] \notin {"write", "popWrite"}
    BY <1>0, <2>1, <2>2 DEF Holders
  <2> QED
    BY <2>1, <2>2, <2>3, <2>4 DEF KeysInv, JobAt
<1> QED
  BY <1>1, <1>2, <1>3, <1>4 DEF TaskWork

LEMMA KeysOfOthers ==
  ASSUME TypeInv, KeysInv, \/ EditStart \/ EditWork \/ EditFault \/ Withdraw
                           \/ \E n \in Crawls : Crawling(n)
                           \/ UNCHANGED vars
  PROVE  KeysInv'
<1>1. CASE EditStart \/ EditFault
  BY <1>1, KeysUntouched DEF EditStart, EditFault, JobAt, tool, jobs, tasks, history
<1>2. CASE EditClear \/ EditLink \/ EditIndex
  BY <1>2, KeysUntouched DEF EditClear, EditLink, EditIndex, JobAt, tool, jobs, tasks, history
<1>3. CASE Withdraw \/ UNCHANGED vars
  BY <1>3, KeysUntouched DEF Withdraw, JobAt, vars, tool, jobs, tasks, edit, history
<1>4. CASE EditWrite
  <2>1. /\ epc = "write" /\ epc' = "clear" /\ WriteMetadata(Editor, eSnap, "edit")
        /\ "edit" \in Keys /\ UNCHANGED <<jobState, jpc, ipc, newest>>
    BY <1>4 DEF EditWrite, Keys, jobs, tasks
  <2> SUFFICES ASSUME ~torn' PROVE KeysInv'
    BY DEF KeysInv
  <2>2. ~torn /\ Holders \subseteq {Editor} /\ AllWritten(metadata)'
    BY <2>1, KeysTyped, Writes DEF KeysInv
  <2>3. /\ \A i \in Jobs : ~(jobState[i] = "active" /\ jpc[i] # "read")
        /\ \A t \in IndexTasks : ipc[t] \notin {"write", "popWrite"}
    BY <2>2, GrowthAssumption DEF Holders, Jobs, IndexTasks
  <2> QED
    BY <2>1, <2>2, <2>3 DEF KeysInv, JobAt
<1>5. ASSUME NEW n \in Crawls, Crawling(n) PROVE KeysInv'
  <2>0. UNCHANGED <<jobState, jpc, snap, geoSnap, ipc, iSnap, epc, eSnap>>
    BY <1>5, CrawlFrame DEF jobs, tasks, edit
  <2>1. CASE UNCHANGED <<metadata, written, newest, torn>>
    BY <2>0, <2>1, KeysUntouched DEF JobAt
  <2>2. CASE CrawlUpdate(n)
    <3> SUFFICES ASSUME ~torn' PROVE KeysInv'
      BY DEF KeysInv
    <3>1. Holders = {} /\ AllWritten(metadata)'
      BY <2>2 DEF CrawlUpdate, AllWritten
    <3>2. /\ \A i \in Jobs : ~(jobState[i] = "active" /\ jpc[i] # "read")
          /\ epc # "write" /\ \A t \in IndexTasks : ipc[t] \notin {"write", "popWrite"}
      BY <3>1 DEF Holders
    <3> QED
      BY <2>0, <3>1, <3>2 DEF KeysInv, JobAt
  <2> QED
    BY <1>5, <2>1, <2>2, CrawlFrame
<1> QED
  BY <1>1, <1>2, <1>3, <1>4, <1>5 DEF EditWork

LEMMA KeysStep == ASSUME TypeInv, KeysInv, [GrowthNext]_vars PROVE KeysInv'
BY EveryStep, KeysOfJob, KeysOfTask, KeysOfOthers

\* Two writers of the metadata lose a key only when they overlap: jobs, index tasks and
\* editors that follow one another keep each other's keys, except the GEO document, and
\* the categories of the last crawl, until the next crawl erases all of them.
THEOREM KeysAreKept == GrowthSpec => []KeysKept
<1>1. GrowthInit => KeysInv
  BY DEF GrowthInit, KeysInv, AllWritten, JobAt
<1>2. TypeInv /\ KeysInv /\ [GrowthNext]_vars => (TypeInv /\ KeysInv)'
  BY TypeStep, KeysStep
<1>3. KeysInv => KeysKept
  BY DEF KeysInv, KeysKept, AllWritten
<1> QED
  BY TypeInit, <1>1, <1>2, <1>3, PTL DEF GrowthSpec

-----------------------------------------------------------------------------
(* The categories *)

\* What TypeInv says of the variables that the categories are about.
LEMMA CategoriesTyped ==
  ASSUME TypeInv
  PROVE  /\ jpc \in [Jobs -> JobPcs]
         /\ jobState \in [Jobs -> {"none", "waiting", "active", "done", "dead"}]
         /\ taskState \in [IndexTasks -> {"none", "waiting", "active", "done", "dead"}]
         /\ links \in [Categories -> {"absent", "active", "deleted"}]
         /\ primary \subseteq Categories
         /\ todo \in [Changers -> Seq(Categories)]
         /\ \A a \in Changers \ {Editor} : Listed(a) \in Seq(Categories)
         /\ \A j \in Jobs : jpc[j] = "clear" => snap[j].crawled # << >>
         /\ \A j \in Jobs : jpc[j] = "link" => todo[j] # << >>
         /\ Editor \in Changers /\ Editor \notin Jobs /\ Jobs \subseteq Changers
         /\ crawlState \in [Crawls -> {"none", "waiting", "active", "done", "dead"}]
         /\ cpc \in [Crawls -> {"idle", "update", "clear", "link", "run"}]
         /\ \A n \in Crawls : CrawlAt(n, "clear") \/ CrawlAt(n, "link") => cList[n] # << >>
         /\ \A n \in Crawls : cpc[n] = "link" => todo[n] # << >>
         /\ Crawls \subseteq Changers /\ Crawls \intersect Jobs = {} /\ Editor \notin Crawls
         /\ Changers \ {Editor} = Jobs \union Crawls
         /\ Default \in Categories
         /\ Linked \subseteq Categories
<1>1. \A a \in Changers \ {Editor} : Listed(a) \in Seq(Categories)
  BY DEF TypeInv, GrowthTypeOK, Changers, Listed, Metadata
<1> QED
  BY <1>1, GrowthAssumption
     DEF TypeInv, GrowthTypeOK, PcsTyped, Changers, Jobs, Linked, CrawlAt

\* A failure is not undone.
LEMMA FailureStays ==
  ASSUME TypeInv, [GrowthNext]_vars, Failed
  PROVE  Failed'
<1>0. /\ jobState \in [Jobs -> {"none", "waiting", "active", "done", "dead"}]
      /\ taskState \in [IndexTasks -> {"none", "waiting", "active", "done", "dead"}]
      /\ crawlState \in [Crawls -> {"none", "waiting", "active", "done", "dead"}]
  BY CategoriesTyped
<1>1. ASSUME NEW j \in Jobs, EnqueueGrowth(j) \/ JobWork(j) \/ JobFault(j)
      PROVE  /\ UNCHANGED <<abandoned, crawlState>>
             /\ \A i \in Jobs : jobState[i] = "dead" => jobState'[i] = "dead"
             /\ \A t \in IndexTasks : taskState[t] = "dead" => taskState'[t] = "dead"
  <2>1. CASE EnqueueGrowth(j) \/ JobTake(j) \/ JobToolGone(j) \/ JobWrite(j)
    BY <1>0, <2>1 DEF EnqueueGrowth, JobTake, JobToolGone, JobWrite, JobLeave, JobAt, tasks, crawls,
                      crawls, history
  <2>2. CASE JobAssignConflict(j) \/ JobFault(j)
    BY <1>0, <2>2 DEF JobAssignConflict, JobFault, JobFails, JobLeave, JobAt, tasks, crawls, history
  <2>3. CASE JobIndex(j)
    BY <1>0, <2>3 DEF JobIndex, EnqueueIndex, crawls, history
  <2>4. CASE JobRead(j) \/ JobClear(j) \/ JobLink(j) \/ JobEnsure(j) \/ JobAssign(j)
    BY <2>4 DEF JobRead, JobClear, JobLink, JobEnsure, JobAssign, tasks, crawls, history
  <2>5. CASE JobGeoRead(j) \/ JobGeoWrite(j) \/ JobComplete(j) \/ JobWorkflow(j) \/ JobReturn(j)
    BY <2>5 DEF JobGeoRead, JobGeoWrite, JobComplete, JobWorkflow, JobReturn, tasks, crawls, jobs,
                history
  <2> QED
    BY <1>1, <2>1, <2>2, <2>3, <2>4, <2>5 DEF JobWork
<1>2. ASSUME NEW t \in IndexTasks, TaskWork(t) \/ TaskFault(t)
      PROVE  /\ UNCHANGED <<abandoned, jobState, crawlState>>
             /\ \A u \in IndexTasks : taskState[u] = "dead" => taskState'[u] = "dead"
  BY <1>0, <1>2 DEF TaskWork, TaskFault, TaskTake, TaskRead, TaskRemove, TaskWrite, TaskUpsert,
                    TaskPopRead, TaskPopGone, TaskPopWrite, TaskLeave, TaskAt, jobs, crawls, history
<1>3. ASSUME EditStart \/ EditWork \/ EditFault \/ Withdraw \/ UNCHANGED vars
      PROVE  /\ UNCHANGED <<jobState, crawlState>> /\ (abandoned => abandoned')
             /\ \A u \in IndexTasks : taskState[u] = "dead" => taskState'[u] = "dead"
  BY <1>0, <1>3 DEF EditStart, EditWork, EditFault, EditWrite, EditClear, EditLink, EditIndex,
                    EnqueueIndex, Withdraw, vars, jobs, tasks, crawls, history
<1>4. ASSUME NEW n \in Crawls, Crawling(n)
      PROVE  /\ UNCHANGED <<abandoned, jobState, taskState>>
             /\ \A m \in Crawls : crawlState[m] = "dead" => crawlState'[m] = "dead"
  <2>1. UNCHANGED <<abandoned, jobState, taskState>>
    BY <1>4, CrawlFrame DEF jobs, tasks
  <2>2. \A m \in Crawls : crawlState[m] = "dead" => crawlState'[m] = "dead"
    BY <1>0, <1>4 DEF Crawling, CrawlWork, EnqueueCrawl, CrawlFind, CrawlToolGone, CrawlUpdate,
       CrawlClear, CrawlLink, CrawlRun, CrawlFault, CrawlLeave, CrawlAt
  <2> QED
    BY <2>1, <2>2
<1> QED
  BY <1>1, <1>2, <1>3, <1>4, EveryStep DEF Failed

\* Steps that leave the categories and everybody who changes them alone.
LEMMA CategoriesUntouched ==
  ASSUME TypeInv, CategoryInv, [GrowthNext]_vars,
         UNCHANGED <<links, primary, todo, clashed, repeated>>,
         \A a \in Changers \ {Editor} : todo[a] # << >> => Listed(a)' = Listed(a),
         toolState' # "DELETED" => toolState # "DELETED",
         (epc = "first" <=> epc' = "first"),
         epc \in {"first", "rest"} => epc' \in {"first", "rest"} \/ todo[Editor] = << >>,
         \A j \in Jobs : jobState'[j] # "active" => jpc'[j] = "idle",
         \A j \in Jobs : jpc[j] = "link" => jpc'[j] = "link",
         \A j \in Jobs : jpc'[j] = "assign" <=> jpc[j] = "assign",
         \A n \in Crawls : crawlState'[n] # "active" => cpc'[n] = "idle",
         \A n \in Crawls : cpc[n] = "link" => cpc'[n] = "link",
         ~Failed' /\ toolState' # "DELETED" =>
           /\ \A j \in Jobs : /\ Passed(j)' => Passed(j)
                              /\ Mending(j) => Mending(j)'
           /\ \A n \in Crawls : Relinking(n) => Relinking(n)'
  PROVE  CategoryInv'
<1>1. TodoInv'
  BY CategoriesTyped DEF CategoryInv, TodoInv
<1>2. MendedInv'
  BY FailureStays DEF CategoryInv, MendedInv, Linked
<1>3. AloneInv'
  BY DEF CategoryInv, AloneInv, Syncing, Linked, Jobs
<1>4. PrimaryInv'
  BY DEF CategoryInv, PrimaryInv, OnlyPrimary, AtFirst, Linked
<1> QED
  BY <1>1, <1>2, <1>3, <1>4 DEF CategoryInv

LEMMA ListParts ==
  ASSUME NEW S, NEW s \in Seq(S), s # << >>
  PROVE  /\ Head(s) \in S /\ Tail(s) \in Seq(S) /\ Len(s) \in Nat
         /\ Head(s) \in Range(s) /\ Range(Tail(s)) \subseteq Range(s)
         /\ Len(Tail(s)) = Len(s) - 1
         /\ Len(s) = 1 => Tail(s) = << >>
<1>1. /\ Head(s) \in S /\ Tail(s) \in Seq(S) /\ Len(s) \in Nat \ {0}
      /\ Len(Tail(s)) = Len(s) - 1 /\ Head(s) = s[1]
  OBVIOUS
<1>2. Head(s) \in Range(s)
  <2>1. 1 \in DOMAIN s
    BY <1>1
  <2> QED
    BY <1>1, <2>1 DEF Range
<1>3. Range(Tail(s)) \subseteq Range(s)
  <2> SUFFICES ASSUME NEW i \in DOMAIN Tail(s) PROVE Tail(s)[i] \in Range(s)
    BY DEF Range
  <2>1. i \in 1..(Len(s) - 1) /\ i + 1 \in DOMAIN s /\ Tail(s)[i] = s[i + 1]
    BY <1>1
  <2> QED
    BY <2>1 DEF Range
<1>4. ASSUME Len(s) = 1 PROVE Tail(s) = << >>
  <2>1. Len(Tail(s)) = 0 /\ Tail(s) \in Seq(S)
    BY <1>1, <1>4
  <2> QED
    BY <2>1, EmptySeq
<1> QED
  BY <1>1, <1>2, <1>3, <1>4

\* All links are cleared and a list of categories begun.
LEMMA ListBegun ==
  ASSUME TypeInv, CategoryInv, NEW a \in Changers, NEW list \in Seq(Categories),
         list # << >>, ClearLinks(a, list), UNCHANGED <<primary, snap, cList>>,
         IF a = Editor THEN epc' = "first" ELSE list = Listed(a) /\ UNCHANGED epc,
         \A j \in Jobs : jpc'[j] = "assign" => jpc[j] = "assign" /\ j # a
  PROVE  /\ Linked' = {} /\ todo'[a] = list
         /\ \A b \in Changers \ {a} : todo'[b] = todo[b]
         /\ AloneInv' /\ PrimaryInv'
<1>0. /\ links \in [Categories -> {"absent", "active", "deleted"}]
      /\ todo \in [Changers -> Seq(Categories)]
      /\ Editor \in Changers /\ Editor \notin Jobs /\ Jobs \subseteq Changers
  BY CategoriesTyped
<1>1. Linked' = {}
  BY <1>0 DEF ClearLinks, Linked
<1>2. todo'[a] = list /\ \A b \in Changers \ {a} : todo'[b] = todo[b]
  BY <1>0 DEF ClearLinks
<1>3. ~clashed' => ~clashed /\ \A b \in Changers \ {a} : ~Syncing(b)
  BY DEF ClearLinks, NoteClash, Changers
<1>4. \A b \in Changers \ {a} : Syncing(b)' => Syncing(b)
  BY <1>2 DEF Syncing, Jobs
<1>5. AloneInv'
  BY <1>0, <1>1, <1>3, <1>4 DEF AloneInv
<1>6. PrimaryInv'
  <2> SUFFICES ASSUME ~clashed', ~repeated', NEW b \in Changers, todo'[b] # << >>
               PROVE  b = a /\ AtFirst(a)' /\ Head(todo'[a]) \notin Range(Tail(todo'[a]))
    BY <1>1 DEF PrimaryInv
  <2>1. b = a
    BY <1>2, <1>3 DEF Syncing
  <2>2. AtFirst(a)'
    BY <1>2 DEF AtFirst, Listed
  <2>3. Head(list) \notin Range(Tail(list))
    BY DEF ClearLinks
  <2> QED
    BY <1>2, <2>1, <2>2, <2>3
<1> QED
  BY <1>1, <1>2, <1>5, <1>6

\* The next category of a list is linked.
LEMMA ListGoesOn ==
  ASSUME TypeInv, CategoryInv, NEW a \in Changers, todo[a] # << >>,
         UpsertLink(a, AtFirst(a)), UNCHANGED <<snap, cList, clashed, repeated>>,
         IF a = Editor THEN epc' = "rest" ELSE UNCHANGED epc,
         \A j \in Jobs : jpc'[j] = "assign" => jpc[j] = "assign" /\ j # a
  PROVE  /\ Linked' # {} /\ todo'[a] = Tail(todo[a])
         /\ \A b \in Changers \ {a} : todo'[b] = todo[b]
         /\ AloneInv' /\ PrimaryInv'
<1> DEFINE c == Head(todo[a])
<1>0. /\ links \in [Categories -> {"absent", "active", "deleted"}]
      /\ todo \in [Changers -> Seq(Categories)] /\ todo[a] \in Seq(Categories)
      /\ primary \subseteq Categories
      /\ \A b \in Changers \ {Editor} : Listed(b) \in Seq(Categories)
      /\ Editor \in Changers /\ Editor \notin Jobs /\ Jobs \subseteq Changers
  BY CategoriesTyped
<1>1. /\ c \in Categories /\ c \in Range(todo[a])
      /\ Range(Tail(todo[a])) \subseteq Range(todo[a])
      /\ Len(Tail(todo[a])) = Len(todo[a]) - 1 /\ Len(todo[a]) \in Nat
  BY <1>0, ListParts
<1>2. /\ links' = [links EXCEPT ![c] = "active"] /\ primary' = Flag(c, AtFirst(a))
      /\ todo' = [todo EXCEPT ![a] = Tail(@)]
  BY DEF UpsertLink
<1>3. Linked' = Linked \union {c}
  BY <1>0, <1>1, <1>2 DEF Linked
<1>4. todo'[a] = Tail(todo[a]) /\ \A b \in Changers \ {a} : todo'[b] = todo[b]
  BY <1>0, <1>2
<1>5. ~clashed => \A b \in Changers \ {a} : ~Syncing(b)
  BY DEF Syncing, CategoryInv, AloneInv
<1>6. \A b \in Changers \ {a} : Syncing(b)' => Syncing(b)
  BY <1>4 DEF Syncing, Jobs
<1>7. AloneInv'
  <2>1. ~clashed => \A j \in Jobs : jpc'[j] # "assign"
    BY <1>0, <1>5 DEF Syncing
  <2> QED
    BY <1>5, <1>6, <2>1 DEF AloneInv
<1>8. ~AtFirst(a)'
  <2>1. CASE a = Editor
    BY <2>1 DEF AtFirst
  <2>2. CASE a # Editor
    <3>1. Len(todo[a]) <= Len(Listed(a)) /\ Len(Listed(a)) \in Nat
      BY <1>0, <2>2 DEF CategoryInv, TodoInv
    <3>2. Len(todo'[a]) # Len(Listed(a))
      BY <1>1, <1>4, <3>1
    <3>3. Listed(a)' = Listed(a)
      BY DEF Listed
    <3> QED
      BY <2>2, <3>2, <3>3 DEF AtFirst
  <2> QED
    BY <2>1, <2>2
<1>9. PrimaryInv'
  <2>1. ASSUME ~clashed, ~repeated
        PROVE  \E p \in Categories : OnlyPrimary(p)' /\ p \notin Range(todo'[a])
    <3>1. CASE AtFirst(a)
      <4>1. Linked = {} /\ c \notin Range(Tail(todo[a])) /\ primary' = primary \union {c}
        BY <1>2, <2>1, <3>1 DEF CategoryInv, PrimaryInv, Flag
      <4> QED
        BY <1>1, <1>3, <1>4, <4>1 DEF OnlyPrimary
    <3>2. CASE ~AtFirst(a)
      <4>1. PICK p \in Categories : OnlyPrimary(p) /\ p \notin Range(todo[a])
        BY <2>1, <3>2 DEF CategoryInv, PrimaryInv
      <4>2. p # c /\ primary' = primary \ {c}
        BY <1>1, <1>2, <3>2, <4>1 DEF Flag
      <4> QED
        BY <1>1, <1>3, <1>4, <4>1, <4>2 DEF OnlyPrimary
    <3> QED
      BY <3>1, <3>2
  <2>2. ~clashed => \A b \in Changers : todo'[b] # << >> => b = a
    BY <1>4, <1>5 DEF Syncing
  <2> QED
    BY <1>8, <2>1, <2>2 DEF PrimaryInv
<1> QED
  BY <1>3, <1>4, <1>7, <1>9

LEMMA CategoriesOfJob ==
  ASSUME TypeInv, CategoryInv, [GrowthNext]_vars,
         NEW j \in Jobs, EnqueueGrowth(j) \/ JobWork(j) \/ JobFault(j)
  PROVE  CategoryInv'
<1>0. /\ TypeInv /\ CategoryInv /\ TodoInv
      /\ jpc \in [Jobs -> JobPcs]
      /\ jobState \in [Jobs -> {"none", "waiting", "active", "done", "dead"}]
      /\ links \in [Categories -> {"absent", "active", "deleted"}]
      /\ primary \subseteq Categories /\ Default \in Categories
      /\ todo \in [Changers -> Seq(Categories)]
      /\ snap[j].crawled = Listed(j) /\ Listed(j) \in Seq(Categories)
      /\ Editor \in Changers /\ Editor \notin Jobs /\ Jobs \subseteq Changers
      /\ Changers \ {Editor} = Jobs \union Crawls /\ Crawls \intersect Jobs = {}
      /\ j \in Changers /\ j # Editor /\ snap \in [Jobs -> Metadata]
  BY CategoriesTyped, KeysTyped DEF CategoryInv, Listed
<1> USE DEF JobGoto, JobAt, tool, history, edit, crawls
<1>1. CASE EnqueueGrowth(j)
  BY <1>0, <1>1, CategoriesUntouched DEF EnqueueGrowth, TodoInv, Mending, Passed, Relinking, Listed
<1>2. CASE JobTake(j)
  BY <1>0, <1>2, CategoriesUntouched DEF JobTake, TodoInv, Mending, Passed, Relinking, Listed
<1>3. CASE JobToolGone(j)
  BY <1>0, <1>3, CategoriesUntouched DEF JobToolGone, JobLeave, TodoInv, Mending, Passed, Relinking, Listed
<1>4. CASE JobRead(j)
  BY <1>0, <1>4, CategoriesUntouched DEF JobRead, TodoInv, Mending, Passed, Relinking, Listed
<1>5. CASE JobGeoRead(j) \/ JobGeoWrite(j) \/ JobIndex(j)
  BY <1>0, <1>5, CategoriesUntouched
     DEF JobGeoRead, JobGeoWrite, JobIndex, TodoInv, Mending, Passed, Relinking, Listed
<1>6. CASE JobComplete(j) \/ JobReturn(j)
  BY <1>0, <1>6, CategoriesUntouched DEF JobComplete, JobReturn, TodoInv, Mending, Passed, Relinking, Listed
<1>7. CASE JobWorkflow(j)
  BY <1>0, <1>7, CategoriesUntouched DEF JobWorkflow, jobs, TodoInv, Mending, Passed, Relinking, Listed
<1>8. CASE JobWrite(j)
  BY <1>0, <1>8, CategoriesUntouched DEF JobWrite, JobLeave, TodoInv, Mending, Passed, Relinking, Listed
<1>9. CASE JobClear(j)
  <2>1. /\ ClearLinks(j, Listed(j)) /\ Listed(j) # << >> /\ jpc[j] = "clear"
        /\ UNCHANGED <<primary, snap, cList, crawlState, cpc, epc, jobState>>
        /\ jpc' = [jpc EXCEPT ![j] = "link"]
    BY <1>0, <1>9, CategoriesTyped DEF JobClear
  <2>2. /\ todo'[j] = Listed(j) /\ \A b \in Changers \ {j} : todo'[b] = todo[b]
        /\ AloneInv' /\ PrimaryInv'
    BY <1>0, <2>1, ListBegun
  <2>3. TodoInv'
    BY <1>0, <1>9, <2>1, <2>2 DEF TodoInv, JobClear, Listed
  <2>4. MendedInv'
    BY <1>0, <2>1 DEF MendedInv, Mending
  <2> QED
    BY <2>2, <2>3, <2>4 DEF CategoryInv
<1>10. CASE JobLink(j)
  <2>1. /\ todo[j] # << >> /\ jpc[j] = "link" /\ jobState[j] = "active"
        /\ AtFirst(j) <=> todo[j] = Listed(j)
        /\ UpsertLink(j, todo[j] = Listed(j))
        /\ UNCHANGED <<snap, cList, crawlState, cpc, epc, jobState, clashed, repeated>>
        /\ jpc' = [jpc EXCEPT ![j] = IF Len(todo[j]) = 1 THEN "ensure" ELSE "link"]
    BY <1>0, <1>10, CategoriesTyped DEF JobLink, AtFirst
  <2>2. UpsertLink(j, AtFirst(j))
    BY <2>1 DEF UpsertLink, Flag
  <2>3. /\ Linked' # {} /\ todo'[j] = Tail(todo[j])
        /\ \A b \in Changers \ {j} : todo'[b] = todo[b]
        /\ AloneInv' /\ PrimaryInv'
    BY <1>0, <2>1, <2>2, ListGoesOn
  <2>4. /\ Len(todo[j]) \in Nat /\ Len(Tail(todo[j])) = Len(todo[j]) - 1
        /\ Len(todo[j]) = 1 => Tail(todo[j]) = << >>
        /\ Len(todo[j]) <= Len(Listed(j)) /\ Len(Listed(j)) \in Nat
    BY <1>0, <2>1, ListParts DEF TodoInv
  <2>5. TodoInv'
    <3>1. /\ Len(todo'[j]) <= Len(Listed(j))
          /\ todo'[j] # << >> => jpc'[j] = "link"
          /\ jobState'[j] = "active"
      BY <1>0, <2>1, <2>3, <2>4
    <3>2. \A i \in Jobs \ {j} : /\ todo'[i] = todo[i] /\ jpc'[i] = jpc[i]
                              /\ jobState'[i] = jobState[i]
      BY <1>0, <2>1, <2>3
    <3>3. /\ todo'[Editor] = todo[Editor] /\ epc' = epc
          /\ \A a \in Changers : Listed(a)' = Listed(a)
          /\ \A n \in Crawls : todo'[n] = todo[n] /\ cpc'[n] = cpc[n]
                                /\ crawlState'[n] = crawlState[n]
      BY <1>0, <2>1, <2>3 DEF Listed
    <3>4. \A a \in Changers \ {Editor} : todo'[a] # << >> => Len(todo'[a]) <= Len(Listed(a)')
      BY <1>0, <3>1, <3>2, <3>3 DEF TodoInv
    <3>5. /\ \A i \in Jobs : jobState'[i] # "active" => jpc'[i] = "idle"
          /\ \A i \in Jobs : todo'[i] # << >> => jpc'[i] = "link"
      BY <1>0, <3>1, <3>2, <2>1 DEF TodoInv
    <3>6. /\ \A n \in Crawls : crawlState'[n] # "active" => cpc'[n] = "idle"
          /\ \A n \in Crawls : todo'[n] # << >> => cpc'[n] = "link"
          /\ todo'[Editor] # << >> => epc' \in {"first", "rest"}
          /\ epc' = "first" => todo'[Editor] # << >>
      BY <1>0, <3>3 DEF TodoInv
    <3> QED
      BY <3>4, <3>5, <3>6 DEF TodoInv
  <2>6. MendedInv'
    BY <2>3 DEF MendedInv
  <2> QED
    BY <2>3, <2>5, <2>6 DEF CategoryInv
<1>11. CASE JobEnsure(j)
  <2>1. /\ jpc[j] = "ensure" /\ NoteClash(j) /\ jobState[j] = "active"
        /\ jpc' = [jpc EXCEPT ![j] = IF Linked = {} THEN "assign" ELSE "geoRead"]
        /\ UNCHANGED <<links, primary, snap, todo, repeated, epc, jobState, toolState,
                       abandoned, tasks, crawls>>
    BY <1>11 DEF JobEnsure
  <2>2. /\ Linked' = Linked /\ (Failed' <=> Failed)
        /\ \A a \in Changers : Listed(a)' = Listed(a)
    BY <2>1 DEF Linked, Failed, tasks, Listed
  <2>3. TodoInv'
    BY <1>0, <2>1, <2>2 DEF TodoInv
  <2>4. MendedInv'
    <3>1. CASE Linked = {}
      BY <1>0, <2>1, <3>1 DEF MendedInv, Mending
    <3>2. CASE Linked # {}
      BY <2>2, <3>2 DEF MendedInv
    <3> QED
      BY <3>1, <3>2
  <2>5. ~clashed' => ~clashed /\ \A b \in Changers \ {j} : ~Syncing(b)
    BY <2>1 DEF NoteClash, Changers
  <2>6. \A b \in Changers \ {j} : Syncing(b)' => Syncing(b)
    BY <1>0, <2>1 DEF Syncing, Jobs
  <2>7. AloneInv'
    <3>1. ~clashed' => \A a, b \in Changers : Syncing(a)' /\ Syncing(b)' => a = b
      BY <2>5, <2>6
    <3>2. ~clashed' => \A i \in Jobs : jpc'[i] = "assign" => Linked' = {}
      BY <1>0, <2>1, <2>2, <2>5 DEF CategoryInv, AloneInv
    <3> QED
      BY <3>1, <3>2 DEF AloneInv
  <2>8. PrimaryInv'
    BY <1>0, <2>1, <2>2, <2>5 DEF CategoryInv, PrimaryInv, OnlyPrimary, AtFirst
  <2> QED
    BY <2>3, <2>4, <2>7, <2>8 DEF CategoryInv
<1>12. CASE JobAssign(j)
  <2>1. /\ jpc[j] = "assign" /\ links' = [links EXCEPT ![Default] = "active"]
        /\ primary' = primary \union {Default} /\ jobState[j] = "active"
        /\ jpc' = [jpc EXCEPT ![j] = "geoRead"]
        /\ UNCHANGED <<snap, todo, clashed, repeated, epc, jobState, crawls>>
    BY <1>12 DEF JobAssign
  <2>2. Linked' = Linked \union {Default}
    BY <1>0, <2>1 DEF Linked
  <2>3. ~clashed => Linked = {} /\ \A b \in Changers : todo[b] = << >>
    <3>1. todo[j] = << >> /\ Syncing(j)
      BY <1>0, <2>1 DEF TodoInv, Syncing
    <3> QED
      BY <1>0, <2>1, <3>1 DEF CategoryInv, AloneInv, Syncing
  <2>4. TodoInv'
    BY <1>0, <2>1 DEF TodoInv, Listed
  <2>5. MendedInv'
    BY <2>2 DEF MendedInv
  <2>6. AloneInv'
    <3>1. \A b \in Changers : Syncing(b)' => Syncing(b)
      BY <1>0, <2>1 DEF Syncing, Jobs
    <3>2. ~clashed => \A i \in Jobs : jpc'[i] # "assign"
      <4>1. ~clashed => \A i \in Jobs \ {j} : ~Syncing(i)
        BY <1>0, <2>1 DEF CategoryInv, AloneInv, Syncing
      <4> QED
        BY <1>0, <2>1, <4>1 DEF Syncing
    <3> QED
      BY <2>1, <3>1, <3>2 DEF CategoryInv, AloneInv
  <2>7. PrimaryInv'
    <3>1. ~clashed => OnlyPrimary(Default)'
      BY <2>1, <2>2, <2>3 DEF OnlyPrimary
    <3> QED
      BY <1>0, <2>1, <2>3, <3>1 DEF PrimaryInv
  <2> QED
    BY <2>4, <2>5, <2>6, <2>7 DEF CategoryInv
<1>13. CASE JobAssignConflict(j) \/ JobFault(j)
  <2>1. /\ JobFails(j) /\ jobState[j] = "active"
    BY <1>13 DEF JobAssignConflict, JobFault
  <2>2. /\ jobState' = [jobState EXCEPT ![j] = AfterFailure(tries[j])]
        /\ jpc' = [jpc EXCEPT ![j] = "idle"] /\ todo' = [todo EXCEPT ![j] = << >>]
        /\ UNCHANGED <<links, primary, clashed, repeated, epc, toolState, crawls>>
        /\ \A a \in Changers \ {j} : Listed(a)' = Listed(a)
        /\ AfterFailure(tries[j]) \in {"waiting", "dead"}
    BY <1>0, <2>1 DEF JobFails, JobLeave, AfterFailure, Listed
  <2>3. Linked' = Linked /\ todo'[j] = << >> /\ \A b \in Changers \ {j} : todo'[b] = todo[b]
    BY <1>0, <2>2 DEF Linked
  <2>4. TodoInv'
    BY <1>0, <2>2, <2>3 DEF TodoInv
  <2>5. MendedInv'
    <3>1. CASE AfterFailure(tries[j]) = "waiting"
      BY <1>0, <2>2, <3>1 DEF MendedInv, Mending
    <3>2. CASE AfterFailure(tries[j]) = "dead"
      BY <1>0, <2>2, <3>2 DEF MendedInv, Failed
    <3> QED
      BY <2>2, <3>1, <3>2
  <2>6. AloneInv'
    BY <1>0, <2>2, <2>3 DEF CategoryInv, AloneInv, Syncing, Jobs
  <2>7. PrimaryInv'
    BY <1>0, <2>2, <2>3 DEF CategoryInv, PrimaryInv, OnlyPrimary, AtFirst
  <2> QED
    BY <2>4, <2>5, <2>6, <2>7 DEF CategoryInv
<1> QED
  BY <1>1, <1>2, <1>3, <1>4, <1>5, <1>6, <1>7, <1>8, <1>9, <1>10, <1>11, <1>12,
     <1>13 DEF JobWork

LEMMA CategoriesOfOthers ==
  ASSUME TypeInv, CategoryInv, [GrowthNext]_vars,
         \/ \E t \in IndexTasks : TaskWork(t) \/ TaskFault(t)
         \/ EditStart \/ EditWork \/ EditFault \/ Withdraw \/ UNCHANGED vars
  PROVE  CategoryInv'
<1>0. /\ TypeInv /\ CategoryInv /\ TodoInv
      /\ todo \in [Changers -> Seq(Categories)]
      /\ Editor \in Changers /\ Editor \notin Jobs /\ Jobs \subseteq Changers
      /\ Changers \ {Editor} = Jobs \union Crawls /\ Editor \notin Crawls
  BY CategoriesTyped DEF CategoryInv
<1>1. ASSUME \/ \E t \in IndexTasks : TaskWork(t) \/ TaskFault(t)
             \/ Withdraw \/ UNCHANGED vars
      PROVE  CategoryInv'
  <2>1. /\ UNCHANGED <<links, primary, snap, crawls, todo, clashed, repeated, epc, jpc,
                       jobState>>
        /\ toolState' # "DELETED" => toolState # "DELETED"
    BY <1>1 DEF TaskWork, TaskFault, TaskTake, TaskRead, TaskRemove, TaskWrite, TaskUpsert,
                TaskPopRead, TaskPopGone, TaskPopWrite, Withdraw, vars, jobs, tool, edit,
                history
  <2> QED
    BY <1>0, <2>1, CategoriesUntouched DEF TodoInv, Mending, Passed, Relinking, Listed, crawls
<1>2. CASE EditStart \/ EditWrite \/ EditIndex
  <2>1. /\ UNCHANGED <<links, primary, snap, crawls, todo, clashed, repeated, jpc,
                       jobState, toolState>>
        /\ epc' # "first" /\ epc # "first"
        /\ epc \in {"first", "rest"} => todo[Editor] = << >>
    BY <1>2 DEF EditStart, EditWrite, EditIndex, jobs, tool, history
  <2> QED
    BY <1>0, <2>1, CategoriesUntouched DEF TodoInv, Mending, Passed, Relinking, Listed, crawls
<1>3. CASE EditClear
  <2>1. PICK list \in EditLists : ClearLinks(Editor, list)
    BY <1>3 DEF EditClear
  <2>2. list \in Seq(Categories) /\ list # << >>
    BY GrowthAssumption
  <2>3. epc' = "first" /\ UNCHANGED <<primary, snap, crawls, cList, jpc, jobState>>
    BY <1>3 DEF EditClear, jobs, crawls
  <2>4. /\ todo'[Editor] = list /\ \A b \in Changers \ {Editor} : todo'[b] = todo[b]
        /\ AloneInv' /\ PrimaryInv'
    BY <1>0, <2>1, <2>2, <2>3, ListBegun
  <2>5. TodoInv'
    BY <1>0, <2>2, <2>3, <2>4 DEF TodoInv, Listed, crawls
  <2>6. MendedInv'
    BY <2>2, <2>4 DEF MendedInv
  <2> QED
    BY <2>4, <2>5, <2>6 DEF CategoryInv
<1>4. CASE EditLink
  <2>1. /\ UpsertLink(Editor, AtFirst(Editor)) /\ todo[Editor] # << >> /\ epc' = "rest"
        /\ UNCHANGED <<snap, crawls, cList, jpc, jobState, clashed, repeated>>
    BY <1>4 DEF EditLink, AtFirst, UpsertLink, Flag, jobs, crawls, history
  <2>2. /\ Linked' # {} /\ todo'[Editor] = Tail(todo[Editor])
        /\ \A b \in Changers \ {Editor} : todo'[b] = todo[b]
        /\ AloneInv' /\ PrimaryInv'
    BY <1>0, <2>1, ListGoesOn
  <2>3. TodoInv'
    BY <1>0, <2>1, <2>2 DEF TodoInv, Listed, crawls
  <2>4. MendedInv'
    BY <2>2 DEF MendedInv
  <2> QED
    BY <2>2, <2>3, <2>4 DEF CategoryInv
<1>5. CASE EditFault
  <2>1. /\ epc' = "idle" /\ abandoned' /\ todo' = [todo EXCEPT ![Editor] = << >>]
        /\ UNCHANGED <<links, primary, snap, crawls, clashed, repeated, jpc, jobState>>
        /\ \A a \in Changers : Listed(a)' = Listed(a)
    BY <1>5 DEF EditFault, tool, jobs, crawls, Listed
  <2>2. /\ Linked' = Linked /\ todo'[Editor] = << >>
        /\ \A b \in Changers \ {Editor} : todo'[b] = todo[b]
    BY <1>0, <2>1 DEF Linked
  <2>3. TodoInv'
    BY <1>0, <2>1, <2>2 DEF TodoInv, crawls
  <2>4. MendedInv'
    BY <2>1 DEF MendedInv, Failed
  <2>5. AloneInv'
    BY <1>0, <2>1, <2>2 DEF CategoryInv, AloneInv, Syncing, Jobs
  <2>6. PrimaryInv'
    BY <1>0, <2>1, <2>2 DEF CategoryInv, PrimaryInv, OnlyPrimary, AtFirst
  <2> QED
    BY <2>3, <2>4, <2>5, <2>6 DEF CategoryInv
<1> QED
  BY <1>1, <1>2, <1>3, <1>4, <1>5 DEF EditWork

LEMMA CategoriesOfCrawl ==
  ASSUME TypeInv, CategoryInv, [GrowthNext]_vars, NEW n \in Crawls, Crawling(n)
  PROVE  CategoryInv'
<1>0. /\ TypeInv /\ CategoryInv /\ TodoInv
      /\ todo \in [Changers -> Seq(Categories)]
      /\ crawlState \in [Crawls -> {"none", "waiting", "active", "done", "dead"}]
      /\ cpc \in [Crawls -> {"idle", "update", "clear", "link", "run"}]
      /\ cList[n] = Listed(n) /\ Listed(n) \in Seq(Categories)
      /\ Editor \in Changers /\ Editor \notin Jobs /\ Jobs \subseteq Changers
      /\ Changers \ {Editor} = Jobs \union Crawls /\ Crawls \intersect Jobs = {}
      /\ n \in Changers /\ n # Editor /\ n \notin Jobs
  BY CategoriesTyped DEF CategoryInv, Listed
<1>1. UNCHANGED <<toolState, snap, jobState, jpc, taskState, epc, abandoned>>
  BY CrawlFrame DEF jobs, tasks, edit
<1> USE DEF CrawlGoto, CrawlAt
<1>2. CASE EnqueueCrawl(n)
  <2>1. /\ crawlState[n] = "none" /\ crawlState' = [crawlState EXCEPT ![n] = "waiting"]
        /\ \A m \in Crawls \ {n} : cList'[m] = cList[m]
        /\ UNCHANGED <<links, primary, todo, clashed, repeated, cpc>>
    BY <1>2 DEF EnqueueCrawl, tool, history
  <2>2. \A a \in Changers \ {Editor} : todo[a] # << >> => Listed(a)' = Listed(a)
    BY <1>0, <1>1, <2>1 DEF Listed, TodoInv
  <2>3. \A m \in Crawls : Relinking(m) => Relinking(m)'
    BY <1>0, <2>1 DEF Relinking, TodoInv
  <2> QED
    BY <1>0, <1>1, <2>1, <2>2, <2>3, CategoriesUntouched DEF TodoInv, Mending, Passed
<1>3. CASE CrawlFind(n) \/ CrawlToolGone(n) \/ CrawlUpdate(n) \/ CrawlRun(n)
  <2>1. /\ UNCHANGED <<links, primary, todo, clashed, repeated, cList>>
        /\ \A m \in Crawls \ {n} : crawlState'[m] = crawlState[m] /\ cpc'[m] = cpc[m]
        /\ cpc[n] # "link"
        /\ crawlState'[n] # "active" => cpc'[n] = "idle"
        /\ toolState # "DELETED" /\ Relinking(n) => Relinking(n)'
    <3>1. CASE CrawlFind(n)
      BY <1>0, <3>1 DEF CrawlFind, Relinking, TodoInv, tool, history
    <3>2. CASE CrawlToolGone(n)
      BY <1>0, <3>2 DEF CrawlToolGone, CrawlLeave, Relinking, TodoInv, tool, history
    <3>3. CASE CrawlUpdate(n)
      BY <1>0, <3>3 DEF CrawlUpdate, Relinking
    <3>4. CASE CrawlRun(n)
      BY <1>0, <3>4 DEF CrawlRun, CrawlLeave, Relinking, tool, history
    <3> QED
      BY <1>3, <3>1, <3>2, <3>3, <3>4
  <2>2. \A m \in Crawls \ {n} : Relinking(m) => Relinking(m)'
    BY <2>1 DEF Relinking
  <2>3. \A a \in Changers : Listed(a)' = Listed(a)
    BY <1>1, <2>1 DEF Listed
  <2> QED
    BY <1>0, <1>1, <2>1, <2>2, <2>3, CategoriesUntouched DEF TodoInv, Mending, Passed
<1>4. CASE CrawlClear(n)
  <2>1. /\ ClearLinks(n, Listed(n)) /\ Listed(n) # << >> /\ cpc[n] = "clear"
        /\ UNCHANGED <<primary, cList, crawlState>> /\ cpc' = [cpc EXCEPT ![n] = "link"]
    BY <1>0, <1>4, CategoriesTyped DEF CrawlClear
  <2>2. /\ todo'[n] = Listed(n) /\ \A b \in Changers \ {n} : todo'[b] = todo[b]
        /\ AloneInv' /\ PrimaryInv'
    BY <1>0, <1>1, <2>1, ListBegun
  <2>3. \A a \in Changers : Listed(a)' = Listed(a)
    BY <1>1, <2>1 DEF Listed
  <2>4. TodoInv'
    <3>1. Len(Listed(n)) \in Nat
      BY <1>0
    <3>2. \A a \in Changers \ {Editor} : todo'[a] # << >> => Len(todo'[a]) <= Len(Listed(a)')
      BY <1>0, <2>2, <2>3, <3>1 DEF TodoInv
    <3> QED
      BY <1>0, <1>1, <2>1, <2>2, <3>2 DEF TodoInv
  <2>5. MendedInv'
    BY <1>0, <2>1 DEF MendedInv, Relinking
  <2> QED
    BY <2>2, <2>4, <2>5 DEF CategoryInv
<1>5. CASE CrawlLink(n)
  <2>1. /\ todo[n] # << >> /\ cpc[n] = "link" /\ crawlState[n] = "active"
        /\ AtFirst(n) <=> todo[n] = Listed(n)
        /\ UpsertLink(n, todo[n] = Listed(n))
        /\ UNCHANGED <<cList, crawlState, clashed, repeated>>
        /\ cpc' = [cpc EXCEPT ![n] = IF Len(todo[n]) = 1 THEN "run" ELSE "link"]
    BY <1>0, <1>5, CategoriesTyped DEF CrawlLink, AtFirst
  <2>2. UpsertLink(n, AtFirst(n))
    BY <2>1 DEF UpsertLink, Flag
  <2>3. /\ Linked' # {} /\ todo'[n] = Tail(todo[n])
        /\ \A b \in Changers \ {n} : todo'[b] = todo[b]
        /\ AloneInv' /\ PrimaryInv'
    BY <1>0, <1>1, <2>1, <2>2, ListGoesOn
  <2>4. /\ Len(todo[n]) \in Nat /\ Len(Tail(todo[n])) = Len(todo[n]) - 1
        /\ Len(todo[n]) = 1 => Tail(todo[n]) = << >>
        /\ Len(todo[n]) <= Len(Listed(n)) /\ Len(Listed(n)) \in Nat
    BY <1>0, <2>1, ListParts DEF TodoInv
  <2>5. \A a \in Changers : Listed(a)' = Listed(a)
    BY <1>1, <2>1 DEF Listed
  <2>6. TodoInv'
    <3>1. /\ Len(todo'[n]) <= Len(Listed(n))
          /\ todo'[n] # << >> => cpc'[n] = "link"
          /\ crawlState'[n] = "active"
      BY <1>0, <2>1, <2>3, <2>4
    <3>2. \A a \in Changers \ {n} : todo'[a] = todo[a]
      BY <2>3
    <3>3. \A a \in Changers \ {Editor} : todo'[a] # << >> => Len(todo'[a]) <= Len(Listed(a)')
      BY <1>0, <2>5, <3>1, <3>2 DEF TodoInv
    <3> QED
      BY <1>0, <1>1, <2>1, <3>1, <3>2, <3>3 DEF TodoInv
  <2>7. MendedInv'
    BY <2>3 DEF MendedInv
  <2> QED
    BY <2>3, <2>6, <2>7 DEF CategoryInv
<1>6. CASE CrawlFault(n)
  <2>1. /\ crawlState[n] = "active" /\ UNCHANGED <<links, primary, clashed, repeated, cList>>
        /\ crawlState' = [crawlState EXCEPT ![n] = AfterFailure(cTries[n])]
        /\ cpc' = [cpc EXCEPT ![n] = "idle"] /\ todo' = [todo EXCEPT ![n] = << >>]
        /\ AfterFailure(cTries[n]) \in {"waiting", "dead"}
    BY <1>6 DEF CrawlFault, CrawlLeave, AfterFailure, tool
  <2>2. /\ Linked' = Linked /\ todo'[n] = << >>
        /\ \A b \in Changers \ {n} : todo'[b] = todo[b]
        /\ \A a \in Changers : Listed(a)' = Listed(a)
    BY <1>0, <1>1, <2>1 DEF Linked, Listed
  <2>3. TodoInv'
    BY <1>0, <1>1, <2>1, <2>2 DEF TodoInv
  <2>4. MendedInv'
    <3>1. CASE AfterFailure(cTries[n]) = "waiting"
      <4>1. Relinking(n) => Relinking(n)'
        BY <1>0, <2>1, <3>1 DEF Relinking
      <4>2. \A m \in Crawls \ {n} : Relinking(m) => Relinking(m)'
        BY <1>0, <2>1 DEF Relinking
      <4>3. \A i \in Jobs : (Mending(i) => Mending(i)') /\ (Passed(i)' => Passed(i))
        BY <1>1 DEF Mending, Passed
      <4> QED
        BY <1>0, <1>1, <2>2, <4>1, <4>2, <4>3, FailureStays DEF CategoryInv, MendedInv
    <3>2. CASE AfterFailure(cTries[n]) = "dead"
      BY <1>0, <2>1, <3>2 DEF MendedInv, Failed
    <3> QED
      BY <2>1, <3>1, <3>2
  <2>5. AloneInv'
    BY <1>0, <1>1, <2>1, <2>2 DEF CategoryInv, AloneInv, Syncing, Jobs
  <2>6. PrimaryInv'
    BY <1>0, <1>1, <2>1, <2>2 DEF CategoryInv, PrimaryInv, OnlyPrimary, AtFirst
  <2> QED
    BY <2>3, <2>4, <2>5, <2>6 DEF CategoryInv
<1> QED
  BY <1>2, <1>3, <1>4, <1>5, <1>6 DEF Crawling, CrawlWork

\* A tool whose jobs are over has a category, and exactly one primary category unless
\* two changes overlapped or a list named its first category twice, whatever is
\* retried, whatever the editor sends and whatever crawls write meanwhile.
THEOREM ToolsAreCategorised == GrowthSpec => []Categorised
<1>1. GrowthInit => CategoryInv
  <2> SUFFICES ASSUME GrowthInit PROVE CategoryInv
    OBVIOUS
  <2>1. /\ \A a \in Changers : todo[a] = << >>
        /\ \A j \in Jobs : jpc[j] = "idle" /\ jobState[j] = "none"
        /\ epc = "idle" /\ \A n \in Crawls : cpc[n] = "idle"
        /\ Default \in Categories /\ primary \in {{}, {Default}} /\ Linked = primary
    BY GrowthAssumption DEF GrowthInit, Changers, Linked
  <2>2. TodoInv
    BY <2>1 DEF TodoInv, Changers
  <2>3. MendedInv /\ AloneInv
    BY <2>1 DEF MendedInv, AloneInv, Passed, Syncing, Changers
  <2>4. PrimaryInv
    BY <2>1 DEF PrimaryInv, OnlyPrimary
  <2> QED
    BY <2>2, <2>3, <2>4 DEF CategoryInv
<1>2. TypeInv /\ CategoryInv /\ [GrowthNext]_vars => (TypeInv /\ CategoryInv)'
  BY TypeStep, CategoriesOfJob, CategoriesOfOthers, CategoriesOfCrawl, EveryStep
<1>3. TypeInv /\ CategoryInv => Categorised
  <2> SUFFICES ASSUME TypeInv, CategoryInv, Drained, ~Failed, toolState # "DELETED",
                      NEW j \in Jobs, jobState[j] = "done"
               PROVE  /\ Linked # {}
                      /\ ~clashed /\ ~repeated => Cardinality(Linked \intersect primary) = 1
    BY DEF Categorised
  <2>1. Linked # {}
    <3>1. Passed(j)
      BY DEF Passed
    <3>2. \A i \in Jobs : ~Mending(i)
      BY DEF Drained, Pending, CategoryInv, TodoInv, Mending
    <3>3. todo[Editor] = << >>
      BY DEF Drained, CategoryInv, TodoInv
    <3>4. \A n \in Crawls : ~Relinking(n)
      BY DEF Drained, Pending, CategoryInv, TodoInv, Relinking
    <3> QED
      BY <3>1, <3>2, <3>3, <3>4 DEF CategoryInv, MendedInv
  <2>2. ASSUME ~clashed, ~repeated PROVE Cardinality(Linked \intersect primary) = 1
    <3>1. PICK c \in Categories : Linked \intersect primary = {c}
      BY <2>1, <2>2 DEF CategoryInv, PrimaryInv, OnlyPrimary
    <3> QED
      BY <3>1, FS_Singleton
  <2> QED
    BY <2>1, <2>2
<1> QED
  BY TypeInit, <1>1, <1>2, <1>3, PTL DEF GrowthSpec

-----------------------------------------------------------------------------
(* The search document *)

\* A step of a growth job that leaves something ahead.
LEMMA DocumentAhead ==
  ASSUME DocumentInv, UNCHANGED <<ipc, crossed>>,
         toolState' = "PUBLISHED" /\ ~Failed' => Ahead'
  PROVE  DocumentInv'
BY DEF DocumentInv, Indexing

\* A step that neither changes the categories nor touches an index task.
LEMMA DocumentKept ==
  ASSUME DocumentInv, UNCHANGED <<links, document, taskState, ipc, iCats, crossed>>,
         toolState' = "PUBLISHED" => toolState = "PUBLISHED",
         Failed => Failed',
         unread => unread',
         epc' = epc,
         \A i \in Jobs :
           jobState[i] = "waiting" \/ (jobState[i] = "active" /\ jpc[i] \in EarlyPcs \union {"index"})
             => jobState'[i] = jobState[i] /\ jpc'[i] = jpc[i]
  PROVE  DocumentInv'
<1>1. Ahead => Ahead'
  BY DEF Ahead
<1>2. Linked' = Linked /\ \A t \in IndexTasks : Indexing(t)' <=> Indexing(t)
  BY DEF Linked, Indexing
<1>3. Carried => Carried'
  BY <1>2 DEF Carried
<1> QED
  BY <1>1, <1>2, <1>3 DEF DocumentInv

LEMMA DocumentOfJob ==
  ASSUME TypeInv, DocumentInv, [GrowthNext]_vars,
         NEW j \in Jobs, EnqueueGrowth(j) \/ JobWork(j) \/ JobFault(j)
  PROVE  DocumentInv'
<1>0. /\ TypeInv /\ DocumentInv
      /\ jpc \in [Jobs -> JobPcs]
      /\ jobState \in [Jobs -> {"none", "waiting", "active", "done", "dead"}]
      /\ taskState \in [IndexTasks -> {"none", "waiting", "active", "done", "dead"}]
  BY CategoriesTyped
<1> USE DEF JobGoto, JobAt, tool, tasks, history
<1>1. CASE EnqueueGrowth(j) \/ JobTake(j) \/ JobRead(j) \/ JobClear(j) \/ JobLink(j)
  BY <1>0, <1>1, DocumentAhead
     DEF EnqueueGrowth, JobTake, JobRead, JobClear, JobLink, Ahead, EarlyPcs
<1>2. CASE JobToolGone(j)
  BY <1>0, <1>2, DocumentAhead DEF JobToolGone
<1>3. CASE JobEnsure(j) \/ JobAssign(j) \/ JobGeoRead(j) \/ JobGeoWrite(j)
  BY <1>0, <1>3, DocumentAhead
     DEF JobEnsure, JobAssign, JobGeoRead, JobGeoWrite, Ahead, EarlyPcs
<1>4. CASE JobIndex(j)
  <2>1. PICK t \in IndexTasks : taskState' = [taskState EXCEPT ![t] = "waiting"]
    BY <1>4 DEF JobIndex, EnqueueIndex
  <2>2. taskState'[t] = "waiting"
    BY <1>0, <2>1
  <2>3. Ahead'
    BY <2>2 DEF Ahead
  <2> QED
    BY <1>0, <1>4, <2>3, DocumentAhead DEF JobIndex
<1>5. CASE JobComplete(j) \/ JobWorkflow(j) \/ JobReturn(j) \/ JobWrite(j)
  <2>1. /\ UNCHANGED <<links, document, taskState, ipc, iCats, crossed, toolState, epc,
                       unread>>
        /\ \A i \in Jobs \ {j} : jobState'[i] = jobState[i] /\ jpc'[i] = jpc[i]
        /\ jobState[j] = "active" /\ jpc[j] \in {"emit", "workflow", "write"}
    BY <1>0, <1>5
       DEF JobComplete, JobWorkflow, JobReturn, JobWrite, JobLeave, jobs, edit
  <2>3. jpc[j] \notin EarlyPcs \union {"index"}
    BY <2>1 DEF EarlyPcs
  <2> QED
    BY <1>0, <2>1, <2>3, FailureStays, DocumentKept
<1>6. CASE JobAssignConflict(j) \/ JobFault(j)
  <2>1. /\ jobState' = [jobState EXCEPT ![j] = AfterFailure(tries[j])]
        /\ AfterFailure(tries[j]) \in {"waiting", "dead"}
        /\ UNCHANGED <<ipc, crossed>>
    BY <1>6 DEF JobAssignConflict, JobFault, JobFails, JobLeave, AfterFailure
  <2>2. Ahead' \/ Failed'
    BY <1>0, <2>1 DEF Ahead, Failed
  <2> QED
    BY <1>0, <2>1, <2>2, DocumentAhead
<1> QED
  BY <1>1, <1>2, <1>3, <1>4, <1>5, <1>6 DEF JobWork

LEMMA DocumentOfTask ==
  ASSUME TypeInv, DocumentInv, [GrowthNext]_vars,
         NEW t \in IndexTasks, TaskWork(t) \/ TaskFault(t)
  PROVE  DocumentInv'
<1>0. /\ TypeInv /\ DocumentInv
      /\ ipc \in [IndexTasks -> TaskPcs]
      /\ taskState \in [IndexTasks -> {"none", "waiting", "active", "done", "dead"}]
      /\ iCats \in [IndexTasks -> SUBSET Categories]
      /\ \A u \in IndexTasks : taskState[u] # "active" => ipc[u] = "idle"
  BY KeysTyped DEF TypeInv, GrowthTypeOK
<1>1. /\ UNCHANGED <<links, toolState, epc, jobState, jpc, abandoned>>
      /\ Linked' = Linked
  BY DEF TaskWork, TaskFault, TaskTake, TaskRead, TaskRemove, TaskWrite, TaskUpsert,
         TaskPopRead, TaskPopGone, TaskPopWrite, tool, jobs, edit, history, Linked
<1>2. UNCHANGED crawlState /\ (unread => unread' \/ TaskRead(t))
  BY DEF TaskWork, TaskFault, TaskTake, TaskRead, TaskRemove, TaskWrite, TaskUpsert,
         TaskPopRead, TaskPopGone, TaskPopWrite, crawls, history
<1>3. Failed => Failed'
  BY FailureStays
<1> USE DEF TaskAt, history, tool
<1>4. CASE TaskTake(t)
  <2>1. /\ taskState[t] = "waiting" /\ ipc' = [ipc EXCEPT ![t] = "read"] /\ UNCHANGED crossed
    BY <1>4 DEF TaskTake
  <2>2. Ahead'
    BY <1>0, <2>1 DEF Ahead
  <2>3. \A u \in IndexTasks : Indexing(u)' => Indexing(u)
    BY <1>0, <2>1 DEF Indexing
  <2> QED
    BY <1>0, <2>1, <2>2, <2>3 DEF DocumentInv
<1>5. CASE TaskRead(t)
  <2>1. /\ ipc' = [ipc EXCEPT ![t] = "write"] /\ iCats' = [iCats EXCEPT ![t] = Linked]
        /\ crossed' = (crossed \/ \E u \in IndexTasks : Indexing(u))
    BY <1>5 DEF TaskRead
  <2>2. Carried'
    BY <1>0, <1>1, <2>1 DEF Carried, Indexing
  <2>3. ~crossed' => \A u \in IndexTasks : Indexing(u)' => u = t
    BY <1>0, <2>1 DEF Indexing
  <2> QED
    BY <2>2, <2>3 DEF DocumentInv
<1>6. CASE TaskRemove(t)
  <2>1. /\ ipc' = [ipc EXCEPT ![t] = "popRead"] /\ toolState' # "PUBLISHED"
        /\ crossed' = (crossed \/ \E u \in IndexTasks : Indexing(u))
    BY <1>6 DEF TaskRemove
  <2>2. \A u \in IndexTasks : Indexing(u)' => Indexing(u)
    BY <1>0, <2>1 DEF Indexing
  <2>3. ~crossed' => \A u \in IndexTasks : ~Indexing(u)'
    BY <2>1, <2>2
  <2> QED
    BY <2>1, <2>3 DEF DocumentInv
<1>7. CASE TaskWrite(t)
  <2>1. /\ ipc' = [ipc EXCEPT ![t] = "upsert"] /\ ipc[t] = "write"
        /\ UNCHANGED <<document, taskState, iCats, crossed, unread>>
    BY <1>7 DEF TaskWrite
  <2>2. /\ \A u \in IndexTasks : Indexing(u)' <=> Indexing(u)
        /\ \A u \in IndexTasks : ipc[u] = "read" => ipc'[u] = "read"
    BY <1>0, <2>1 DEF Indexing
  <2>3. (Ahead => Ahead') /\ (Carried => Carried')
    BY <1>1, <2>1, <2>2 DEF Ahead, Carried
  <2> QED
    BY <1>0, <1>1, <1>2, <1>3, <2>1, <2>2, <2>3 DEF DocumentInv
<1>8. CASE TaskUpsert(t)
  <2>1. /\ ipc[t] = "upsert" /\ ipc' = [ipc EXCEPT ![t] = "popRead"] /\ document' = iCats[t]
        /\ UNCHANGED <<taskState, crossed, unread>>
    BY <1>8 DEF TaskUpsert
  <2>2. /\ Indexing(t) /\ \A u \in IndexTasks : Indexing(u)' => Indexing(u) /\ u # t
    BY <1>0, <2>1 DEF Indexing
  <2>3. Ahead => Ahead'
    BY <1>0, <1>1, <2>1 DEF Ahead
  <2>4. ~crossed => \A u \in IndexTasks : Indexing(u) => u = t
    BY <1>0, <2>2 DEF DocumentInv
  <2>5. ~crossed /\ Carried => document' = Linked'
    BY <1>1, <2>1, <2>4 DEF Carried
  <2> QED
    BY <1>0, <1>1, <1>2, <1>3, <2>1, <2>2, <2>3, <2>4, <2>5 DEF DocumentInv
<1>9. CASE TaskPopRead(t) \/ TaskPopGone(t) \/ TaskPopWrite(t)
  <2>1. /\ taskState[t] = "active" /\ ipc[t] \in {"popRead", "popWrite"}
        /\ ipc'[t] \in {"popWrite", "idle"}
        /\ \A u \in IndexTasks \ {t} : /\ ipc'[u] = ipc[u] /\ taskState'[u] = taskState[u]
                                       /\ iCats'[u] = iCats[u]
        /\ UNCHANGED <<document, crossed, unread>>
    BY <1>0, <1>9 DEF TaskPopRead, TaskPopGone, TaskPopWrite, TaskLeave
  <2>2. \A u \in IndexTasks : Indexing(u)' <=> Indexing(u)
    BY <2>1 DEF Indexing
  <2>3. (Ahead => Ahead') /\ (Carried => Carried')
    <3>1. ~Indexing(t)
      BY <2>1 DEF Indexing
    <3> QED
      BY <1>1, <2>1, <2>2, <3>1 DEF Ahead, Carried
  <2> QED
    BY <1>0, <1>1, <1>2, <1>3, <2>1, <2>2, <2>3 DEF DocumentInv
<1>10. CASE TaskFault(t)
  <2>1. /\ taskState' = [taskState EXCEPT ![t] = AfterFailure(iTries[t])]
        /\ AfterFailure(iTries[t]) \in {"waiting", "dead"}
        /\ ipc' = [ipc EXCEPT ![t] = "idle"] /\ UNCHANGED crossed
    BY <1>10 DEF TaskFault, TaskLeave, AfterFailure
  <2>2. Ahead' \/ Failed'
    BY <1>0, <2>1 DEF Ahead, Failed
  <2>3. \A u \in IndexTasks : Indexing(u)' => Indexing(u)
    BY <1>0, <2>1 DEF Indexing
  <2> QED
    BY <1>0, <2>1, <2>2, <2>3 DEF DocumentInv
<1> QED
  BY <1>4, <1>5, <1>6, <1>7, <1>8, <1>9, <1>10 DEF TaskWork

LEMMA DocumentOfOthers ==
  ASSUME TypeInv, DocumentInv, [GrowthNext]_vars,
         EditStart \/ EditWork \/ EditFault \/ Withdraw \/ UNCHANGED vars
  PROVE  DocumentInv'
<1>0. /\ TypeInv /\ DocumentInv
      /\ taskState \in [IndexTasks -> {"none", "waiting", "active", "done", "dead"}]
  BY CategoriesTyped
<1>1. CASE EditStart \/ EditWrite \/ EditClear \/ EditLink
  BY <1>0, <1>1, DocumentAhead
     DEF EditStart, EditWrite, EditClear, EditLink, Ahead, tasks, history
<1>2. CASE EditIndex
  <2>1. PICK t \in IndexTasks : taskState' = [taskState EXCEPT ![t] = "waiting"]
    BY <1>2 DEF EditIndex, EnqueueIndex
  <2>2. taskState'[t] = "waiting"
    BY <1>0, <2>1
  <2>3. Ahead'
    BY <2>2 DEF Ahead
  <2> QED
    BY <1>0, <1>2, <2>3, DocumentAhead DEF EditIndex, history
<1>3. CASE EditFault
  <2>1. Failed' /\ UNCHANGED <<ipc, crossed>>
    BY <1>3 DEF EditFault, Failed, tasks
  <2> QED
    BY <1>0, <2>1, DocumentAhead
<1>4. CASE Withdraw
  <2>1. toolState' # "PUBLISHED" /\ UNCHANGED <<ipc, crossed>>
    BY <1>4 DEF Withdraw, tasks, history
  <2> QED
    BY <1>0, <2>1, DocumentAhead
<1>5. CASE UNCHANGED vars
  <2>1. UNCHANGED <<tool, jobs, tasks, epc, history>>
    BY <1>5 DEF vars, edit
  <2> QED
    BY <1>0, <2>1, FailureStays, DocumentKept DEF tool, jobs, tasks, history
<1> QED
  BY <1>1, <1>2, <1>3, <1>4, <1>5 DEF EditWork

\* A crawl changes the categories and leaves them unread, or leaves them alone.
LEMMA DocumentOfCrawl ==
  ASSUME TypeInv, DocumentInv, [GrowthNext]_vars, NEW n \in Crawls, Crawling(n)
  PROVE  DocumentInv'
<1>1. UNCHANGED <<toolState, document, jobState, jpc, taskState, ipc, iCats, epc, crossed>>
  BY CrawlFrame DEF jobs, tasks, edit
<1>2. CASE CrawlClear(n) \/ CrawlLink(n)
  <2>1. unread'
    BY <1>2 DEF CrawlClear, CrawlLink, ClearLinks, UpsertLink
  <2> QED
    BY <1>1, <2>1 DEF DocumentInv, Indexing
<1>3. CASE UNCHANGED <<links, unread>>
  BY <1>1, <1>3, FailureStays, DocumentKept
<1>4. CrawlFault(n) => UNCHANGED <<links, unread>>
  BY DEF CrawlFault, tool
<1> QED
  BY <1>2, <1>3, <1>4, CrawlFrame

\* When the queues have drained, the search document of a published tool lists the
\* tool's categories, unless two index tasks overlapped, one was given up, or a crawl
\* changed the categories after they were read: whatever jobs and the editor do to the
\* categories, and however often, a task still reads them afterwards.
THEOREM DocumentIsCurrent == GrowthSpec => []DocumentCurrent
<1>1. GrowthInit => DocumentInv
  BY DEF GrowthInit, DocumentInv, Indexing
<1>2. TypeInv /\ DocumentInv /\ [GrowthNext]_vars => (TypeInv /\ DocumentInv)'
  BY TypeStep, DocumentOfJob, DocumentOfTask, DocumentOfOthers, DocumentOfCrawl, EveryStep
<1>3. TypeInv /\ DocumentInv => DocumentCurrent
  <2> SUFFICES ASSUME TypeInv, DocumentInv, Drained, ~Failed, ~crossed,
                      toolState = "PUBLISHED", ~unread
               PROVE  document = Linked
    BY DEF DocumentCurrent
  <2>1. \A t \in IndexTasks : ipc[t] = "idle"
    BY KeysTyped DEF Drained, Pending
  <2>2. ~Ahead /\ ~Carried
    BY <2>1 DEF Drained, Pending, Ahead, Carried, Indexing
  <2> QED
    BY <2>2 DEF DocumentInv
<1> QED
  BY TypeInit, <1>1, <1>2, <1>3, PTL DEF GrowthSpec

=============================================================================
