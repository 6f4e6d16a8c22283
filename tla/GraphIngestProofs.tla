------------------------- MODULE GraphIngestProofs -------------------------
(***************************************************************************)
(* What every ingest guarantees of the graph, for any files, contents and  *)
(* processes: its types, that nothing in it dangles at any statement       *)
(* boundary, that the version log only grows, that a crash tears one       *)
(* version at most from its edge, and what a lone run over the history     *)
(* leaves: one node per file, the whole of HEAD, and after a first run     *)
(* nodes that are as their versions say.                                   *)
(***************************************************************************)
EXTENDS GraphIngest, TLAPS, FiniteSetTheorems, NaturalsInduction, WellFoundedInduction

KnownRecord == [id : ArtifactId, path : Path, fp : AnyPrint]
SeenRecord == [path : Path, fp : AnyPrint]

-----------------------------------------------------------------------------
(***************************************************************************)
(* Resolution.  Whatever pairings it finds, an outcome is a set of records *)
(* that answers every observation, takes the paths of what it keeps from   *)
(* the observations, and deletes or leaves unchanged only known artifacts. *)
(***************************************************************************)
\* A plan has a record for each node observed.
LEMMA ResolutionFacts ==
  ASSUME NEW known \in SUBSET KnownRecord,
         NEW observed \in SUBSET SeenRecord,
         NEW plan \in Resolutions(known, observed)
  PROVE  /\ plan \subseteq Record
         /\ \A o \in observed : \E r \in plan : r.path = o.path /\ r.kind # "deleted"
         /\ \A r \in plan : r.kind # "deleted" => \E o \in observed : r.path = o.path
         /\ \A r \in plan : r.kind \in {"unchanged", "deleted"} =>
                              \E k \in known : r.id = k.id
<1>1. PICK exact \in ExactPairings(known, observed) :
        \E fuzzy \in GreedyPairings(Candidates(Disappeared(known, exact),
                                               Appeared(observed, exact))) :
          plan = Outcome(known, observed, exact, fuzzy)
  BY DEF Resolutions
<1>2. PICK fuzzy \in GreedyPairings(Candidates(Disappeared(known, exact),
                                               Appeared(observed, exact))) :
          plan = Outcome(known, observed, exact, fuzzy)
  BY <1>1
<1>3. exact \subseteq [known : known, obs : observed]
  BY DEF ExactPairings, SamePath
<1>4. fuzzy \subseteq [known : known, obs : observed]
  BY DEF GreedyPairings, Candidates, Disappeared, Appeared
<1> DEFINE Edit(m) == IF m.known.fp = m.obs.fp THEN "unchanged" ELSE "modified"
           Shift(m) == IF Container(m.known.path) = Container(m.obs.path)
                       THEN "renamed" ELSE "moved"
           Left == Appeared(observed, exact) \ {m.obs : m \in fuzzy}
           Gone == Disappeared(known, exact) \ {m.known : m \in fuzzy}
           Kept == {Resolved(m.known.id, m.obs, Edit(m)) : m \in exact}
           Shifted == {Resolved(m.known.id, m.obs, Shift(m)) : m \in fuzzy}
           Added == {Resolved(Derive(o.path, o.fp), o, "added") : o \in Left}
           Deleted == {Resolved(k.id, k, "deleted") : k \in Gone}
<1>5. plan = Kept \cup Shifted \cup Added \cup Deleted
  BY <1>2 DEF Outcome
<1>6. Left \subseteq observed /\ Gone \subseteq known
  BY DEF Appeared, Disappeared
<1>7. \A r \in Kept :
        /\ r \in Record /\ r.kind \in {"unchanged", "modified"}
        /\ \E k \in known : r.id = k.id
        /\ \E o \in observed : r.path = o.path
  <2>1. SUFFICES ASSUME NEW m \in exact
                 PROVE  LET r == Resolved(m.known.id, m.obs, Edit(m))
                        IN  /\ r \in Record /\ r.kind \in {"unchanged", "modified"}
                            /\ \E k \in known : r.id = k.id
                            /\ \E o \in observed : r.path = o.path
    OBVIOUS
  <2>2. m.known \in known /\ m.obs \in observed
    BY <1>3
  <2>3. m.known \in KnownRecord /\ m.obs \in SeenRecord
    BY <2>2
  <2>4. QED
    BY <2>2, <2>3 DEF Resolved, Record, Kind, KnownRecord, SeenRecord
<1>8. \A r \in Shifted :
        /\ r \in Record /\ r.kind \in {"renamed", "moved"}
        /\ \E o \in observed : r.path = o.path
  <2>1. SUFFICES ASSUME NEW m \in fuzzy
                 PROVE  LET r == Resolved(m.known.id, m.obs, Shift(m))
                        IN  /\ r \in Record /\ r.kind \in {"renamed", "moved"}
                            /\ \E o \in observed : r.path = o.path
    OBVIOUS
  <2>2. m.known \in known /\ m.obs \in observed
    BY <1>4
  <2>3. m.known \in KnownRecord /\ m.obs \in SeenRecord
    BY <2>2
  <2>4. QED
    BY <2>2, <2>3 DEF Resolved, Record, Kind, KnownRecord, SeenRecord
<1>9. \A r \in Added : /\ r \in Record /\ r.kind = "added"
                       /\ \E o \in observed : r.path = o.path
  BY <1>6 DEF Resolved, Derive, ArtifactId, Record, Kind, SeenRecord
<1>10. \A r \in Deleted : /\ r \in Record /\ r.kind = "deleted"
                          /\ \E k \in known : r.id = k.id
  BY <1>6 DEF Resolved, Record, Kind, KnownRecord
<1>11. ASSUME NEW o \in observed
       PROVE  \E r \in plan : r.path = o.path /\ r.kind # "deleted"
  <2>1. CASE \E m \in exact : m.obs = o
    <3>1. PICK m \in exact : m.obs = o
      BY <2>1
    <3>2. Resolved(m.known.id, m.obs, Edit(m)) \in Kept
      OBVIOUS
    <3>3. Resolved(m.known.id, m.obs, Edit(m)).path = o.path
      BY <3>1 DEF Resolved
    <3> HIDE DEF Kept, Edit
    <3>4. QED
      BY <3>2, <3>3, <1>5, <1>7
  <2>2. CASE \E m \in fuzzy : m.obs = o
    <3>1. PICK m \in fuzzy : m.obs = o
      BY <2>2
    <3>2. Resolved(m.known.id, m.obs, Shift(m)) \in Shifted
      OBVIOUS
    <3>3. Resolved(m.known.id, m.obs, Shift(m)).path = o.path
      BY <3>1 DEF Resolved
    <3> HIDE DEF Shifted, Shift
    <3>4. QED
      BY <3>2, <3>3, <1>5, <1>8
  <2>3. CASE o \in Left
    BY <1>5, <1>9, <2>3 DEF Resolved
  <2>4. QED
    BY <2>1, <2>2, <2>3 DEF Appeared
<1>12. QED
  BY <1>5, <1>7, <1>8, <1>9, <1>10, <1>11

-----------------------------------------------------------------------------
(***************************************************************************)
(* What resolution is given: the nodes of the graph on one side, the files *)
(* present in a commit of the history on the other.                        *)
(***************************************************************************)
\* What is known to a level are nodes of the graph.
LEMMA KnownFacts ==
  ASSUME TypeOK, NEW level, NEW k
  PROVE  /\ Known(level, k) \subseteq KnownRecord
         /\ \A r \in Known(level, k) : r.id \in DOMAIN nodes
<1>1. \A id \in DOMAIN nodes : id \in ArtifactId /\ nodes[id] \in NodeRow
  BY DEF TypeOK, StoreOK, IsTable
<1>2. \A id \in DOMAIN nodes : nodes[id].path \in Path
  BY <1>1 DEF NodeRow
<1>3. \A id : PrintOf(id) \in AnyPrint
  BY DEF TypeOK, StoreOK, IsTable, PrintOf, AnyPrint
<1>4. QED
  BY <1>1, <1>2, <1>3 DEF Known, KnownRecord

\* What a commit shows is well-typed and lies in its present files; every present
\* file is shown at the file level.
LEMMA ObservedFacts ==
  ASSUME TypeOK, NEW level, NEW k \in 1..Len(history)
  PROVE  /\ Observed(level, k) \subseteq SeenRecord
         /\ \A o \in Observed(level, k) : o.path.file \in Present(k)
         /\ level = "file" =>
              \A f \in Present(k) : \E o \in Observed(level, k) : o.path.file = f
<1>1. history[k] \in Change
  BY DEF TypeOK
<1>2. PICK S \in SUBSET File : history[k] \in [S -> Content \cup {Absent}]
  BY <1>1 DEF Change
<1>3. \A f \in Present(k) : f \in File /\ history[k][f] \in Content
  BY <1>2 DEF Present, Changed
<1>4. ASSUME NEW f \in Present(k)
      PROVE  /\ FileSeen(f, history[k][f]) \in SeenRecord
             /\ FileSeen(f, history[k][f]).path.file = f
             /\ SymbolsSeen(f, history[k][f]) \subseteq SeenRecord
             /\ \A o \in SymbolsSeen(f, history[k][f]) : o.path.file = f
  <2> DEFINE c == history[k][f]
  <2>1. f \in File /\ c \in Content
    BY <1>3
  <2>2. FilePrint[c] \in Fingerprint
    BY <2>1 DEF Fingerprint
  <2>3. Symbols[c] \subseteq [name : Name, fp : Fingerprint]
    BY <2>1, ContentAssumption
  <2> HIDE DEF c
  <2>4. QED
    BY <2>1, <2>2, <2>3 DEF FileSeen, SymbolsSeen, FilePath, SeenRecord, Path, AnyPrint, c
<1>5. CASE level = "file"
  BY <1>4, <1>5 DEF Observed
<1>6. CASE level # "file"
  BY <1>4, <1>6 DEF Observed
<1>7. QED
  BY <1>5, <1>6

-----------------------------------------------------------------------------
(***************************************************************************)
(* The tables only gain keys, so what a job that does not step relies on   *)
(* stays.                                                                  *)
(***************************************************************************)
\* Insertions keep a table a table.
LEMMA TableFacts ==
  ASSUME NEW keys, NEW rows, NEW table, IsTable(table, keys, rows),
         NEW key \in keys, NEW row \in rows
  PROVE  /\ IsTable(InsertOrReplace(table, key, row), keys, rows)
         /\ IsTable(InsertOrIgnore(table, key, row), keys, rows)
         /\ DOMAIN InsertOrReplace(table, key, row) = DOMAIN table \cup {key}
         /\ DOMAIN InsertOrIgnore(table, key, row) = DOMAIN table \cup {key}
         /\ Extends(InsertOrIgnore(table, key, row), table)
BY DEF IsTable, InsertOrReplace, InsertOrIgnore, Extends

Grows ==
  /\ DOMAIN nodes \subseteq DOMAIN nodes'
  /\ DOMAIN versions \subseteq DOMAIN versions'
  /\ tasks \subseteq tasks' /\ taskRows \subseteq taskRows'
  /\ Len(history) \in Nat /\ Len(history') \in Nat /\ Len(history) <= Len(history')
  /\ \A k \in 1..Len(history) : history'[k] = history[k]

JobSafe(j) == TaskSafe(j) /\ PlanSafe(j) /\ ItemSafe(j)

\* A job that is left alone stays safe while the graph and the history only grow.
LEMMA SafeKeeps ==
  ASSUME Grows, NEW q, NEW j, job'[q] = j, JobSafe(j)
  PROVE  JobSafe(job[q])'
<1>1. TaskSafe(job[q])'
  BY DEF Grows, JobSafe, TaskSafe
<1>2. PlanSafe(job[q])'
  <2>1. j.stage \in Recording \cup {"next", "resolve"} => j.commit \in 1..Len(history)
    BY DEF JobSafe, TaskSafe, Recording
  <2>2. j.stage \in Recording \cup {"next", "resolve"} => Present(j.commit)' = Present(j.commit)
    BY <2>1 DEF Grows, Present, Changed
  <2>3. QED
    BY <2>2 DEF Grows, JobSafe, PlanSafe
<1>3. ItemSafe(job[q])'
  BY DEF Grows, JobSafe, ItemSafe, Item, ItemVersion, VersionId
<1>4. QED
  BY <1>1, <1>2, <1>3 DEF JobSafe

-----------------------------------------------------------------------------
(***************************************************************************)
(* The inductive invariant, one lemma per action.                          *)
(***************************************************************************)
IInv == TypeOK /\ CurrentRecorded /\ NothingDangles /\ JobsSafe

GraphSafe == CurrentRecorded /\ NothingDangles

\* Only the job of p moves.
OnlyMoves(p) == DOMAIN job' = Proc /\ \A q \in Proc \ {p} : job'[q] = job[q]

\* A step that grows the graph and leaves the job it moves safe keeps all jobs safe.
LEMMA StepFacts ==
  ASSUME IInv, NEW p \in Proc, OnlyMoves(p), Grows, JobSafe(job[p])'
  PROVE  JobsSafe'
<1>1. ASSUME NEW q \in Proc \ {p}
      PROVE  JobSafe(job[q])'
  BY SafeKeeps DEF IInv, JobsSafe, JobSafe, OnlyMoves
<1>2. QED
  BY <1>1 DEF JobsSafe, JobSafe

\* Each job is well-typed and safe, and replacing one moves only that one.
LEMMA JobFacts ==
  ASSUME IInv, NEW p \in Proc
  PROVE  /\ job[p] \in Job /\ JobSafe(job[p])
         /\ \A j : job' = [job EXCEPT ![p] = j] => OnlyMoves(p) /\ job'[p] = j
BY DEF IInv, TypeOK, JobsSafe, JobSafe, OnlyMoves

\* An idle job and one at the start of a commit of the history are well-typed and safe.
LEMMA BeginFacts ==
  /\ Idle \in Job /\ JobSafe(Idle)
  /\ IInv => \A k, n \in 1..Len(history) : Begin(k, n) \in Job /\ JobSafe(Begin(k, n))
<1>1. EmptyTable \in FileIdMap
  <2>1. EmptyTable \in [{} -> ArtifactId]
    BY DEF EmptyTable
  <2>2. QED
    BY <2>1 DEF FileIdMap
<1>2. Idle \in Job
  BY <1>1 DEF Idle, Job, Stage
<1>3. IInv => \A k, n \in 1..Len(history) : Begin(k, n) \in Job
  <2>1. IInv => Len(history) \in Nat
    BY DEF IInv, TypeOK
  <2>2. \A k, n \in Nat : Begin(k, n) \in Job
    BY <1>1 DEF Idle, Begin, Job, Stage
  <2>3. QED
    BY <2>1, <2>2
<1>4. JobSafe(Idle)
  BY DEF Idle, EmptyTable, JobSafe, TaskSafe, PlanSafe, ItemSafe, Recording
<1>5. IInv => \A k, n \in 1..Len(history) : JobSafe(Begin(k, n))
  BY DEF IInv, TypeOK, Idle, Begin, EmptyTable, JobSafe, TaskSafe, PlanSafe, ItemSafe,
         Recording
<1>6. QED
  BY <1>2, <1>3, <1>4, <1>5

\* A step that leaves the tables alone and takes one job to a safe record.
LEMMA JobOnlyStep ==
  ASSUME IInv, NEW p \in Proc, NEW j, job' = [job EXCEPT ![p] = j],
         j \in Job, JobSafe(j),
         UNCHANGED <<history, graph>>, crashes' \in Nat, GhostsOK'
  PROVE  IInv'
<1>1. OnlyMoves(p) /\ job'[p] = j
  BY JobFacts
<1>2. TypeOK'
  BY <1>1 DEF IInv, TypeOK, StoreOK, graph, OnlyMoves
<1>3. GraphSafe'
  BY DEF IInv, GraphSafe, CurrentRecorded, NothingDangles, graph
<1>4. Grows
  BY DEF IInv, TypeOK, Grows, graph
<1>5. JobSafe(job[p])'
  BY <1>1, <1>4, SafeKeeps
<1>6. QED
  BY <1>1, <1>2, <1>3, <1>4, <1>5, StepFacts DEF IInv, GraphSafe

\* Starting a run of ingest keeps the invariant.
LEMMA StartStep == ASSUME IInv, NEW p \in Proc, Start(p) PROVE IInv'
<1>1. Len(history) \in 1..Len(history) /\ 1 \in 1..Len(history)
  BY DEF IInv, TypeOK, Start
<1>2. Begin(1, Len(history)) \in Job /\ JobSafe(Begin(1, Len(history)))
  BY <1>1, BeginFacts
<1>3. GhostsOK'
  <2>1. again' \in BOOLEAN /\ shared' \in BOOLEAN
    BY DEF Start
  <2>2. QED
    BY <2>1 DEF Start, IInv, TypeOK, GhostsOK
<1>4. QED
  BY <1>2, <1>3, JobOnlyStep DEF Start, IInv, TypeOK

\* Going on to the next commit keeps the invariant.
LEMMA NextCommitStep == ASSUME IInv, NEW p \in Proc, NextCommit(p) PROVE IInv'
<1>1. job[p].commit + 1 \in 1..Len(history) /\ job[p].upto \in 1..Len(history)
  BY JobFacts DEF IInv, TypeOK, NextCommit, At, JobSafe, TaskSafe
<1>2. Begin(job[p].commit + 1, job[p].upto) \in Job /\
      JobSafe(Begin(job[p].commit + 1, job[p].upto))
  BY <1>1, BeginFacts
<1>3. QED
  BY <1>2, JobOnlyStep DEF NextCommit, IInv, TypeOK, GhostsOK, ghosts

\* The end of a run keeps the invariant.
LEMMA FinishStep == ASSUME IInv, NEW p \in Proc, Finish(p) PROVE IInv'
<1>1. job[p].upto \in Nat
  BY JobFacts DEF Job
<1>2. QED
  BY <1>1, BeginFacts, JobOnlyStep DEF Finish, IInv, TypeOK, GhostsOK

\* A crash keeps the invariant: what was written is safe without its job.
LEMMA CrashStep == ASSUME IInv, NEW p \in Proc, Crash(p) PROVE IInv'
<1>1. crashes' \in Nat /\ GhostsOK'
  BY DEF Crash, IInv, TypeOK, GhostsOK, ghosts
<1>2. QED
  BY <1>1, BeginFacts, JobOnlyStep DEF Crash

\* Going on from the files to the symbols keeps the invariant: with the plan of files
\* written, every file id the symbols need names a node.
LEMMA NextLevelStep == ASSUME IInv, NEW p \in Proc, NextLevel(p) PROVE IInv'
<1> DEFINE j == [job[p] EXCEPT !.stage = "resolve", !.level = "symbol"]
<1>1. job[p] \in Job /\ JobSafe(job[p])
  BY JobFacts
<1>2. /\ job[p].stage = "next" /\ job[p].plan = {} /\ job[p].level = "file"
      /\ job' = [job EXCEPT ![p] = j]
  BY DEF NextLevel, At
<1>3. j \in Job
  BY <1>1 DEF Job, Stage
<1>4. JobSafe(j)
  BY <1>1, <1>2 DEF Job, JobSafe, TaskSafe, PlanSafe, ItemSafe, Recording
<1>5. GhostsOK' /\ crashes' \in Nat
  BY DEF NextLevel, IInv, TypeOK, GhostsOK, ghosts
<1>6. QED
  BY <1>2, <1>3, <1>4, <1>5, JobOnlyStep DEF NextLevel

\* Reading the next artifact's row keeps the invariant.
LEMMA ReadNodeStep == ASSUME IInv, NEW p \in Proc, ReadNode(p) PROVE IInv'
<1>1. job[p] \in Job /\ JobSafe(job[p])
  BY JobFacts
<1>2. PICK r \in Firsts(job[p].plan) :
        job' = [job EXCEPT
          ![p].stage = IF r.kind = "unchanged" THEN "contains" ELSE "version",
          ![p].items = {r},
          ![p].rows = {nodes[id] : id \in {r.id} \cap DOMAIN nodes}]
  BY DEF ReadNode, FirstStage
<1> DEFINE rows == {nodes[id] : id \in {r.id} \cap DOMAIN nodes}
           j == [job[p] EXCEPT
                   !.stage = IF r.kind = "unchanged" THEN "contains" ELSE "version",
                   !.items = {r}, !.rows = rows]
<1>3. job' = [job EXCEPT ![p] = j]
  BY <1>2
<1>4. job[p].stage = "next"
  BY DEF ReadNode, At
<1>5. r \in job[p].plan /\ r \in Record
  BY <1>1 DEF Firsts, Job
<1>6. rows \subseteq NodeRow
  BY DEF IInv, TypeOK, StoreOK, IsTable
<1>7. j \in Job
  BY <1>1, <1>5, <1>6 DEF Job, Stage
<1>8. Item(j) = r
  BY <1>1 DEF Item, Job
<1>9. TaskSafe(j) /\ PlanSafe(j)
  BY <1>1, <1>4 DEF Job, JobSafe, TaskSafe, PlanSafe, Recording
<1>10. \A row \in rows : /\ row.current \in DOMAIN versions /\ row.current.artifact = r.id
                         /\ row.parent \in DOMAIN nodes \cup {Module}
  BY DEF IInv, CurrentRecorded, NothingDangles
<1>11. r.kind \in {"unchanged", "deleted"} => r.id \in DOMAIN nodes
  BY <1>1, <1>5 DEF JobSafe, PlanSafe
<1>12. ItemSafe(j)
  <2>1. /\ j.items = {r} /\ j.rows = rows /\ j.plan = job[p].plan
        /\ j.stage = IF r.kind = "unchanged" THEN "contains" ELSE "version"
    BY <1>1 DEF Job
  <2>2. r.kind = "deleted" => rows # {}
    BY <1>11
  <2> HIDE DEF j, rows
  <2>3. QED
    BY <1>5, <1>8, <1>10, <1>11, <2>1, <2>2 DEF ItemSafe
<1>13. GhostsOK' /\ crashes' \in Nat
  BY DEF ReadNode, IInv, TypeOK, GhostsOK, ghosts
<1>14. QED
  BY <1>3, <1>7, <1>9, <1>12, <1>13, JobOnlyStep DEF ReadNode, JobSafe

\* Resolving a level keeps the invariant: deletions and unchanged artifacts are known
\* nodes, and every present file has an id, on record or in the plan.
LEMMA ResolveStep == ASSUME IInv, NEW p \in Proc, Resolve(p) PROVE IInv'
<1> DEFINE level == job[p].level
           k == job[p].commit
<1>1. job[p] \in Job /\ JobSafe(job[p])
  BY JobFacts
<1>2. PICK plan \in Resolutions(Known(level, k), Observed(level, k)) :
        /\ job' = [job EXCEPT
             ![p].stage = "next",
             ![p].plan = plan,
             ![p].fileIds = IF level = "file" THEN FileIds(plan) ELSE @]
        /\ stolen' = (stolen \/ Steals(plan, level, k))
  BY DEF Resolve
<1> DEFINE ids == IF level = "file" THEN FileIds(plan) ELSE job[p].fileIds
           j == [job[p] EXCEPT !.stage = "next", !.plan = plan, !.fileIds = ids]
<1>3. job' = [job EXCEPT ![p] = j]
  BY <1>2
<1>4. job[p].stage = "resolve" /\ k \in 1..Len(history) /\ level \in {"file", "symbol"}
  BY <1>1 DEF Resolve, At, JobSafe, TaskSafe, Job
<1>5. /\ Known(level, k) \subseteq KnownRecord
      /\ \A r \in Known(level, k) : r.id \in DOMAIN nodes
  BY KnownFacts DEF IInv
<1>6. /\ Observed(level, k) \subseteq SeenRecord
      /\ \A o \in Observed(level, k) : o.path.file \in Present(k)
      /\ level = "file" =>
           \A f \in Present(k) : \E o \in Observed(level, k) : o.path.file = f
  BY <1>4, ObservedFacts DEF IInv
<1>7. /\ plan \subseteq Record
      /\ \A o \in Observed(level, k) : \E r \in plan : r.path = o.path /\ r.kind # "deleted"
      /\ \A r \in plan : r.kind # "deleted" =>
           \E o \in Observed(level, k) : r.path = o.path
      /\ \A r \in plan : r.kind \in {"unchanged", "deleted"} =>
           \E n \in Known(level, k) : r.id = n.id
  BY <1>5, <1>6, ResolutionFacts
<1>8. Present(k) \subseteq File
  BY <1>4 DEF IInv, TypeOK, Present, Changed, Change
<1>9. ASSUME level = "file" PROVE j \in Job /\ JobSafe(j)
  <2>1. \A f \in DOMAIN FileIds(plan) :
          /\ f \in Present(k)
          /\ \E r \in plan : r.id = FileIds(plan)[f] /\ r.kind # "deleted"
    <3>1. SUFFICES ASSUME NEW f \in DOMAIN FileIds(plan)
                   PROVE  /\ f \in Present(k)
                          /\ \E r \in plan : r.id = FileIds(plan)[f] /\ r.kind # "deleted"
      OBVIOUS
    <3> DEFINE present == {r \in plan : r.kind # "deleted"}
               chosen == CHOOSE r \in present : r.path.file = f
    <3>2. \E r \in present : r.path.file = f
      BY DEF FileIds
    <3>3. FileIds(plan)[f] = chosen.id
      BY DEF FileIds
    <3>4. chosen \in present
      <4> HIDE DEF present
      <4>1. QED
        BY <3>2
    <3> HIDE DEF chosen
    <3>5. f \in Present(k)
      BY <1>6, <1>7, <3>2
    <3>6. chosen \in plan /\ chosen.kind # "deleted"
      BY <3>4
    <3>7. QED
      BY <3>3, <3>5, <3>6
  <2>2. Present(k) \subseteq DOMAIN FileIds(plan)
    BY <1>6, <1>7, <1>9 DEF FileIds
  <2>3. FileIds(plan) \in FileIdMap
    <3>1. FileIds(plan) = [f \in DOMAIN FileIds(plan) |-> FileIds(plan)[f]]
      BY DEF FileIds
    <3>2. QED
      BY <2>1, <1>7, <1>8, <3>1 DEF FileIdMap, Record
  <2>4. j \in Job
    BY <1>1, <1>7, <1>9, <2>3 DEF Job, Stage
  <2>5. JobSafe(j)
    BY <1>1, <1>4, <1>5, <1>7, <1>9, <2>1, <2>2
       DEF Job, JobSafe, TaskSafe, PlanSafe, ItemSafe, Recording
  <2>6. QED
    BY <2>4, <2>5
<1>10. ASSUME level = "symbol" PROVE j \in Job /\ JobSafe(j)
  <2>1. j \in Job
    BY <1>1, <1>7, <1>10 DEF Job, Stage
  <2>2. Present(k) \subseteq DOMAIN job[p].fileIds
    BY <1>1, <1>4, <1>10 DEF JobSafe, PlanSafe
  <2>3. \A r \in plan : r.kind # "deleted" => r.path.file \in DOMAIN job[p].fileIds
    BY <1>6, <1>7, <2>2
  <2>4. JobSafe(j)
    BY <1>1, <1>4, <1>5, <1>7, <1>10, <2>2, <2>3
       DEF Job, JobSafe, TaskSafe, PlanSafe, ItemSafe, Recording
  <2>5. QED
    BY <2>1, <2>4
<1>11. GhostsOK' /\ crashes' \in Nat
  BY <1>2 DEF Resolve, IInv, TypeOK, GhostsOK, Steals
<1>12. QED
  BY <1>3, <1>4, <1>9, <1>10, <1>11, JobOnlyStep DEF Resolve

-----------------------------------------------------------------------------
(***************************************************************************)
(* The statements that write.                                              *)
(***************************************************************************)
\* A write by one process keeps the invariant, if the graph stays safe and only grows.
LEMMA WriteStep ==
  ASSUME IInv, NEW p \in Proc, NEW j, job' = [job EXCEPT ![p] = j],
         j \in Job, StoreOK', GraphSafe', Grows, JobSafe(j)',
         UNCHANGED <<history, crashes, ghosts>>
  PROVE  IInv'
<1>1. OnlyMoves(p) /\ job'[p] = j
  BY JobFacts
<1>2. JobSafe(job[p])'
  <2>1. TaskSafe(job[p])'
    BY <1>1 DEF JobSafe, TaskSafe
  <2>2. PlanSafe(job[p])'
    BY <1>1 DEF JobSafe, PlanSafe, Present, Changed
  <2>3. ItemSafe(job[p])'
    BY <1>1 DEF JobSafe, ItemSafe, Item, ItemVersion, VersionId
  <2>4. QED
    BY <2>1, <2>2, <2>3 DEF JobSafe
<1>3. TypeOK'
  BY <1>1 DEF IInv, TypeOK, OnlyMoves, GhostsOK, ghosts
<1>4. QED
  BY <1>1, <1>2, <1>3, StepFacts DEF IInv, GraphSafe

\* What is known of a job that is writing an artifact.
LEMMA WritingFacts ==
  ASSUME IInv, NEW p \in Proc, job[p].stage \in Recording
  PROVE  /\ job[p] \in Job /\ JobSafe(job[p])
         /\ Item(job[p]) \in Record /\ Item(job[p]) \in job[p].plan
         /\ job[p].items = {Item(job[p])}
         /\ job[p].commit \in Nat /\ job[p].commit \in tasks \cap taskRows
         /\ ItemVersion(job[p]) \in Version
         /\ ItemVersion(job[p]).artifact = Item(job[p]).id
         /\ ItemVersion(job[p]).task = job[p].commit
         /\ Item(job[p]).kind # "deleted" =>
              /\ ParentOf(job[p]) \in ArtifactId
              /\ ParentOf(job[p]) \in DOMAIN nodes \cup {Module}
<1> DEFINE j == job[p]
           r == Item(j)
<1>1. j \in Job /\ JobSafe(j)
  BY JobFacts
<1>2. r \in Record /\ r \in j.plan /\ j.items = {r}
  BY <1>1 DEF JobSafe, ItemSafe, Job
<1>3. j.commit \in Nat /\ j.commit \in tasks \cap taskRows
  BY <1>1 DEF JobSafe, TaskSafe, Job, Recording
<1>4. /\ ItemVersion(j) \in Version /\ ItemVersion(j).artifact = r.id
      /\ ItemVersion(j).task = j.commit
  BY <1>2, <1>3 DEF ItemVersion, VersionId, Version, Record
<1>5. Module \in ArtifactId
  BY DEF Module, Derive, FilePath, ArtifactId, Path, AnyPrint
<1>6. ASSUME r.kind # "deleted"
      PROVE  /\ ParentOf(j) \in ArtifactId
             /\ ParentOf(j) \in DOMAIN nodes \cup {Module}
  <2>1. CASE j.level = "file"
    BY <1>5, <2>1 DEF ParentOf
  <2>2. CASE j.level = "symbol"
    <3>1. r.path.file \in DOMAIN j.fileIds /\ j.fileIds[r.path.file] \in DOMAIN nodes
      BY <1>1, <1>2, <1>6, <2>2 DEF JobSafe, PlanSafe
    <3>2. j.fileIds[r.path.file] \in ArtifactId
      BY <1>1, <3>1 DEF Job, FileIdMap
    <3>3. QED
      BY <2>2, <3>1, <3>2 DEF ParentOf
  <2>3. QED
    BY <1>1, <2>1, <2>2 DEF Job
<1>7. QED
  BY <1>1, <1>2, <1>3, <1>4, <1>6

\* A job that goes on to another stage of the same artifact stays safe if the
\* tables hold what that stage relies on.
LEMMA Advance ==
  ASSUME NEW b \in Job, JobSafe(b), b.stage \in Recording, NEW s \in Recording,
         Grows, UNCHANGED history,
         Item(b).kind = "unchanged" => s = "contains",
         Item(b).kind = "deleted" => s \notin {"print", "contains"},
         s # "version" /\ Item(b).kind # "unchanged"
           => ItemVersion(b) \in DOMAIN versions',
         s \notin {"version", "node"} => Item(b).id \in DOMAIN nodes'
  PROVE  /\ [b EXCEPT !.stage = s] \in Job
         /\ JobSafe([b EXCEPT !.stage = s])'
<1> DEFINE j == [b EXCEPT !.stage = s]
<1>1. /\ j.stage = s /\ j.items = b.items /\ j.plan = b.plan /\ j.rows = b.rows
      /\ j.level = b.level /\ j.commit = b.commit /\ j.fileIds = b.fileIds
      /\ j.upto = b.upto /\ j \in Job
  BY DEF Job, Recording, Stage
<1>2. Item(j) = Item(b) /\ ItemVersion(j) = ItemVersion(b)
  BY <1>1 DEF Item, ItemVersion, VersionId
<1> HIDE DEF j
<1>3. TaskSafe(j)'
  BY <1>1 DEF JobSafe, TaskSafe, Grows, Recording
<1>4. PlanSafe(j)'
  BY <1>1 DEF JobSafe, PlanSafe, Grows, Recording, Present, Changed
<1>5. ItemSafe(j)'
  BY <1>1, <1>2 DEF JobSafe, ItemSafe, Grows, Item, ItemVersion, VersionId
<1>6. QED
  BY <1>1, <1>3, <1>4, <1>5 DEF JobSafe, j

\* Recording the commit's task node keeps the invariant.
LEMMA PutTaskStep == ASSUME IInv, NEW p \in Proc, PutTask(p) PROVE IInv'
<1>0. PICK b : b = job[p]
  OBVIOUS
<1> DEFINE j == [b EXCEPT !.stage = "taskRow"]
<1>1. b \in Job /\ JobSafe(b) /\ b.stage = "task"
  BY <1>0, JobFacts DEF PutTask, At
<1>2. job' = [job EXCEPT ![p] = j]
  BY <1>0 DEF PutTask, GoTo
<1>3. j \in Job
  BY <1>1 DEF Job, Stage
<1>4. StoreOK'
  BY <1>0, <1>1 DEF PutTask, IInv, TypeOK, StoreOK, Job
<1>5. GraphSafe'
  BY DEF PutTask, IInv, GraphSafe, CurrentRecorded, NothingDangles
<1>6. Grows
  BY DEF PutTask, IInv, TypeOK, Grows
<1>7. JobSafe(j)'
  <2>1. TaskSafe(j)'
    BY <1>0, <1>1 DEF Job, JobSafe, TaskSafe, PutTask
  <2>2. PlanSafe(j)' /\ ItemSafe(j)'
    BY <1>1 DEF Job, JobSafe, TaskSafe, PlanSafe, ItemSafe, Recording, PutTask
  <2>3. QED
    BY <2>1, <2>2 DEF JobSafe
<1>8. QED
  BY <1>2, <1>3, <1>4, <1>5, <1>6, <1>7, WriteStep DEF PutTask

\* Recording the commit's task version keeps the invariant.
LEMMA AppendTaskStep == ASSUME IInv, NEW p \in Proc, AppendTask(p) PROVE IInv'
<1>0. PICK b : b = job[p]
  OBVIOUS
<1> DEFINE j == [b EXCEPT !.stage = "resolve"]
<1>1. b \in Job /\ JobSafe(b) /\ b.stage = "taskRow"
  BY <1>0, JobFacts DEF AppendTask, At
<1>2. job' = [job EXCEPT ![p] = j]
  BY <1>0 DEF AppendTask, GoTo
<1>3. j \in Job
  BY <1>1 DEF Job, Stage
<1>4. StoreOK'
  BY <1>0, <1>1 DEF AppendTask, IInv, TypeOK, StoreOK, Job
<1>5. GraphSafe'
  BY DEF AppendTask, IInv, GraphSafe, CurrentRecorded, NothingDangles
<1>6. Grows
  BY DEF AppendTask, IInv, TypeOK, Grows
<1>7. JobSafe(j)'
  <2>1. TaskSafe(j)'
    BY <1>0, <1>1 DEF Job, JobSafe, TaskSafe, AppendTask
  <2>2. PlanSafe(j)' /\ ItemSafe(j)'
    BY <1>1 DEF Job, JobSafe, TaskSafe, PlanSafe, ItemSafe, Recording, AppendTask
  <2>3. QED
    BY <2>1, <2>2 DEF JobSafe
<1>8. QED
  BY <1>2, <1>3, <1>4, <1>5, <1>6, <1>7, WriteStep DEF AppendTask

\* Appending an artifact version keeps the invariant: its task is on record.
LEMMA AppendVersionStep == ASSUME IInv, NEW p \in Proc, AppendVersion(p) PROVE IInv'
<1>0. PICK b : b = job[p]
  OBVIOUS
<1> DEFINE r == Item(b)
           j == [b EXCEPT !.stage = "node"]
           row == IF r.kind = "deleted"
                  THEN [path |-> Row(b).path, fp |-> PrintOf(r.id), kind |-> r.kind]
                  ELSE [path |-> r.path, fp |-> r.fp, kind |-> r.kind]
<1>1. b.stage = "version" /\ b.stage \in Recording
  BY <1>0 DEF AppendVersion, At, Recording
<1>2. /\ b \in Job /\ JobSafe(b) /\ r \in Record
      /\ b.items = {r} /\ b.commit \in tasks \cap taskRows
      /\ ItemVersion(b) \in Version /\ ItemVersion(b).task = b.commit
  BY <1>0, <1>1, WritingFacts
<1>3. job' = [job EXCEPT ![p] = j]
  BY <1>0 DEF AppendVersion, GoTo
<1>5. r.kind # "unchanged"
  BY <1>1, <1>2 DEF JobSafe, ItemSafe
<1>6. row \in VersionRow
  <2>1. CASE r.kind = "deleted"
    <3>1. b.rows # {} /\ b.rows \subseteq NodeRow
      BY <1>1, <1>2, <2>1 DEF JobSafe, ItemSafe, Job
    <3>2. Row(b) \in NodeRow
      BY <3>1 DEF Row
    <3>3. PrintOf(r.id) \in AnyPrint
      BY DEF IInv, TypeOK, StoreOK, IsTable, PrintOf, AnyPrint
    <3>4. QED
      BY <2>1, <3>2, <3>3 DEF NodeRow, VersionRow, Kind
  <2>2. CASE r.kind # "deleted"
    BY <1>2, <1>5, <2>2 DEF Record, VersionRow
  <2>3. QED
    BY <2>1, <2>2
<1>7. versions' = InsertOrIgnore(versions, ItemVersion(b), row)
  BY <1>0 DEF AppendVersion
<1> HIDE DEF row
<1>8. /\ IsTable(versions', Version, VersionRow)
      /\ DOMAIN versions' = DOMAIN versions \cup {ItemVersion(b)}
  <2>1. IsTable(versions, Version, VersionRow)
    BY DEF IInv, TypeOK, StoreOK
  <2>2. QED
    BY <1>2, <1>6, <1>7, <2>1, TableFacts
<1>9. StoreOK'
  BY <1>8 DEF AppendVersion, IInv, TypeOK, StoreOK
<1>10. GraphSafe'
  BY <1>2, <1>8 DEF AppendVersion, IInv, GraphSafe, CurrentRecorded, NothingDangles
<1>11. Grows
  BY <1>8 DEF AppendVersion, IInv, TypeOK, Grows
<1>12. j \in Job /\ JobSafe(j)'
  BY <1>1, <1>2, <1>5, <1>8, <1>11, Advance DEF AppendVersion, Recording
<1>13. QED
  BY <1>3, <1>9, <1>10, <1>11, <1>12, WriteStep DEF AppendVersion

\* Replacing a node row keeps the invariant: its version and its parent are on record.
LEMMA PutNodeStep == ASSUME IInv, NEW p \in Proc, PutNode(p) PROVE IInv'
<1>0. PICK b : b = job[p]
  OBVIOUS
<1> DEFINE r == Item(b)
           s == IF r.kind = "deleted" THEN "succeeds" ELSE "print"
           j == [b EXCEPT !.stage = s]
           row == IF r.kind = "deleted" THEN [Row(b) EXCEPT !.current = ItemVersion(b)]
                  ELSE [path |-> r.path, parent |-> ParentOf(b), current |-> ItemVersion(b)]
<1>1. b.stage = "node" /\ b.stage \in Recording
  BY <1>0 DEF PutNode, At, Recording
<1>2. /\ b \in Job /\ JobSafe(b) /\ r \in Record /\ r.id \in ArtifactId
      /\ ItemVersion(b) \in Version /\ ItemVersion(b).artifact = r.id
      /\ r.kind # "deleted" => /\ ParentOf(b) \in ArtifactId
                               /\ ParentOf(b) \in DOMAIN nodes \cup {Module}
  BY <1>0, <1>1, WritingFacts DEF Record
<1>3. r.kind # "unchanged" /\ ItemVersion(b) \in DOMAIN versions
  BY <1>1, <1>2 DEF JobSafe, ItemSafe
<1>4. /\ row \in NodeRow /\ row.current = ItemVersion(b)
      /\ row.parent \in DOMAIN nodes \cup {Module}
  <2>1. CASE r.kind = "deleted"
    <3>1. b.rows # {} /\ b.rows \subseteq NodeRow
      BY <1>1, <1>2, <2>1 DEF JobSafe, ItemSafe, Job
    <3>2. Row(b) \in b.rows
      BY <3>1 DEF Row
    <3>3. Row(b) \in NodeRow /\ Row(b).parent \in DOMAIN nodes \cup {Module}
      BY <1>1, <1>2, <3>1, <3>2 DEF JobSafe, ItemSafe
    <3>4. QED
      BY <1>2, <2>1, <3>3 DEF NodeRow
  <2>2. CASE r.kind # "deleted"
    BY <1>2, <2>2 DEF Record, NodeRow
  <2>3. QED
    BY <2>1, <2>2
<1>5. nodes' = InsertOrReplace(nodes, r.id, row) /\ job' = [job EXCEPT ![p] = j]
  BY <1>0 DEF PutNode, Tombstone, GoTo
<1> HIDE DEF row
<1>6. /\ IsTable(nodes', ArtifactId, NodeRow)
      /\ DOMAIN nodes' = DOMAIN nodes \cup {r.id}
  <2>1. IsTable(nodes, ArtifactId, NodeRow)
    BY DEF IInv, TypeOK, StoreOK
  <2>2. QED
    BY <1>2, <1>4, <1>5, <2>1 DEF IsTable, InsertOrReplace
<1>7. \A id \in DOMAIN nodes' : nodes'[id] = IF id = r.id THEN row ELSE nodes[id]
  BY <1>5 DEF InsertOrReplace
<1>8. StoreOK'
  BY <1>6 DEF PutNode, IInv, TypeOK, StoreOK
<1>9. CurrentRecorded'
  BY <1>2, <1>3, <1>4, <1>6, <1>7 DEF PutNode, IInv, CurrentRecorded
<1>10. NothingDangles'
  BY <1>4, <1>6, <1>7 DEF PutNode, IInv, NothingDangles
<1>11. Grows
  BY <1>6 DEF PutNode, IInv, TypeOK, Grows
<1>12. s \in Recording /\ s # "contains" /\ (r.kind = "deleted" => s # "print")
  BY DEF Recording
<1>13. j \in Job /\ JobSafe(j)'
  <2>1. UNCHANGED <<history, versions>> /\ r.id \in DOMAIN nodes'
    BY <1>6 DEF PutNode
  <2> HIDE DEF s
  <2>2. QED
    BY <1>1, <1>2, <1>3, <1>11, <1>12, <2>1, Advance
<1>14. QED
  BY <1>5, <1>8, <1>9, <1>10, <1>11, <1>13, WriteStep DEF PutNode, GraphSafe

\* Replacing a fingerprint keeps the invariant.
LEMMA PutPrintStep == ASSUME IInv, NEW p \in Proc, PutPrint(p) PROVE IInv'
<1>0. PICK b : b = job[p]
  OBVIOUS
<1> DEFINE r == Item(b)
           j == [b EXCEPT !.stage = "succeeds"]
<1>1. b.stage = "print" /\ b.stage \in Recording
  BY <1>0 DEF PutPrint, At, Recording
<1>2. /\ b \in Job /\ JobSafe(b) /\ r.id \in ArtifactId /\ r.fp \in AnyPrint
  BY <1>0, <1>1, WritingFacts DEF Record
<1>3. /\ r.kind \notin {"unchanged", "deleted"}
      /\ ItemVersion(b) \in DOMAIN versions /\ r.id \in DOMAIN nodes
  BY <1>1, <1>2 DEF JobSafe, ItemSafe
<1>4. prints' = InsertOrReplace(prints, r.id, r.fp) /\ job' = [job EXCEPT ![p] = j]
  BY <1>0 DEF PutPrint, GoTo
<1>5. IsTable(prints', ArtifactId, AnyPrint)
  <2>1. IsTable(prints, ArtifactId, AnyPrint)
    BY DEF IInv, TypeOK, StoreOK
  <2>2. QED
    BY <1>2, <1>4, <2>1, TableFacts
<1>6. StoreOK'
  BY <1>5 DEF PutPrint, IInv, TypeOK, StoreOK
<1>7. GraphSafe'
  BY DEF PutPrint, IInv, GraphSafe, CurrentRecorded, NothingDangles
<1>8. Grows
  BY DEF PutPrint, IInv, TypeOK, Grows
<1>9. j \in Job /\ JobSafe(j)'
  BY <1>1, <1>2, <1>3, <1>8, Advance DEF PutPrint, Recording
<1>10. QED
  BY <1>4, <1>6, <1>7, <1>8, <1>9, WriteStep DEF PutPrint

\* Adding a succession edge keeps the invariant: the version read was recorded then
\* and still is, versions never going away.
LEMMA PutSucceedsStep == ASSUME IInv, NEW p \in Proc, PutSucceeds(p) PROVE IInv'
<1>0. PICK b : b = job[p]
  OBVIOUS
<1> DEFINE r == Item(b)
           s == IF r.kind = "deleted" THEN "modifies" ELSE "contains"
           j == [b EXCEPT !.stage = s]
           new == {[from |-> v, to |-> ItemVersion(b)] :
                     v \in {row.current : row \in b.rows} \ {ItemVersion(b)}}
<1>1. b.stage = "succeeds" /\ b.stage \in Recording
  BY <1>0 DEF PutSucceeds, At, Recording
<1>2. /\ b \in Job /\ JobSafe(b) /\ ItemVersion(b) \in Version
      /\ ItemVersion(b).artifact = r.id
  BY <1>0, <1>1, WritingFacts
<1>3. /\ r.kind # "unchanged"
      /\ ItemVersion(b) \in DOMAIN versions /\ r.id \in DOMAIN nodes
      /\ \A row \in b.rows : row.current \in DOMAIN versions /\ row.current.artifact = r.id
  BY <1>1, <1>2 DEF JobSafe, ItemSafe
<1>4. succeeds' = succeeds \cup new /\ job' = [job EXCEPT ![p] = j]
  BY <1>0 DEF PutSucceeds, GoTo
<1>5. \A e \in new : /\ e \in [from : Version, to : Version]
                     /\ {e.from, e.to} \subseteq DOMAIN versions
                     /\ e.from # e.to /\ e.from.artifact = e.to.artifact
  <2>1. DOMAIN versions \subseteq Version
    BY DEF IInv, TypeOK, StoreOK, IsTable
  <2>2. QED
    BY <1>2, <1>3, <2>1
<1> HIDE DEF new
<1>6. StoreOK'
  BY <1>4, <1>5 DEF PutSucceeds, IInv, TypeOK, StoreOK
<1>7. GraphSafe'
  BY <1>4, <1>5 DEF PutSucceeds, IInv, GraphSafe, CurrentRecorded, NothingDangles
<1>8. Grows
  BY DEF PutSucceeds, IInv, TypeOK, Grows
<1>9. s \in Recording /\ s # "print" /\ (r.kind = "deleted" => s # "contains")
  BY DEF Recording
<1>10. j \in Job /\ JobSafe(j)'
  <2> HIDE DEF s
  <2>1. QED
    BY <1>1, <1>2, <1>3, <1>8, <1>9, Advance DEF PutSucceeds
<1>11. QED
  BY <1>4, <1>6, <1>7, <1>8, <1>10, WriteStep DEF PutSucceeds

\* A job that has done with an artifact goes back to its plan without it.
LEMMA DoneFacts ==
  ASSUME IInv, NEW p \in Proc, job[p].stage \in {"contains", "modifies"}, Done(p),
         Grows, UNCHANGED history, NEW b, b = job[p]
  PROVE  LET j == [b EXCEPT !.stage = "next", !.plan = @ \ b.items,
                            !.items = {}, !.rows = {}]
         IN  job' = [job EXCEPT ![p] = j] /\ j \in Job /\ JobSafe(j)'
<1> DEFINE r == Item(b)
           j == [b EXCEPT !.stage = "next", !.plan = @ \ b.items,
                          !.items = {}, !.rows = {}]
<1>1. job' = [job EXCEPT ![p] = j]
  BY DEF Done
<1>2. b \in Job /\ JobSafe(b) /\ b.items = {r} /\ b.stage \in {"contains", "modifies"}
  BY WritingFacts DEF Recording
<1>3. r.id \in DOMAIN nodes
  BY <1>2 DEF JobSafe, ItemSafe, Recording
<1>4. /\ j \in Job /\ j.stage = "next" /\ j.plan = b.plan \ {r} /\ j.level = b.level
      /\ j.commit = b.commit /\ j.upto = b.upto /\ j.fileIds = b.fileIds
  BY <1>2 DEF Job, Stage
<1> HIDE DEF j
<1>5. TaskSafe(j)'
  BY <1>2, <1>4 DEF JobSafe, TaskSafe, Grows
<1>6. PlanSafe(j)'
  <2>1. Present(b.commit)' = Present(b.commit)
    BY DEF Present, Changed
  <2>2. QED
    BY <1>2, <1>3, <1>4, <2>1 DEF JobSafe, PlanSafe, Grows, Recording
<1>7. ItemSafe(j)'
  BY <1>4 DEF ItemSafe, Recording
<1>8. QED
  BY <1>1, <1>4, <1>5, <1>6, <1>7 DEF JobSafe, j

\* Adding a containment edge keeps the invariant: parent and child are nodes.
LEMMA PutContainsStep == ASSUME IInv, NEW p \in Proc, PutContains(p) PROVE IInv'
<1>0. PICK b : b = job[p]
  OBVIOUS
<1> DEFINE r == Item(b)
           e == [parent |-> ParentOf(b), child |-> r.id]
<1>1. b.stage = "contains" /\ b.stage \in Recording
  BY <1>0 DEF PutContains, At, Recording
<1>2. b \in Job /\ JobSafe(b) /\ r \in Record /\ r.id \in ArtifactId
  BY <1>0, <1>1, WritingFacts DEF Record
<1>3. /\ r.kind # "deleted" /\ r.id \in DOMAIN nodes
      /\ r.kind # "unchanged" => ItemVersion(b) \in DOMAIN versions
  BY <1>1, <1>2 DEF JobSafe, ItemSafe
<1>4. ParentOf(b) \in ArtifactId /\ ParentOf(b) \in DOMAIN nodes \cup {Module}
  BY <1>0, <1>1, <1>3, WritingFacts
<1>5. contains' = contains \cup {e}
  BY <1>0 DEF PutContains
<1>6. StoreOK'
  BY <1>2, <1>4, <1>5 DEF PutContains, IInv, TypeOK, StoreOK
<1>7. GraphSafe'
  BY <1>3, <1>4, <1>5 DEF PutContains, IInv, GraphSafe, CurrentRecorded, NothingDangles
<1>8. Grows
  BY DEF PutContains, IInv, TypeOK, Grows
<1>9. UNCHANGED <<history, nodes, versions, crashes, ghosts>>
  BY DEF PutContains
<1>10. CASE r.kind = "unchanged"
  <2>1. Done(p)
    BY <1>0, <1>10 DEF PutContains
  <2>2. QED
    BY <1>0, <1>1, <1>6, <1>7, <1>8, <1>9, <2>1, DoneFacts, WriteStep
<1>11. CASE r.kind # "unchanged"
  <2> DEFINE j == [b EXCEPT !.stage = "modifies"]
  <2>1. job' = [job EXCEPT ![p] = j]
    BY <1>0, <1>11 DEF PutContains, GoTo
  <2>2. j \in Job /\ JobSafe(j)'
    BY <1>1, <1>2, <1>3, <1>8, <1>9, <1>11, Advance DEF Recording
  <2>3. QED
    BY <1>6, <1>7, <1>8, <1>9, <2>1, <2>2, WriteStep
<1>12. QED
  BY <1>10, <1>11

\* Attributing a change keeps the invariant: the version it names is on record.
LEMMA PutModifiesStep == ASSUME IInv, NEW p \in Proc, PutModifies(p) PROVE IInv'
<1>0. PICK b : b = job[p]
  OBVIOUS
<1> DEFINE r == Item(b)
           key == [task |-> b.commit, artifact |-> r.id]
           Keys == [task : Nat, artifact : ArtifactId]
<1>1. b.stage = "modifies" /\ b.stage \in Recording
  BY <1>0 DEF PutModifies, At, Recording
<1>2. /\ b \in Job /\ JobSafe(b) /\ r.id \in ArtifactId /\ b.commit \in Nat
      /\ ItemVersion(b) \in Version
  BY <1>0, <1>1, WritingFacts DEF Record
<1>3. ItemVersion(b) \in DOMAIN versions
  BY <1>1, <1>2 DEF JobSafe, ItemSafe
<1>4. modifies' = InsertOrIgnore(modifies, key, ItemVersion(b)) /\ Done(p)
  BY <1>0 DEF PutModifies, Attribution
<1>5. key \in Keys
  BY <1>2
<1>6. ItemVersion(b) = VersionId(key.artifact, key.task)
  BY DEF ItemVersion, VersionId
<1> HIDE DEF key
<1>7. IsTable(modifies', Keys, Version) /\ DOMAIN modifies' = DOMAIN modifies \cup {key}
  <2>1. IsTable(modifies, Keys, Version)
    BY DEF IInv, TypeOK, StoreOK
  <2>2. QED
    BY <1>2, <1>4, <1>5, <2>1 DEF IsTable, InsertOrIgnore
<1>8. \A e \in DOMAIN modifies' :
        modifies'[e] = IF e \in DOMAIN modifies THEN modifies[e] ELSE ItemVersion(b)
  BY <1>4 DEF InsertOrIgnore
<1>9. UNCHANGED <<history, nodes, prints, versions, succeeds, contains, tasks, taskRows,
                  crashes, ghosts>>
  BY DEF PutModifies
<1>10. StoreOK'
  BY <1>7, <1>9 DEF IInv, TypeOK, StoreOK
<1>11. GraphSafe'
  <2>1. CurrentRecorded'
    BY <1>9 DEF IInv, CurrentRecorded
  <2>2. \A e \in DOMAIN modifies' : /\ modifies'[e] = VersionId(e.artifact, e.task)
                                  /\ modifies'[e] \in DOMAIN versions
    BY <1>3, <1>6, <1>7, <1>8 DEF IInv, NothingDangles
  <2>3. NothingDangles'
    BY <1>9, <2>2 DEF IInv, NothingDangles, VersionId
  <2>4. QED
    BY <2>1, <2>3 DEF GraphSafe
<1>12. Grows
  BY <1>9 DEF IInv, TypeOK, Grows
<1>13. QED
  BY <1>0, <1>1, <1>4, <1>9, <1>10, <1>11, <1>12, DoneFacts, WriteStep

-----------------------------------------------------------------------------
\* A new commit keeps the invariant: it alters nothing an ingest has read.
LEMMA CommitStep == ASSUME IInv, Commit PROVE IInv'
<1>1. PICK change \in Change : history' = Append(history, change)
  <2>1. PICK files \in (SUBSET File) \ {{}} :
          \E change \in [files -> Content \cup {Absent}] :
            history' = Append(history, change)
    BY DEF Commit
  <2>2. QED
    BY <2>1 DEF Change
<1>2. /\ history \in Seq(Change) /\ history' \in Seq(Change)
      /\ Len(history') = Len(history) + 1 /\ Len(history) \in Nat
      /\ \A k \in 1..Len(history) : history'[k] = history[k]
  BY <1>1 DEF IInv, TypeOK
<1>3. UNCHANGED <<graph, job, crashes, ghosts>>
  BY DEF Commit
<1>4. TypeOK'
  BY <1>2, <1>3 DEF IInv, TypeOK, StoreOK, GhostsOK, graph, ghosts
<1>5. GraphSafe'
  BY <1>3 DEF IInv, GraphSafe, CurrentRecorded, NothingDangles, graph
<1>6. Grows
  BY <1>2, <1>3 DEF Grows, graph
<1>7. ASSUME NEW q \in Proc PROVE JobSafe(job[q])'
  BY <1>3, <1>6, SafeKeeps, JobFacts
<1>8. QED
  BY <1>4, <1>5, <1>7 DEF IInv, GraphSafe, JobsSafe, JobSafe

\* The empty graph satisfies the invariant.
LEMMA Initially == Init => IInv
<1> SUFFICES ASSUME Init PROVE IInv
  OBVIOUS
<1>1. /\ IsTable(EmptyTable, ArtifactId, NodeRow)
      /\ IsTable(EmptyTable, ArtifactId, AnyPrint)
      /\ IsTable(EmptyTable, Version, VersionRow)
      /\ IsTable(EmptyTable, [task : Nat, artifact : ArtifactId], Version)
      /\ DOMAIN EmptyTable = {}
  BY DEF IsTable, EmptyTable
<1>2. TypeOK
  <2>1. StoreOK
    BY <1>1 DEF Init, StoreOK
  <2>2. job \in [Proc -> Job]
    BY BeginFacts DEF Init
  <2>3. history \in Seq(Change) /\ crashes \in Nat
    BY DEF Init
  <2>4. {shared, stolen, again} \subseteq BOOLEAN
    BY Zenon DEF Init
  <2>5. {synced, finished} \subseteq Nat
    BY DEF Init
  <2>6. QED
    BY <2>1, <2>2, <2>3, <2>4, <2>5 DEF TypeOK, GhostsOK
<1>3. CurrentRecorded /\ NothingDangles
  BY <1>1 DEF Init, CurrentRecorded, NothingDangles
<1>4. JobsSafe
  BY BeginFacts DEF Init, JobsSafe, JobSafe
<1>5. QED
  BY <1>2, <1>3, <1>4 DEF IInv

\* The invariant is inductive.
LEMMA Inductive == IInv /\ [Next]_vars => IInv'
<1> SUFFICES ASSUME IInv, [Next]_vars PROVE IInv'
  OBVIOUS
<1>1. CASE Commit
  BY <1>1, CommitStep
<1>2. ASSUME NEW p \in Proc, Ingest(p) PROVE IInv'
  BY <1>2, StartStep, PutTaskStep, AppendTaskStep, ResolveStep, ReadNodeStep,
     AppendVersionStep, PutNodeStep, PutPrintStep, PutSucceedsStep, PutContainsStep,
     PutModifiesStep, NextLevelStep, NextCommitStep, FinishStep DEF Ingest
<1>3. ASSUME NEW p \in Proc, Crash(p) PROVE IInv'
  BY <1>3, CrashStep
<1>4. CASE UNCHANGED vars
  <2>1. TypeOK'
    BY <1>4 DEF vars, graph, ghosts, IInv, TypeOK, StoreOK, GhostsOK
  <2>2. GraphSafe'
    BY <1>4 DEF vars, graph, IInv, GraphSafe, CurrentRecorded, NothingDangles
  <2>3. Grows /\ job' = job
    BY <1>4 DEF vars, graph, IInv, TypeOK, Grows
  <2>4. ASSUME NEW q \in Proc PROVE JobSafe(job[q])'
    BY <2>3, SafeKeeps, JobFacts
  <2>5. QED
    BY <2>1, <2>2, <2>4 DEF IInv, GraphSafe, JobsSafe, JobSafe
<1>5. QED
  BY <1>1, <1>2, <1>3, <1>4 DEF Next

\* The inductive invariant holds of every behaviour of any number of ingests.
THEOREM Invariance == Spec => []IInv
BY Initially, Inductive, PTL DEF Spec

\* Every table keeps its schema and every job its shape.
THEOREM TypeCorrect == Spec => []TypeOK
<1>1. IInv => TypeOK
  BY DEF IInv
<1>2. QED
  BY <1>1, Invariance, PTL

\* Whatever crashes and overlaps, the current version of a node is one of its own
\* that is on record.
THEOREM CurrentIsRecorded == Spec => []CurrentRecorded
<1>1. IInv => CurrentRecorded
  BY DEF IInv
<1>2. QED
  BY <1>1, Invariance, PTL

\* At each of its statements an ingest has on record all that its next ones refer to,
\* whatever other ingests have written since it was resolved.
THEOREM JobsAreSafe == Spec => []JobsSafe
<1>1. IInv => JobsSafe
  BY DEF IInv
<1>2. QED
  BY <1>1, Invariance, PTL

\* No statement boundary of any ingest shows a dangling reference.
THEOREM GraphHasNoDanglingReference == Spec => []NothingDangles
<1>1. IInv => NothingDangles
  BY DEF IInv
<1>2. QED
  BY <1>1, Invariance, PTL

\* The version log is append-only: no step of any ingest alters or removes a row.
THEOREM VersionsAreAppendOnly == Spec => AppendOnlyVersions
<1>1. ASSUME IInv, [Next]_vars PROVE [Extends(versions', versions)]_vars
  <2>1. ASSUME NEW p \in Proc, AppendVersion(p) PROVE Extends(versions', versions)
    BY <2>1 DEF AppendVersion, Extends, InsertOrIgnore
  <2>2. ASSUME versions' = versions PROVE Extends(versions', versions)
    BY <2>2 DEF Extends
  <2>3. CASE Commit
    BY <2>2, <2>3 DEF Commit, graph
  <2>4. ASSUME NEW p \in Proc, Ingest(p) \/ Crash(p), ~AppendVersion(p)
        PROVE  versions' = versions
    BY <2>4 DEF Ingest, Start, PutTask, AppendTask, Resolve, ReadNode, PutNode, PutPrint,
       PutSucceeds, PutContains, PutModifies, NextLevel, NextCommit, Finish, Crash, graph
  <2>5. QED
    BY <1>1, <2>1, <2>2, <2>3, <2>4 DEF Next
<1>2. QED
  BY <1>1, Invariance, PTL DEF Spec, AppendOnlyVersions

-----------------------------------------------------------------------------
(***************************************************************************)
(* What a crash tears: the version of the one artifact the process was at  *)
(* may stay without the edge that attributes it.  Versions in the hands of *)
(* running processes aside, there is one without for each crash at most.   *)
(***************************************************************************)
Writing ==
  {p \in Proc : /\ job[p].stage \in Recording \ {"version"}
                /\ Item(job[p]).kind # "unchanged"}

InHand == {ItemVersion(job[p]) : p \in Writing}

Torn == Unattributed \ InHand

TornInv ==
  /\ IsFiniteSet(DOMAIN versions) /\ IsFiniteSet(Active)
  /\ Cardinality(Torn) <= crashes

\* A step of p by which no version is torn.
LEMMA NothingTorn ==
  ASSUME IInv, TornInv, NEW p \in Proc, OnlyMoves(p), UNCHANGED <<versions, modifies, crashes>>,
         p \in Writing => p \in Writing' /\ ItemVersion(job[p])' = ItemVersion(job[p])
  PROVE  TornInv'
<1>1. IsFiniteSet(Active \cup {p})
  BY FS_AddElement DEF TornInv
<1>2. Active' \subseteq Active \cup {p}
  BY DEF Active, At, OnlyMoves
<1>3. IsFiniteSet(Active')
  BY <1>1, <1>2, FS_Subset
<1>4. InHand \subseteq InHand'
  <2>1. SUFFICES ASSUME NEW q \in Writing
                 PROVE  q \in Writing' /\ ItemVersion(job[q])' = ItemVersion(job[q])
    BY DEF InHand
  <2>2. CASE q = p
    BY <2>2
  <2>3. CASE q # p
    <3>1. job'[q] = job[q]
      BY <2>3 DEF OnlyMoves, Writing
    <3>2. QED
      BY <3>1 DEF Writing, Item, ItemVersion, VersionId
  <2>4. QED
    BY <2>2, <2>3
<1>5. Unattributed' = Unattributed
  BY DEF Unattributed
<1>6. Torn' \subseteq Torn
  BY <1>4, <1>5 DEF Torn
<1>7. IsFiniteSet(Torn)
  BY FS_Subset DEF Torn, Unattributed, TornInv
<1>8. Cardinality(Torn') <= Cardinality(Torn) /\ Cardinality(Torn) \in Nat
      /\ Cardinality(Torn') \in Nat
  BY <1>6, <1>7, FS_Subset, FS_CardinalityType
<1>9. Cardinality(Torn') <= crashes
  BY <1>8 DEF TornInv, IInv, TypeOK
<1>10. QED
  BY <1>3, <1>9 DEF TornInv

\* Where a step leaves a job that it does not take to another artifact.
LEMMA SameArtifact ==
  ASSUME IInv, NEW p \in Proc, NEW s, GoTo(p, s)
  PROVE  /\ OnlyMoves(p) /\ job'[p].stage = s
         /\ Item(job[p])' = Item(job[p]) /\ ItemVersion(job[p])' = ItemVersion(job[p])
<1>1. job[p] \in Job /\ job' = [job EXCEPT ![p] = [job[p] EXCEPT !.stage = s]]
  BY JobFacts DEF GoTo, IInv, TypeOK
<1>2. OnlyMoves(p) /\ job'[p] = [job[p] EXCEPT !.stage = s]
  BY <1>1, JobFacts
<1>3. /\ job'[p].stage = s /\ job'[p].items = job[p].items /\ job'[p].commit = job[p].commit
  BY <1>1, <1>2 DEF Job
<1>4. QED
  BY <1>2, <1>3 DEF Item, ItemVersion, VersionId

\* Every step keeps versions without their edge counted.
LEMMA TornStep == IInv /\ TornInv /\ [Next]_vars => TornInv'
<1> SUFFICES ASSUME IInv, TornInv, [Next]_vars PROVE TornInv'
  OBVIOUS
<1>1. CASE UNCHANGED vars \/ Commit
  <2>1. UNCHANGED <<versions, modifies, crashes, job>>
    BY <1>1 DEF vars, graph, Commit
  <2>2. UNCHANGED <<Unattributed, InHand, Active>>
    BY <2>1 DEF Unattributed, InHand, Writing, Item, ItemVersion, VersionId, Active, At
  <2>3. QED
    BY <2>1, <2>2 DEF TornInv, Torn
<1>2. ASSUME NEW p \in Proc, Start(p) \/ NextLevel(p) \/ NextCommit(p) \/ Finish(p)
      PROVE  TornInv'
  <2>1. p \notin Writing /\ UNCHANGED <<versions, modifies, crashes>>
    BY <1>2 DEF Start, NextLevel, NextCommit, Finish, At, Writing, Recording, graph
  <2>2. OnlyMoves(p)
    BY <1>2 DEF Start, NextLevel, NextCommit, Finish, OnlyMoves, IInv, TypeOK
  <2>3. QED
    BY <2>1, <2>2, NothingTorn
<1>3. ASSUME NEW p \in Proc, Resolve(p) \/ ReadNode(p)
      PROVE  TornInv'
  <2>1. p \notin Writing /\ UNCHANGED <<versions, modifies, crashes>>
    BY <1>3 DEF Resolve, ReadNode, At, Writing, Recording, graph
  <2>2. OnlyMoves(p)
    BY <1>3 DEF Resolve, ReadNode, OnlyMoves, IInv, TypeOK
  <2>3. QED
    BY <2>1, <2>2, NothingTorn
<1>4. ASSUME NEW p \in Proc, PutTask(p) \/ AppendTask(p)
      PROVE  TornInv'
  <2>1. p \notin Writing /\ UNCHANGED <<versions, modifies, crashes>> /\ \E s : GoTo(p, s)
    BY <1>4 DEF PutTask, AppendTask, At, Writing, Recording
  <2>2. QED
    BY <2>1, SameArtifact, NothingTorn
<1>5. ASSUME NEW p \in Proc, PutNode(p) \/ PutPrint(p) \/ PutSucceeds(p)
      PROVE  TornInv'
  <2>1. /\ UNCHANGED <<versions, modifies, crashes>>
        /\ \E s \in {"succeeds", "print", "modifies", "contains"} : GoTo(p, s)
    BY <1>5 DEF PutNode, PutPrint, PutSucceeds
  <2>2. QED
    BY <2>1, SameArtifact, NothingTorn DEF Writing, Recording
<1>6. ASSUME NEW p \in Proc, PutContains(p)
      PROVE  TornInv'
  <2>1. UNCHANGED <<versions, modifies, crashes>>
    BY <1>6 DEF PutContains
  <2>2. CASE Item(job[p]).kind = "unchanged"
    <3>1. p \notin Writing
      BY <2>2 DEF Writing
    <3>2. OnlyMoves(p)
      BY <1>6, <2>2 DEF PutContains, Done, OnlyMoves, IInv, TypeOK
    <3>3. QED
      BY <2>1, <3>1, <3>2, NothingTorn
  <2>3. CASE Item(job[p]).kind # "unchanged"
    <3>1. GoTo(p, "modifies")
      BY <1>6, <2>3 DEF PutContains
    <3>2. QED
      BY <2>1, <3>1, SameArtifact, NothingTorn DEF Writing, Recording
  <2>4. QED
    BY <2>2, <2>3
<1>7. ASSUME NEW p \in Proc, AppendVersion(p)
      PROVE  TornInv'
  <2>1. PICK v : v = ItemVersion(job[p])
    OBVIOUS
  <2>2. job[p].stage = "version" /\ job[p].stage \in Recording
    BY <1>7 DEF AppendVersion, At, Recording
  <2>3. Item(job[p]).kind # "unchanged"
    BY <2>2, WritingFacts DEF JobSafe, ItemSafe
  <2>4. /\ OnlyMoves(p) /\ job'[p].stage = "node"
        /\ Item(job[p])' = Item(job[p]) /\ ItemVersion(job[p])' = v
    BY <1>7, <2>1, SameArtifact DEF AppendVersion
  <2>5. p \in Writing'
    BY <2>3, <2>4 DEF Writing, Recording
  <2>6. UNCHANGED <<modifies, crashes>> /\ DOMAIN versions' = DOMAIN versions \cup {v}
    BY <1>7, <2>1 DEF AppendVersion, InsertOrIgnore
  <2>7. v \in InHand'
    BY <2>4, <2>5 DEF InHand
  <2>8. InHand \subseteq InHand'
    <3>1. SUFFICES ASSUME NEW q \in Writing
                   PROVE  q \in Writing' /\ ItemVersion(job[q])' = ItemVersion(job[q])
      BY DEF InHand
    <3>2. q # p
      BY <2>2 DEF Writing
    <3>3. job'[q] = job[q]
      BY <2>4, <3>2 DEF OnlyMoves, Writing
    <3>4. QED
      BY <3>3 DEF Writing, Item, ItemVersion, VersionId
  <2>9. Unattributed' \subseteq Unattributed \cup {v}
    BY <2>6 DEF Unattributed
  <2>10. Torn' \subseteq Torn
    BY <2>7, <2>8, <2>9 DEF Torn
  <2>11. IsFiniteSet(Torn)
    BY FS_Subset DEF Torn, Unattributed, TornInv
  <2>12. Cardinality(Torn') <= Cardinality(Torn) /\ Cardinality(Torn) \in Nat
         /\ Cardinality(Torn') \in Nat
    BY <2>10, <2>11, FS_Subset, FS_CardinalityType
  <2>13. Cardinality(Torn') <= crashes
    BY <2>12 DEF TornInv, IInv, TypeOK
  <2>14. IsFiniteSet(DOMAIN versions')
    BY <2>6, FS_AddElement DEF TornInv
  <2>15. Active' \subseteq Active \cup {p} /\ IsFiniteSet(Active \cup {p})
    BY <2>4, FS_AddElement DEF Active, At, OnlyMoves, TornInv
  <2>16. QED
    BY <2>6, <2>13, <2>14, <2>15, FS_Subset DEF TornInv
<1>8. ASSUME NEW p \in Proc, PutModifies(p)
      PROVE  TornInv'
  <2>1. PICK v : v = ItemVersion(job[p])
    OBVIOUS
  <2>2. job[p].stage = "modifies" /\ job[p].stage \in Recording
    BY <1>8 DEF PutModifies, At, Recording
  <2>3. v.task = job[p].commit /\ v.artifact = Item(job[p]).id
    BY <2>1 DEF ItemVersion, VersionId
  <2>4. /\ UNCHANGED <<versions, crashes>>
        /\ DOMAIN modifies' = DOMAIN modifies \cup {[task |-> v.task, artifact |-> v.artifact]}
    BY <1>8, <2>3 DEF PutModifies, Attribution, InsertOrIgnore
  <2>5. OnlyMoves(p)
    BY <1>8 DEF PutModifies, Done, OnlyMoves, IInv, TypeOK
  <2>6. InHand \subseteq InHand' \cup {v}
    <3>1. SUFFICES ASSUME NEW q \in Writing, q # p
                   PROVE  q \in Writing' /\ ItemVersion(job[q])' = ItemVersion(job[q])
      BY <2>1 DEF InHand
    <3>2. job'[q] = job[q]
      BY <2>5, <3>1 DEF OnlyMoves, Writing
    <3>3. QED
      BY <3>2 DEF Writing, Item, ItemVersion, VersionId
  <2>7. Unattributed' \subseteq Unattributed /\ v \notin Unattributed'
    BY <2>4 DEF Unattributed
  <2>8. Torn' \subseteq Torn
    BY <2>6, <2>7 DEF Torn
  <2>9. IsFiniteSet(Torn)
    BY FS_Subset DEF Torn, Unattributed, TornInv
  <2>10. Cardinality(Torn') <= Cardinality(Torn) /\ Cardinality(Torn) \in Nat
         /\ Cardinality(Torn') \in Nat
    BY <2>8, <2>9, FS_Subset, FS_CardinalityType
  <2>11. Cardinality(Torn') <= crashes
    BY <2>10 DEF TornInv, IInv, TypeOK
  <2>12. Active' \subseteq Active \cup {p} /\ IsFiniteSet(Active \cup {p})
    BY <2>5, FS_AddElement DEF Active, At, OnlyMoves, TornInv
  <2>13. QED
    BY <2>4, <2>11, <2>12, FS_Subset DEF TornInv
<1>9. ASSUME NEW p \in Proc, Crash(p)
      PROVE  TornInv'
  <2>1. PICK v : v = ItemVersion(job[p])
    OBVIOUS
  <2>2. UNCHANGED <<versions, modifies>> /\ crashes' = crashes + 1 /\ OnlyMoves(p)
    BY <1>9 DEF Crash, graph, OnlyMoves, IInv, TypeOK
  <2>3. InHand \subseteq InHand' \cup {v}
    <3>1. SUFFICES ASSUME NEW q \in Writing, q # p
                   PROVE  q \in Writing' /\ ItemVersion(job[q])' = ItemVersion(job[q])
      BY <2>1 DEF InHand
    <3>2. job'[q] = job[q]
      BY <2>2, <3>1 DEF OnlyMoves, Writing
    <3>3. QED
      BY <3>2 DEF Writing, Item, ItemVersion, VersionId
  <2>4. Torn' \subseteq Torn \cup {v}
    BY <2>2, <2>3 DEF Torn, Unattributed
  <2>5. IsFiniteSet(Torn)
    BY FS_Subset DEF Torn, Unattributed, TornInv
  <2>6. /\ IsFiniteSet(Torn \cup {v}) /\ Cardinality(Torn) \in Nat
        /\ Cardinality(Torn \cup {v}) <= Cardinality(Torn) + 1
    <3>1. Cardinality(Torn) \in Nat
      BY <2>5, FS_CardinalityType
    <3>2. /\ IsFiniteSet(Torn \cup {v})
          /\ Cardinality(Torn \cup {v}) =
               IF v \in Torn THEN Cardinality(Torn) ELSE Cardinality(Torn) + 1
      BY <2>5, FS_AddElement
    <3>3. QED
      BY <3>1, <3>2
  <2>7. /\ Cardinality(Torn') <= Cardinality(Torn \cup {v})
        /\ Cardinality(Torn') \in Nat /\ Cardinality(Torn \cup {v}) \in Nat
    BY <2>4, <2>6, FS_Subset, FS_CardinalityType
  <2>8. Cardinality(Torn') <= crashes'
    BY <2>2, <2>6, <2>7 DEF TornInv, IInv, TypeOK
  <2>9. Active' \subseteq Active \cup {p} /\ IsFiniteSet(Active \cup {p})
    BY <2>2, FS_AddElement DEF Active, At, OnlyMoves, TornInv
  <2>10. QED
    BY <2>2, <2>8, <2>9, FS_Subset DEF TornInv
<1>10. QED
  BY <1>1, <1>2, <1>3, <1>4, <1>5, <1>6, <1>7, <1>8, <1>9 DEF Next, Ingest

\* A running process has one version in its hand.
LEMMA TornIsFew ==
  ASSUME IInv, TornInv
  PROVE  CrashTearsOne
<1> DEFINE f == [p \in Writing |-> ItemVersion(job[p])]
<1>1. Writing \subseteq Active
  BY DEF Writing, Active, At, Recording
<1>2. IsFiniteSet(Writing) /\ Cardinality(Writing) <= Cardinality(Active)
  BY <1>1, FS_Subset DEF TornInv
<1>3. f \in Surjection(Writing, InHand)
  BY DEF Surjection, InHand
<1>4. IsFiniteSet(InHand) /\ Cardinality(InHand) <= Cardinality(Writing)
  BY <1>2, <1>3, FS_Surjection
<1>5. IsFiniteSet(Torn) /\ IsFiniteSet(Unattributed)
  BY FS_Subset DEF Torn, Unattributed, TornInv
<1>6. /\ IsFiniteSet(Torn \cup InHand)
      /\ Cardinality(Torn \cup InHand) =
           Cardinality(Torn) + Cardinality(InHand) - Cardinality(Torn \cap InHand)
  BY <1>4, <1>5, FS_Union
<1>7. Torn \cap InHand = {} /\ Unattributed \subseteq Torn \cup InHand
  BY DEF Torn
<1>8. Cardinality(Unattributed) <= Cardinality(Torn \cup InHand)
  BY <1>6, <1>7, FS_Subset
<1>9. /\ Cardinality(Unattributed) \in Nat /\ Cardinality(Torn) \in Nat
      /\ Cardinality(InHand) \in Nat /\ Cardinality(Writing) \in Nat
      /\ Cardinality(Active) \in Nat /\ Cardinality(Torn \cap InHand) = 0
      /\ Cardinality(Torn \cup InHand) \in Nat /\ crashes \in Nat
  BY <1>2, <1>4, <1>5, <1>6, <1>7, FS_CardinalityType, FS_EmptySet DEF TornInv, IInv, TypeOK
<1>10. Cardinality(Torn) <= crashes
  BY DEF TornInv
<1>11. QED
  BY <1>2, <1>4, <1>6, <1>8, <1>9, <1>10 DEF CrashTearsOne

\* However many processes ingest, a crash leaves one version without its edge at most.
THEOREM CrashesTearOne == Spec => []CrashTearsOne
<1>1. Init => TornInv
  <2>1. SUFFICES ASSUME Init PROVE TornInv
    OBVIOUS
  <2>2. DOMAIN versions = {} /\ Active = {} /\ crashes = 0
    BY <2>1 DEF Init, EmptyTable, Active, At, Idle
  <2>3. Torn = {}
    BY <2>2 DEF Torn, Unattributed
  <2>4. QED
    BY <2>2, <2>3, FS_EmptySet DEF TornInv
<1>2. IInv /\ TornInv => CrashTearsOne
  BY TornIsFew
<1>3. QED
  BY <1>1, <1>2, TornStep, Invariance, PTL DEF Spec

-----------------------------------------------------------------------------
(***************************************************************************)
(* One ingest at a time.  A node keeps its level, and while a plan of      *)
(* files is written every file of it is one record, under the id of the    *)
(* node that is at its path, if there is one.                              *)
(***************************************************************************)
Sole == \A p, q \in Active : p = q

LevelsKept == \A id \in DOMAIN nodes : LevelOf(nodes[id]) = LevelOf(id)

FilesApart ==
  \A i, j \in DOMAIN nodes :
    nodes[i].path = nodes[j].path /\ LevelOf(i) = "file" /\ LevelOf(j) = "file" => i = j

Stays(r) == r.kind # "deleted"

PlanLevel(j) ==
  /\ j.plan # {} => j.stage \in Recording \cup {"next"}
  /\ \A r \in j.plan : LevelOf(r.id) = j.level /\ (Stays(r) => LevelOf(r) = j.level)

PlanApart(j) ==
  j.level = "file" =>
    \A r \in j.plan : Stays(r) =>
      /\ \A s \in j.plan : Stays(s) /\ s.path = r.path => s = r
      /\ \A id \in DOMAIN nodes : nodes[id].path = r.path => id = r.id

RowRead(j) ==
  j.stage \in {"version", "node"} =>
    j.rows = {nodes[id] : id \in {Item(j).id} \cap DOMAIN nodes}

LoneInv ==
  /\ Sole /\ LevelsKept /\ FilesApart
  /\ \A p \in Proc : PlanLevel(job[p]) /\ PlanApart(job[p]) /\ RowRead(job[p])

-----------------------------------------------------------------------------
(***************************************************************************)
(* What a tree holds, and how a lone ingest comes to meet it.              *)
(***************************************************************************)
Held(k) == {f \in File : Tree(k)[f] # Absent}

TreeObserved(k) ==
  {FileSeen(f, Tree(k)[f]) : f \in Held(k)}
  \cup UNION {SymbolsSeen(f, Tree(k)[f]) : f \in Held(k)}

Holds(id, o) == id \in DOMAIN nodes /\ nodes[id].path = o.path /\ PrintOf(id) = o.fp

Safe(j, id) == \A r \in j.plan : Stays(r) => r.id # id

Unresolved(j, level) ==
  \/ level = "file" /\ j.level = "file" /\ j.stage \in {"task", "taskRow", "resolve"}
  \/ level = "symbol" /\ (j.level = "file" \/ j.stage = "resolve")

Met(j, o) ==
  \/ \E id \in DOMAIN nodes : Holds(id, o) /\ Safe(j, id)
  \/ \E r \in j.plan : Stays(r) /\ r.path = o.path /\ r.fp = o.fp
  \/ o.path.file \in Changed(j.commit) /\ Unresolved(j, LevelOf(o))

TreeMet(j) == j.stage # "idle" => \A o \in TreeObserved(j.commit) : Met(j, o)

IdsApart(j) ==
  /\ \A r, s \in j.plan : Stays(r) /\ Stays(s) /\ r.id = s.id => r = s
  /\ \A r \in j.plan : r.kind = "unchanged" => Holds(r.id, r)

ItemWritten(j) ==
  j.stage \in Recording /\ Item(j).kind \notin {"deleted", "unchanged"} =>
    /\ j.stage \in {"print", "succeeds", "contains", "modifies"} =>
         nodes[Item(j).id].path = Item(j).path
    /\ j.stage \in {"succeeds", "contains", "modifies"} =>
         PrintOf(Item(j).id) = Item(j).fp

SyncedMet ==
  /\ synced \in 0..Len(history)
  /\ synced = 0 \/ Active = {}
  /\ \A o \in TreeObserved(synced) : \E id \in DOMAIN nodes : Holds(id, o)

JobMet(j) == TreeMet(j) /\ IdsApart(j) /\ ItemWritten(j)

HeadInv == SyncedMet /\ \A p \in Proc : JobMet(job[p])

-----------------------------------------------------------------------------
(***************************************************************************)
(* The first run.                                                          *)
(***************************************************************************)
TreePaths(k) == {o.path : o \in TreeObserved(k)}

Current(id) == versions[nodes[id].current]

Agrees(id) == Current(id).path = nodes[id].path /\ Current(id).fp = PrintOf(id)

\* The node being given its fingerprint has its version's one already.
NodesExact ==
  \A id \in DOMAIN nodes :
    \/ Agrees(id)
    \/ \E p \in Proc : job[p].stage = "print" /\ Item(job[p]).id = id

Alive(k, id) == Current(id).kind = "deleted" \/ nodes[id].path \in TreePaths(k)

NodesAlive(j) ==
  \A id \in DOMAIN nodes :
    \/ Alive(j.commit, id)
    \/ \E r \in j.plan : r.id = id
    \/ nodes[id].path.file \in Changed(j.commit) /\ Unresolved(j, LevelOf(id))

Changes(r) == r.kind \notin {"deleted", "unchanged"}

VersionsFresh(j) ==
  /\ \A v \in DOMAIN versions :
       v.task <= j.commit /\ (v.task = j.commit => ~Unresolved(j, LevelOf(v.artifact)))
  /\ \A r \in j.plan :
       Changes(r) /\ VersionId(r.id, j.commit) \in DOMAIN versions
         => j.stage \in Recording \ {"version"} /\ r = Item(j)

PlanSeen(j) ==
  /\ \A r \in j.plan : Stays(r) => r.path \in TreePaths(j.commit)
  /\ j.stage \in Recording /\ ~Stays(Item(j)) => \A r \in j.plan : ~Stays(r)

InHandNew(j) == j.stage \in {"node", "print"} /\ Stays(Item(j))

VersionsHeld(j) ==
  \A v \in DOMAIN versions : v.task = j.commit =>
    \/ InHandNew(j) /\ v = ItemVersion(j)
    \/ /\ v.artifact \in DOMAIN nodes
       /\ versions[v].path = nodes[v.artifact].path
       /\ versions[v].fp = PrintOf(v.artifact)
       /\ versions[v].kind = "deleted" \/ versions[v].path \in TreePaths(j.commit)

ItemHeld(j) ==
  /\ InHandNew(j) => /\ versions[ItemVersion(j)].path = Item(j).path
                     /\ versions[ItemVersion(j)].fp = Item(j).fp
  /\ j.stage \in {"print", "succeeds", "contains", "modifies"} /\ Item(j).kind # "unchanged"
       => nodes[Item(j).id].current = ItemVersion(j)

JobExact(j) ==
  j.stage # "idle" =>
    /\ NodesAlive(j) /\ VersionsFresh(j) /\ PlanSeen(j) /\ VersionsHeld(j) /\ ItemHeld(j)

FirstInv ==
  /\ synced # 0 => \A id \in DOMAIN nodes : Agrees(id) /\ Alive(synced, id)
  /\ Active # {} => NodesExact
  /\ \A p \in Proc : JobExact(job[p])

-----------------------------------------------------------------------------
(***************************************************************************)
(* More of resolution: each observation has one record and, the ids of     *)
(* what is known being distinct, each known artifact continues in one      *)
(* record or is deleted.                                                   *)
(***************************************************************************)
UniqueIds(known) == \A k, l \in known : k.id = l.id => k = l

ShiftKind == {"renamed", "moved"}

Seen(r) == [path |-> r.path, fp |-> r.fp]

\* What a greedy pairing takes comes from the two sides it is given.
LEMMA PairedFacts ==
  ASSUME NEW known, NEW observed, NEW exact \in ExactPairings(known, observed),
         NEW fuzzy \in GreedyPairings(Candidates(Disappeared(known, exact),
                                                 Appeared(observed, exact)))
  PROVE  /\ exact \subseteq [known : known, obs : observed]
         /\ fuzzy \subseteq [known : known, obs : observed]
         /\ OneToOne(exact) /\ OneToOne(fuzzy)
         /\ \A m \in exact : m.known.path = m.obs.path
         /\ \A m \in exact, n \in fuzzy : m.known # n.known /\ m.obs # n.obs
         /\ \A m \in [known : known, obs : observed] :
              m.known.path = m.obs.path => \E n \in exact : Touching(m, n)
<1>1. exact \in SUBSET SamePath(known, observed) /\ OneToOne(exact)
  BY DEF ExactPairings
<1>2. fuzzy \in SUBSET Candidates(Disappeared(known, exact), Appeared(observed, exact))
      /\ OneToOne(fuzzy)
  BY DEF GreedyPairings
<1>3. \A m \in fuzzy : m \in [known : Disappeared(known, exact), obs : Appeared(observed, exact)]
  BY <1>2 DEF Candidates
<1>4. \A m \in fuzzy : m.known \in Disappeared(known, exact) /\ m.obs \in Appeared(observed, exact)
  BY <1>3
<1>5. fuzzy \subseteq [known : known, obs : observed]
  BY <1>3 DEF Disappeared, Appeared
<1>6. \A m \in exact, n \in fuzzy : m.known # n.known /\ m.obs # n.obs
  BY <1>4 DEF Disappeared, Appeared
<1>7. \A m \in SamePath(known, observed) : \E n \in exact : Touching(m, n)
  BY DEF ExactPairings, Touching
<1>8. QED
  BY <1>1, <1>2, <1>5, <1>6, <1>7 DEF SamePath

\* What Resolve's records are made of: each is what was seen, or a known artifact gone.
LEMMA PlanFacts ==
  ASSUME NEW known \in SUBSET KnownRecord,
         NEW observed \in SUBSET SeenRecord,
         UniqueIds(known),
         NEW plan \in Resolutions(known, observed)
  PROVE  /\ \A o \in observed : \E r \in plan : Stays(r) /\ r.path = o.path /\ r.fp = o.fp
         /\ \A r \in plan : Stays(r) => Seen(r) \in observed
         /\ \A r \in plan : r.kind = "added" => r.id = Derive(r.path, r.fp)
         /\ \A r \in plan : r.kind # "added" => \E k \in known : k.id = r.id
         /\ \A r \in plan : r.kind = "unchanged" =>
              \E k \in known : k.id = r.id /\ k.path = r.path /\ k.fp = r.fp
         /\ \A r, s \in plan : r.kind # "added" /\ s.kind # "added" /\ r.id = s.id => r = s
         /\ \A k \in known : \E r \in plan : r.kind # "added" /\ r.id = k.id
<1>1. PICK exact \in ExactPairings(known, observed) :
        \E fuzzy \in GreedyPairings(Candidates(Disappeared(known, exact),
                                               Appeared(observed, exact))) :
          plan = Outcome(known, observed, exact, fuzzy)
  BY DEF Resolutions
<1>2. PICK fuzzy \in GreedyPairings(Candidates(Disappeared(known, exact),
                                               Appeared(observed, exact))) :
          plan = Outcome(known, observed, exact, fuzzy)
  BY <1>1
<1>3. /\ exact \subseteq [known : known, obs : observed]
      /\ fuzzy \subseteq [known : known, obs : observed]
      /\ OneToOne(exact) /\ OneToOne(fuzzy)
      /\ \A m \in exact : m.known.path = m.obs.path
      /\ \A m \in exact, n \in fuzzy : m.known # n.known /\ m.obs # n.obs
  BY PairedFacts
<1> DEFINE Edit(m) == IF m.known.fp = m.obs.fp THEN "unchanged" ELSE "modified"
           Shift(m) == IF Container(m.known.path) = Container(m.obs.path)
                       THEN "renamed" ELSE "moved"
           Left == Appeared(observed, exact) \ {m.obs : m \in fuzzy}
           Gone == Disappeared(known, exact) \ {m.known : m \in fuzzy}
           Exacts == {Resolved(m.known.id, m.obs, Edit(m)) : m \in exact}
           Shifted == {Resolved(m.known.id, m.obs, Shift(m)) : m \in fuzzy}
           Added == {Resolved(Derive(o.path, o.fp), o, "added") : o \in Left}
           Deleted == {Resolved(k.id, k, "deleted") : k \in Gone}
<1>4. plan = Exacts \cup Shifted \cup Added \cup Deleted
  BY <1>2 DEF Outcome
<1>5. \A m \in exact \cup fuzzy : m.known \in known /\ m.obs \in observed
  BY <1>3
<1>6. Left \subseteq observed /\ Gone \subseteq known
  BY DEF Appeared, Disappeared
<1>7. \A o \in observed : o \in Left \/ (\E m \in exact : m.obs = o) \/ (\E m \in fuzzy : m.obs = o)
  BY DEF Appeared
<1>8. \A k \in known : k \in Gone \/ (\E m \in exact : m.known = k) \/ (\E m \in fuzzy : m.known = k)
  BY DEF Disappeared
<1>9. \A k \in Gone : \A m \in exact \cup fuzzy : m.known # k
  BY DEF Disappeared
<1>10. \A r \in Exacts : \E m \in exact :
         /\ r = Resolved(m.known.id, m.obs, Edit(m)) /\ r.kind \in {"unchanged", "modified"}
         /\ r.id = m.known.id /\ r.path = m.obs.path /\ r.fp = m.obs.fp
         /\ r.kind = "unchanged" => m.known.fp = m.obs.fp
  BY DEF Resolved
<1>11. \A r \in Shifted : \E m \in fuzzy :
         /\ r = Resolved(m.known.id, m.obs, Shift(m)) /\ r.kind \in ShiftKind
         /\ r.id = m.known.id /\ r.path = m.obs.path /\ r.fp = m.obs.fp
  BY DEF Resolved, ShiftKind
<1>12. \A r \in Added : \E o \in Left :
         /\ r.kind = "added" /\ r.path = o.path /\ r.fp = o.fp /\ r.id = Derive(o.path, o.fp)
  BY DEF Resolved
<1>13. \A r \in Deleted : \E k \in Gone :
         /\ r = Resolved(k.id, k, "deleted") /\ r.kind = "deleted" /\ r.id = k.id
  BY DEF Resolved
<1>14. ASSUME NEW m \in exact
       PROVE  \E r \in Exacts : /\ r.id = m.known.id /\ r.path = m.obs.path
                                /\ r.fp = m.obs.fp /\ r.kind \in {"unchanged", "modified"}
  <2>1. PICK r : r = Resolved(m.known.id, m.obs, Edit(m))
    OBVIOUS
  <2>2. r \in Exacts
    BY <2>1
  <2>3. r.id = m.known.id /\ r.path = m.obs.path /\ r.fp = m.obs.fp /\ r.kind = Edit(m)
    BY <2>1 DEF Resolved
  <2>4. QED
    BY <2>2, <2>3
<1>15. ASSUME NEW m \in fuzzy
       PROVE  \E r \in Shifted : /\ r.id = m.known.id /\ r.path = m.obs.path
                                 /\ r.fp = m.obs.fp /\ r.kind \in ShiftKind
  <2>1. PICK r : r = Resolved(m.known.id, m.obs, Shift(m))
    OBVIOUS
  <2>2. r \in Shifted
    BY <2>1
  <2>3. r.id = m.known.id /\ r.path = m.obs.path /\ r.fp = m.obs.fp /\ r.kind = Shift(m)
    BY <2>1 DEF Resolved
  <2>4. QED
    BY <2>2, <2>3 DEF ShiftKind
<1>16. ASSUME NEW o \in Left
       PROVE  \E r \in Added : r.path = o.path /\ r.fp = o.fp /\ r.kind = "added"
  <2>1. PICK r : r = Resolved(Derive(o.path, o.fp), o, "added")
    OBVIOUS
  <2>2. r \in Added
    BY <2>1
  <2>3. QED
    BY <2>1, <2>2 DEF Resolved
<1>17. ASSUME NEW k \in Gone
       PROVE  \E r \in Deleted : r.id = k.id /\ r.kind = "deleted"
  <2>1. PICK r : r = Resolved(k.id, k, "deleted")
    OBVIOUS
  <2>2. r \in Deleted
    BY <2>1
  <2>3. QED
    BY <2>1, <2>2 DEF Resolved
<1>18. \A r, s \in Exacts \cup Shifted \cup Deleted : r.id = s.id => r = s
  <2>1. ASSUME NEW m \in exact \cup fuzzy, NEW n \in exact \cup fuzzy, m.known.id = n.known.id
        PROVE  m = n
    <3>1. m.known = n.known
      BY <1>5, <2>1 DEF UniqueIds
    <3>2. QED
      BY <1>3, <3>1 DEF OneToOne, Touching
  <2>2. \A m \in exact \cup fuzzy : \A k \in Gone : m.known.id # k.id
    BY <1>5, <1>6, <1>9 DEF UniqueIds
  <2>3. \A k, l \in Gone : k.id = l.id => k = l
    BY <1>6 DEF UniqueIds
  <2>4. \A m \in exact, n \in fuzzy : m # n
    BY <1>3
  <2> HIDE DEF Edit, Shift, Left, Gone, Exacts, Shifted, Added, Deleted
  <2>5. ASSUME NEW r \in Exacts, NEW s \in Exacts \cup Shifted \cup Deleted, r.id = s.id
        PROVE  r = s
    BY <1>10, <1>11, <1>13, <2>1, <2>2, <2>4, <2>5
  <2>6. ASSUME NEW r \in Shifted, NEW s \in Shifted \cup Deleted, r.id = s.id
        PROVE  r = s
    BY <1>11, <1>13, <2>1, <2>2, <2>6
  <2>7. ASSUME NEW r \in Deleted, NEW s \in Deleted, r.id = s.id
        PROVE  r = s
    BY <1>13, <2>3, <2>7
  <2>8. QED
    BY <2>5, <2>6, <2>7
<1> HIDE DEF Edit, Shift, Left, Gone, Exacts, Shifted, Added, Deleted
<1>19. \A r \in plan : r.kind # "added" => r \in Exacts \cup Shifted \cup Deleted
  BY <1>4, <1>12
<1>20. \A o \in observed : \E r \in plan : Stays(r) /\ r.path = o.path /\ r.fp = o.fp
  <2>1. TAKE o \in observed
  <2>2. CASE o \in Left
    BY <1>4, <1>16, <2>2 DEF Stays
  <2>3. CASE \E m \in exact : m.obs = o
    BY <1>4, <1>14, <2>3 DEF Stays
  <2>4. CASE \E m \in fuzzy : m.obs = o
    BY <1>4, <1>15, <2>4 DEF Stays, ShiftKind
  <2>5. QED
    BY <1>7, <2>2, <2>3, <2>4
<1>21. \A r \in plan : Stays(r) => Seen(r) \in observed
  <2>1. \A o \in observed : o = [path |-> o.path, fp |-> o.fp]
    BY DEF SeenRecord
  <2>2. \A r \in plan : Stays(r) => \E o \in observed : r.path = o.path /\ r.fp = o.fp
    BY <1>4, <1>5, <1>6, <1>10, <1>11, <1>12, <1>13 DEF Stays
  <2>3. QED
    BY <2>1, <2>2 DEF Seen
<1>22. \A r \in plan : r.kind = "added" => r.id = Derive(r.path, r.fp)
  BY <1>4, <1>10, <1>11, <1>12, <1>13 DEF ShiftKind
<1>23. \A r \in plan : r.kind # "added" => \E k \in known : k.id = r.id
  BY <1>5, <1>6, <1>10, <1>11, <1>13, <1>19
<1>24. \A r \in plan : r.kind = "unchanged" =>
         \E k \in known : k.id = r.id /\ k.path = r.path /\ k.fp = r.fp
  BY <1>3, <1>4, <1>5, <1>10, <1>11, <1>12, <1>13 DEF ShiftKind
<1>25. \A k \in known : \E r \in plan : r.kind # "added" /\ r.id = k.id
  <2>1. TAKE k \in known
  <2>2. CASE k \in Gone
    BY <1>4, <1>17, <2>2
  <2>3. CASE \E m \in exact : m.known = k
    BY <1>4, <1>14, <2>3
  <2>4. CASE \E m \in fuzzy : m.known = k
    BY <1>4, <1>15, <2>4 DEF ShiftKind
  <2>5. QED
    BY <1>8, <2>2, <2>3, <2>4
<1>26. QED
  BY <1>18, <1>19, <1>20, <1>21, <1>22, <1>23, <1>24, <1>25

\* Where the observations have distinct paths, and the known artifacts too, every
\* observation is one record, and what is known at its path continues in it.
LEMMA ApartFacts ==
  ASSUME NEW known \in SUBSET KnownRecord,
         NEW observed \in SUBSET SeenRecord,
         UniqueIds(known),
         \A o, q \in observed : o.path = q.path => o = q,
         \A k, l \in known : k.path = l.path => k = l,
         NEW plan \in Resolutions(known, observed)
  PROVE  /\ \A r, s \in plan : Stays(r) /\ Stays(s) /\ r.path = s.path => r = s
         /\ \A r \in plan : Stays(r) => \A k \in known : k.path = r.path => k.id = r.id
<1>1. PICK exact \in ExactPairings(known, observed) :
        \E fuzzy \in GreedyPairings(Candidates(Disappeared(known, exact),
                                               Appeared(observed, exact))) :
          plan = Outcome(known, observed, exact, fuzzy)
  BY DEF Resolutions
<1>2. PICK fuzzy \in GreedyPairings(Candidates(Disappeared(known, exact),
                                               Appeared(observed, exact))) :
          plan = Outcome(known, observed, exact, fuzzy)
  BY <1>1
<1>3. /\ exact \subseteq [known : known, obs : observed]
      /\ fuzzy \subseteq [known : known, obs : observed]
      /\ OneToOne(exact) /\ OneToOne(fuzzy)
      /\ \A m \in exact : m.known.path = m.obs.path
      /\ \A m \in exact, n \in fuzzy : m.known # n.known /\ m.obs # n.obs
      /\ \A m \in [known : known, obs : observed] :
           m.known.path = m.obs.path => \E n \in exact : Touching(m, n)
  BY PairedFacts
<1> DEFINE Edit(m) == IF m.known.fp = m.obs.fp THEN "unchanged" ELSE "modified"
           Shift(m) == IF Container(m.known.path) = Container(m.obs.path)
                       THEN "renamed" ELSE "moved"
           Left == Appeared(observed, exact) \ {m.obs : m \in fuzzy}
           Gone == Disappeared(known, exact) \ {m.known : m \in fuzzy}
           Exacts == {Resolved(m.known.id, m.obs, Edit(m)) : m \in exact}
           Shifted == {Resolved(m.known.id, m.obs, Shift(m)) : m \in fuzzy}
           Added == {Resolved(Derive(o.path, o.fp), o, "added") : o \in Left}
           Deleted == {Resolved(k.id, k, "deleted") : k \in Gone}
<1>4. plan = Exacts \cup Shifted \cup Added \cup Deleted
  BY <1>2 DEF Outcome
<1>5. \A m \in exact \cup fuzzy : m.known \in known /\ m.obs \in observed
  BY <1>3
<1>6. Left \subseteq observed /\ \A o \in Left : \A m \in exact \cup fuzzy : m.obs # o
  BY DEF Appeared
<1>7. \A r \in Exacts : \E m \in exact :
        r = Resolved(m.known.id, m.obs, Edit(m)) /\ r.id = m.known.id /\ r.path = m.obs.path
  BY DEF Resolved
<1>8. \A r \in Shifted : \E m \in fuzzy :
        r = Resolved(m.known.id, m.obs, Shift(m)) /\ r.path = m.obs.path
  BY DEF Resolved
<1>9. \A r \in Added : \E o \in Left :
        r = Resolved(Derive(o.path, o.fp), o, "added") /\ r.path = o.path
  BY DEF Resolved
<1>10. \A r \in Deleted : r.kind = "deleted"
  BY DEF Resolved
<1> HIDE DEF Edit, Shift, Left, Gone, Exacts, Shifted, Added, Deleted
<1>11. \A r \in plan : Stays(r) => r \in Exacts \cup Shifted \cup Added
  BY <1>4, <1>10 DEF Stays
<1>12. \A m, n \in exact : m.obs = n.obs \/ m.known = n.known => m = n
  BY <1>3 DEF OneToOne, Touching
<1>13. \A m, n \in fuzzy : m.obs = n.obs \/ m.known = n.known => m = n
  BY <1>3 DEF OneToOne, Touching
<1>14. \A r, s \in plan : Stays(r) /\ Stays(s) /\ r.path = s.path => r = s
  <2>1. ASSUME NEW r \in Exacts, NEW s \in Exacts \cup Shifted \cup Added, r.path = s.path
        PROVE  r = s
    BY <1>3, <1>5, <1>6, <1>7, <1>8, <1>9, <1>12, <2>1
  <2>2. ASSUME NEW r \in Shifted, NEW s \in Shifted \cup Added, r.path = s.path
        PROVE  r = s
    BY <1>5, <1>6, <1>8, <1>9, <1>13, <2>2
  <2>3. ASSUME NEW r \in Added, NEW s \in Added, r.path = s.path
        PROVE  r = s
    BY <1>6, <1>9, <2>3
  <2>4. QED
    BY <1>11, <2>1, <2>2, <2>3
<1>15. ASSUME NEW r \in plan, Stays(r), NEW k \in known, k.path = r.path
       PROVE  k.id = r.id
  <2>1. \E o \in observed : o.path = r.path
    BY <1>5, <1>6, <1>7, <1>8, <1>9, <1>11, <1>15
  <2>2. PICK o \in observed : o.path = r.path
    BY <2>1
  <2>3. PICK m : m = [known |-> k, obs |-> o]
    OBVIOUS
  <2>4. m \in [known : known, obs : observed] /\ m.known.path = m.obs.path
        /\ m.known = k /\ m.obs = o
    BY <1>15, <2>2, <2>3
  <2>5. PICK n \in exact : m.known = n.known \/ m.obs = n.obs
    BY <1>3, <2>4 DEF Touching
  <2>6. n.obs.path = o.path /\ n.known.path = k.path
    BY <1>3, <1>15, <2>2, <2>4, <2>5
  <2>7. n.obs = o /\ n.known = k
    BY <1>5, <2>6
  <2>8. r \in Exacts
    BY <1>3, <1>5, <1>6, <1>8, <1>9, <1>11, <1>15, <2>2, <2>7
  <2>9. PICK e \in exact : r.id = e.known.id /\ r.path = e.obs.path
    BY <1>7, <2>8
  <2>10. e = n
    BY <1>5, <1>12, <2>2, <2>7, <2>9
  <2>11. QED
    BY <2>7, <2>9, <2>10
<1>16. QED
  BY <1>14, <1>15

\* What is known has distinct ids, and what is seen at a level is of that level.
LEMMA KnownIdsApart == ASSUME NEW level, NEW k PROVE UniqueIds(Known(level, k))
BY DEF UniqueIds, Known

\* What is observed is of one level, and files are told apart by their paths.
LEMMA ObservedLevel ==
  ASSUME TypeOK, NEW level \in {"file", "symbol"}, NEW k \in 1..Len(history)
  PROVE  /\ \A o \in Observed(level, k) : LevelOf(o) = level
         /\ level = "file" => \A o, q \in Observed(level, k) : o.path = q.path => o = q
<1>1. PICK S \in SUBSET File : history[k] \in [S -> Content \cup {Absent}]
  <2>1. history \in Seq(Change)
    BY DEF TypeOK
  <2>2. history[k] \in Change
    BY <2>1
  <2>3. QED
    BY <2>2 DEF Change
<1>2. \A f \in Present(k) : f \in File /\ history[k][f] \in Content
  BY <1>1 DEF Present, Changed
<1>3. CASE level = "file"
  <2>1. \A o \in Observed(level, k) : \E f \in Present(k) : o = FileSeen(f, history[k][f])
    BY <1>3 DEF Observed
  <2>2. \A f : \A c : FileSeen(f, c).path.file = f /\ FileSeen(f, c).path.name = WholeFile
    BY DEF FileSeen, FilePath
  <2>3. \A o, q \in Observed(level, k) : o.path = q.path => o = q
    BY <2>1, <2>2
  <2>4. QED
    BY <1>3, <2>1, <2>2, <2>3 DEF LevelOf
<1>4. CASE level = "symbol"
  <2>1. ASSUME NEW o \in Observed(level, k)
        PROVE  LevelOf(o) = level
    <3>1. PICK f \in Present(k) : o \in SymbolsSeen(f, history[k][f])
      BY <1>4 DEF Observed
    <3>2. PICK s \in Symbols[history[k][f]] : o = [path |-> [file |-> f, name |-> s.name], fp |-> s.fp]
      BY <3>1 DEF SymbolsSeen
    <3>3. s.name \in Name
      BY <1>2, <3>2, ContentAssumption
    <3>4. s.name # WholeFile
      BY <3>3, ContentAssumption
    <3>5. QED
      BY <1>4, <3>2, <3>4 DEF LevelOf
  <2>2. QED
    BY <1>4, <2>1
<1>5. QED
  BY <1>3, <1>4

-----------------------------------------------------------------------------
(***************************************************************************)
(* What each statement does to the job that executes it.                   *)
(***************************************************************************)
Alone(p) == \A q \in Proc \ {p} : At(q, "idle")

MovesTo(p, s) ==
  /\ OnlyMoves(p) /\ job[p] \in Job
  /\ job'[p].stage = s /\ job'[p].plan = job[p].plan /\ job'[p].items = job[p].items
  /\ job'[p].rows = job[p].rows /\ job'[p].level = job[p].level
  /\ job'[p].commit = job[p].commit /\ job'[p].upto = job[p].upto
  /\ Item(job[p])' = Item(job[p]) /\ ItemVersion(job[p])' = ItemVersion(job[p])

\* What the operators on jobs do to the process and to the others.
LEMMA GoToDoes ==
  ASSUME IInv, NEW p \in Proc, NEW s, GoTo(p, s)
  PROVE  MovesTo(p, s)
<1>1. job[p] \in Job /\ job' = [job EXCEPT ![p] = [job[p] EXCEPT !.stage = s]]
  BY JobFacts DEF GoTo, IInv, TypeOK
<1>2. OnlyMoves(p) /\ job'[p] = [job[p] EXCEPT !.stage = s]
  BY <1>1, JobFacts
<1>3. /\ job'[p].stage = s /\ job'[p].plan = job[p].plan /\ job'[p].items = job[p].items
      /\ job'[p].rows = job[p].rows /\ job'[p].level = job[p].level
      /\ job'[p].commit = job[p].commit /\ job'[p].upto = job[p].upto
  BY <1>1, <1>2 DEF Job
<1>4. QED
  BY <1>1, <1>2, <1>3 DEF MovesTo, Item, ItemVersion, VersionId

DoneMoves(p) ==
  /\ OnlyMoves(p) /\ job[p] \in Job
  /\ job'[p].stage = "next" /\ job'[p].plan = job[p].plan \ {Item(job[p])}
  /\ job'[p].level = job[p].level /\ job'[p].commit = job[p].commit
  /\ job'[p].upto = job[p].upto

\* One lemma for each action says what the step does to its process and to the tables.
LEMMA DoneDoes ==
  ASSUME IInv, NEW p \in Proc, Done(p), job[p].stage \in Recording
  PROVE  DoneMoves(p)
<1>1. job[p] \in Job /\ job[p].items = {Item(job[p])}
  BY WritingFacts
<1>2. PICK items : items = job[p].items
  OBVIOUS
<1>3. job' = [job EXCEPT ![p] = [job[p] EXCEPT !.stage = "next", !.plan = @ \ items,
                                               !.items = {}, !.rows = {}]]
  BY <1>1, <1>2 DEF Done, IInv, TypeOK
<1>4. OnlyMoves(p) /\ job'[p] = [job[p] EXCEPT !.stage = "next", !.plan = @ \ items,
                                               !.items = {}, !.rows = {}]
  BY <1>3, JobFacts
<1>5. /\ job'[p].stage = "next" /\ job'[p].plan = job[p].plan \ items
      /\ job'[p].level = job[p].level /\ job'[p].commit = job[p].commit
      /\ job'[p].upto = job[p].upto
  BY <1>1, <1>4 DEF Job
<1>6. QED
  BY <1>1, <1>2, <1>4, <1>5 DEF DoneMoves

BeginsAt(p, k, n) ==
  /\ OnlyMoves(p)
  /\ job'[p].stage = "task" /\ job'[p].plan = {} /\ job'[p].level = "file"
  /\ job'[p].commit = k /\ job'[p].upto = n

LEMMA BeginDoes ==
  ASSUME IInv, NEW p \in Proc, NEW k, NEW n, job' = [job EXCEPT ![p] = Begin(k, n)]
  PROVE  BeginsAt(p, k, n)
<1>1. OnlyMoves(p) /\ job'[p] = Begin(k, n)
  BY JobFacts
<1>2. /\ Begin(k, n).stage = "task" /\ Begin(k, n).plan = {} /\ Begin(k, n).level = "file"
      /\ Begin(k, n).commit = k /\ Begin(k, n).upto = n
  BY DEF Begin, Idle
<1>3. QED
  BY <1>1, <1>2 DEF BeginsAt

Stops(p) == OnlyMoves(p) /\ job'[p].stage = "idle" /\ job'[p].plan = {}

LEMMA IdleDoes ==
  ASSUME IInv, NEW p \in Proc, job' = [job EXCEPT ![p] = Idle]
  PROVE  Stops(p)
<1>1. OnlyMoves(p) /\ job'[p] = Idle
  BY JobFacts
<1>2. QED
  BY <1>1 DEF Stops, Idle

Reads(p, r) ==
  /\ OnlyMoves(p) /\ job[p] \in Job /\ job[p].stage = "next"
  /\ r \in Firsts(job[p].plan) /\ r \in job[p].plan /\ r \in Record
  /\ job'[p].stage = IF r.kind = "unchanged" THEN "contains" ELSE "version"
  /\ job'[p].plan = job[p].plan /\ job'[p].level = job[p].level
  /\ job'[p].commit = job[p].commit /\ job'[p].upto = job[p].upto
  /\ job'[p].rows = {nodes[id] : id \in {r.id} \cap DOMAIN nodes}
  /\ Item(job[p])' = r

LEMMA ReadNodeDoes ==
  ASSUME IInv, NEW p \in Proc, ReadNode(p)
  PROVE  \E r : Reads(p, r)
<1>1. job[p] \in Job /\ job[p].stage = "next"
  BY JobFacts DEF ReadNode, At
<1>2. PICK r \in Firsts(job[p].plan) :
        job' = [job EXCEPT
          ![p].stage = IF r.kind = "unchanged" THEN "contains" ELSE "version",
          ![p].items = {r},
          ![p].rows = {nodes[id] : id \in {r.id} \cap DOMAIN nodes}]
  BY DEF ReadNode, FirstStage
<1>3. PICK rows : rows = {nodes[id] : id \in {r.id} \cap DOMAIN nodes}
  OBVIOUS
<1>4. job' = [job EXCEPT ![p] =
        [job[p] EXCEPT !.stage = IF r.kind = "unchanged" THEN "contains" ELSE "version",
                       !.items = {r}, !.rows = rows]]
  BY <1>2, <1>3 DEF IInv, TypeOK
<1>5. OnlyMoves(p) /\ job'[p] =
        [job[p] EXCEPT !.stage = IF r.kind = "unchanged" THEN "contains" ELSE "version",
                       !.items = {r}, !.rows = rows]
  BY <1>4, JobFacts
<1>6. /\ job'[p].stage = IF r.kind = "unchanged" THEN "contains" ELSE "version"
      /\ job'[p].items = {r} /\ job'[p].rows = rows
      /\ job'[p].plan = job[p].plan /\ job'[p].level = job[p].level
      /\ job'[p].commit = job[p].commit /\ job'[p].upto = job[p].upto
  BY <1>1, <1>5 DEF Job
<1>7. Item(job[p])' = r
  BY <1>6 DEF Item
<1>8. r \in job[p].plan /\ r \in Record
  BY <1>1 DEF Firsts, Job
<1>9. QED
  BY <1>1, <1>3, <1>5, <1>6, <1>7, <1>8 DEF Reads

Resolves(p, plan) ==
  /\ OnlyMoves(p) /\ job[p] \in Job /\ job[p].stage = "resolve"
  /\ job[p].level \in {"file", "symbol"} /\ job[p].commit \in 1..Len(history)
  /\ plan \in Resolutions(Known(job[p].level, job[p].commit),
                          Observed(job[p].level, job[p].commit))
  /\ job'[p].stage = "next" /\ job'[p].plan = plan
  /\ job'[p].level = job[p].level /\ job'[p].commit = job[p].commit
  /\ job'[p].upto = job[p].upto
  /\ stolen' = (stolen \/ Steals(plan, job[p].level, job[p].commit))

LEMMA ResolveDoes ==
  ASSUME IInv, NEW p \in Proc, Resolve(p)
  PROVE  \E plan : Resolves(p, plan)
<1> DEFINE level == job[p].level
           k == job[p].commit
<1>1. job[p] \in Job /\ JobSafe(job[p]) /\ job[p].stage = "resolve"
  BY JobFacts DEF Resolve, At
<1>2. k \in 1..Len(history) /\ level \in {"file", "symbol"}
  BY <1>1 DEF JobSafe, TaskSafe, Job
<1>3. PICK plan \in Resolutions(Known(level, k), Observed(level, k)) :
        /\ job' = [job EXCEPT
             ![p].stage = "next",
             ![p].plan = plan,
             ![p].fileIds = IF level = "file" THEN FileIds(plan) ELSE @]
        /\ stolen' = (stolen \/ Steals(plan, level, k))
  BY DEF Resolve
<1>4. PICK ids : ids = IF level = "file" THEN FileIds(plan) ELSE job[p].fileIds
  OBVIOUS
<1>5. job' = [job EXCEPT ![p] = [job[p] EXCEPT !.stage = "next", !.plan = plan, !.fileIds = ids]]
  BY <1>3, <1>4 DEF IInv, TypeOK
<1>6. OnlyMoves(p) /\ job'[p] = [job[p] EXCEPT !.stage = "next", !.plan = plan, !.fileIds = ids]
  BY <1>5, JobFacts
<1>7. /\ job'[p].stage = "next" /\ job'[p].plan = plan
      /\ job'[p].level = job[p].level /\ job'[p].commit = job[p].commit
      /\ job'[p].upto = job[p].upto
  BY <1>1, <1>6 DEF Job
<1>8. QED
  BY <1>1, <1>2, <1>3, <1>6, <1>7 DEF Resolves

NextLevelMoves(p) ==
  /\ OnlyMoves(p) /\ job[p] \in Job
  /\ job[p].stage = "next" /\ job[p].plan = {} /\ job[p].level = "file"
  /\ job'[p].stage = "resolve" /\ job'[p].plan = {} /\ job'[p].level = "symbol"
  /\ job'[p].commit = job[p].commit /\ job'[p].upto = job[p].upto

LEMMA NextLevelDoes ==
  ASSUME IInv, NEW p \in Proc, NextLevel(p)
  PROVE  NextLevelMoves(p)
<1>1. job[p] \in Job
  BY JobFacts
<1>2. /\ job[p].stage = "next" /\ job[p].plan = {} /\ job[p].level = "file"
      /\ job' = [job EXCEPT ![p] = [job[p] EXCEPT !.stage = "resolve", !.level = "symbol"]]
  BY <1>1 DEF NextLevel, At, IInv, TypeOK
<1>3. /\ OnlyMoves(p)
      /\ job'[p] = [job[p] EXCEPT !.stage = "resolve", !.level = "symbol"]
  BY <1>2, JobFacts
<1>4. /\ job'[p].stage = "resolve" /\ job'[p].level = "symbol" /\ job'[p].plan = job[p].plan
      /\ job'[p].commit = job[p].commit /\ job'[p].upto = job[p].upto
  BY <1>1, <1>3 DEF Job
<1>5. QED
  BY <1>1, <1>2, <1>3, <1>4 DEF NextLevelMoves

\* What a node row becomes; a row read by a process that ingests alone is still there.
PutsNode(p) ==
  LET r == Item(job[p])
  IN  /\ DOMAIN nodes' = DOMAIN nodes \cup {r.id}
      /\ \A id \in DOMAIN nodes \ {r.id} : nodes'[id] = nodes[id]
      /\ nodes'[r.id].current = ItemVersion(job[p])
      /\ Stays(r) => nodes'[r.id].path = r.path
      /\ ~Stays(r) => r.id \in DOMAIN nodes /\ nodes'[r.id].path = nodes[r.id].path

LEMMA PutNodeDoes ==
  ASSUME IInv, NEW p \in Proc, PutNode(p), RowRead(job[p])
  PROVE  PutsNode(p)
<1> DEFINE j == job[p]
           r == Item(j)
<1>1. j.stage = "node" /\ j.stage \in Recording
  BY DEF PutNode, At, Recording
<1>2. PICK row : row = IF r.kind = "deleted" THEN Tombstone(j)
                       ELSE [path |-> r.path, parent |-> ParentOf(j), current |-> ItemVersion(j)]
  OBVIOUS
<1>3. nodes' = InsertOrReplace(nodes, r.id, row)
  BY <1>2 DEF PutNode
<1>4. /\ DOMAIN nodes' = DOMAIN nodes \cup {r.id} /\ nodes'[r.id] = row
      /\ \A id \in DOMAIN nodes \ {r.id} : nodes'[id] = nodes[id]
  BY <1>3 DEF InsertOrReplace
<1>5. CASE r.kind = "deleted"
  <2>1. j.rows # {} /\ j.rows = {nodes[id] : id \in {r.id} \cap DOMAIN nodes}
    BY <1>1, <1>5, WritingFacts DEF JobSafe, ItemSafe, RowRead
  <2>2. r.id \in DOMAIN nodes /\ j.rows = {nodes[r.id]}
    BY <2>1
  <2>3. Row(j) = nodes[r.id] /\ nodes[r.id] \in NodeRow
    BY <2>2 DEF Row, IInv, TypeOK, StoreOK, IsTable
  <2>4. row.current = ItemVersion(j) /\ row.path = nodes[r.id].path
    BY <1>2, <1>5, <2>3 DEF Tombstone, NodeRow
  <2>5. QED
    BY <1>4, <1>5, <2>2, <2>4 DEF PutsNode, Stays
<1>6. CASE r.kind # "deleted"
  <2>1. row.current = ItemVersion(j) /\ row.path = r.path
    BY <1>2, <1>6
  <2>2. QED
    BY <1>4, <1>6, <2>1 DEF PutsNode, Stays
<1>7. QED
  BY <1>5, <1>6

-----------------------------------------------------------------------------
(***************************************************************************)
(* As long as ingests do not overlap, a file path has one node.            *)
(***************************************************************************)
\* A step of a process that is alone keeps the invariant, given what it says of that process.
LEMMA LoneKeeps ==
  ASSUME LoneInv, NEW p \in Proc, OnlyMoves(p), Alone(p), LevelsKept', FilesApart',
         PlanLevel(job[p])', PlanApart(job[p])', RowRead(job[p])'
  PROVE  LoneInv'
<1>1. \A q \in Proc \ {p} : job'[q] = job[q] /\ job[q].stage = "idle"
  BY DEF OnlyMoves, Alone, At
<1>2. Sole'
  BY <1>1 DEF Sole, Active, At
<1>3. \A q \in Proc \ {p} : job'[q].plan = {} /\ job'[q].stage = "idle"
  BY <1>1 DEF LoneInv, PlanLevel, Recording
<1>4. \A q \in Proc \ {p} : (PlanLevel(job[q]) /\ PlanApart(job[q]) /\ RowRead(job[q]))'
  BY <1>3 DEF PlanLevel, PlanApart, RowRead
<1>5. QED
  BY <1>2, <1>4 DEF LoneInv

\* A step that leaves the nodes alone and adds nothing to the plan.
LEMMA LoneQuiet ==
  ASSUME LoneInv, NEW p \in Proc, OnlyMoves(p), Alone(p), UNCHANGED nodes,
         job'[p].plan \subseteq job[p].plan,
         job'[p].plan # {} => /\ job'[p].level = job[p].level
                              /\ job'[p].stage \in Recording \cup {"next"},
         RowRead(job[p])'
  PROVE  LoneInv'
<1>1. LevelsKept' /\ FilesApart'
  BY DEF LoneInv, LevelsKept, FilesApart
<1>2. PlanLevel(job[p])'
  BY DEF LoneInv, PlanLevel
<1>3. PlanApart(job[p])'
  BY DEF LoneInv, PlanApart
<1>4. QED
  BY <1>1, <1>2, <1>3, LoneKeeps

\* What resolution relies on, given a graph whose nodes keep their level.
LEMMA ResolvedLevel ==
  ASSUME IInv, LevelsKept, NEW p \in Proc, NEW plan, Resolves(p, plan)
  PROVE  /\ UniqueIds(Known(job[p].level, job[p].commit))
         /\ Known(job[p].level, job[p].commit) \in SUBSET KnownRecord
         /\ Observed(job[p].level, job[p].commit) \in SUBSET SeenRecord
         /\ \A r \in plan : LevelOf(r.id) = job[p].level
         /\ \A r \in plan : Stays(r) =>
              LevelOf(r) = job[p].level /\ r.path.file \in Present(job[p].commit)
<1>1. PICK level, k : level = job[p].level /\ k = job[p].commit
  OBVIOUS
<1>2. /\ level \in {"file", "symbol"} /\ k \in 1..Len(history)
      /\ plan \in Resolutions(Known(level, k), Observed(level, k))
  BY <1>1 DEF Resolves
<1>3. /\ Known(level, k) \subseteq KnownRecord /\ UniqueIds(Known(level, k))
      /\ Observed(level, k) \subseteq SeenRecord
      /\ \A o \in Observed(level, k) : o.path.file \in Present(k) /\ LevelOf(o) = level
  BY <1>2, KnownFacts, KnownIdsApart, ObservedFacts, ObservedLevel DEF IInv
<1>4. /\ \A r \in plan : Stays(r) => Seen(r) \in Observed(level, k)
      /\ \A r \in plan : r.kind = "added" => r.id = Derive(r.path, r.fp)
      /\ \A r \in plan : r.kind # "added" => \E n \in Known(level, k) : n.id = r.id
  BY <1>2, <1>3, PlanFacts
<1>5. \A r \in plan : Stays(r) => LevelOf(r) = level /\ r.path.file \in Present(k)
  BY <1>3, <1>4 DEF Seen, LevelOf
<1>6. \A n \in Known(level, k) : LevelOf(n.id) = level
  BY DEF Known, LevelOf
<1>7. ASSUME NEW r \in plan PROVE LevelOf(r.id) = level
  <2>1. CASE r.kind = "added"
    <3>1. Stays(r)
      BY <2>1 DEF Stays
    <3>2. r.id = Derive(r.path, r.fp)
      BY <1>4, <2>1
    <3>3. r.id.path = r.path
      BY <3>2 DEF Derive
    <3>4. QED
      BY <1>5, <3>1, <3>3 DEF LevelOf
  <2>2. CASE r.kind # "added"
    BY <1>4, <1>6, <2>2
  <2>3. QED
    BY <2>1, <2>2
<1>8. QED
  BY <1>1, <1>3, <1>5, <1>7

\* Resolving keeps it: the plan of files has one record per path.
LEMMA LoneResolve ==
  ASSUME IInv, LoneInv, NEW p \in Proc, Alone(p), NEW plan, Resolves(p, plan),
         UNCHANGED nodes
  PROVE  LoneInv'
<1>1. PICK level, k : level = job[p].level /\ k = job[p].commit
  OBVIOUS
<1>2. /\ k \in 1..Len(history)
      /\ plan \in Resolutions(Known(level, k), Observed(level, k))
      /\ OnlyMoves(p) /\ job'[p].stage = "next" /\ job'[p].plan = plan /\ job'[p].level = level
  BY <1>1 DEF Resolves
<1>3. /\ UniqueIds(Known(level, k)) /\ Known(level, k) \in SUBSET KnownRecord
      /\ Observed(level, k) \in SUBSET SeenRecord
      /\ \A r \in plan : LevelOf(r.id) = level
      /\ \A r \in plan : Stays(r) => LevelOf(r) = level /\ r.path.file \in Present(k)
  BY <1>1, ResolvedLevel DEF LoneInv
<1>4. LevelsKept' /\ FilesApart'
  BY DEF LoneInv, LevelsKept, FilesApart
<1>5. PlanLevel(job[p])'
  BY <1>2, <1>3 DEF PlanLevel
<1>6. PlanApart(job[p])'
  <2>1. SUFFICES ASSUME level = "file" PROVE PlanApart(job[p])'
    BY <1>2 DEF PlanApart
  <2>2. \A o, q \in Observed(level, k) : o.path = q.path => o = q
    BY <1>2, <2>1, ObservedLevel DEF IInv
  <2>3. \A m, n \in Known(level, k) : m.path = n.path => m = n
    BY <2>1 DEF Known, LoneInv, FilesApart
  <2>4. /\ \A r, s \in plan : Stays(r) /\ Stays(s) /\ r.path = s.path => r = s
        /\ \A r \in plan : Stays(r) => \A n \in Known(level, k) : n.path = r.path => n.id = r.id
    BY <1>2, <1>3, <2>2, <2>3, ApartFacts
  <2>5. ASSUME NEW r \in plan, Stays(r), NEW id \in DOMAIN nodes, nodes[id].path = r.path
        PROVE  id = r.id
    <3>1. LevelOf(r) = level /\ r.path.file \in Changed(k)
      BY <1>3, <2>5 DEF Present
    <3>2. LevelOf(id) = level
      BY <3>1, <2>5 DEF LoneInv, LevelsKept, LevelOf
    <3>3. PICK n : n = [id |-> id, path |-> nodes[id].path, fp |-> PrintOf(id)]
      OBVIOUS
    <3>4. n \in Known(level, k) /\ n.path = r.path /\ n.id = id
      BY <2>5, <3>1, <3>2, <3>3 DEF Known, Container
    <3>5. QED
      BY <2>4, <2>5, <3>4
  <2>6. QED
    BY <1>2, <2>4, <2>5 DEF PlanApart
<1>7. RowRead(job[p])'
  BY <1>2 DEF RowRead
<1>8. QED
  BY <1>2, <1>4, <1>5, <1>6, <1>7, LoneKeeps

\* Writing a node keeps it: a record of a file is for the node at its path.
LEMMA LonePut ==
  ASSUME IInv, LoneInv, NEW p \in Proc, Alone(p), job[p].stage \in Recording,
         PutsNode(p), NEW s \in Recording \ {"version", "node"}, MovesTo(p, s)
  PROVE  LoneInv'
<1>1. PICK r : r = Item(job[p])
  OBVIOUS
<1>2. r \in job[p].plan /\ LevelOf(r.id) = job[p].level
      /\ (Stays(r) => LevelOf(r) = job[p].level)
  BY <1>1, WritingFacts DEF LoneInv, PlanLevel
<1>3. /\ DOMAIN nodes' = DOMAIN nodes \cup {r.id}
      /\ \A id \in DOMAIN nodes \ {r.id} : nodes'[id] = nodes[id]
      /\ Stays(r) => nodes'[r.id].path = r.path
      /\ ~Stays(r) => r.id \in DOMAIN nodes /\ nodes'[r.id].path = nodes[r.id].path
  BY <1>1 DEF PutsNode
<1>4. OnlyMoves(p) /\ job'[p].plan = job[p].plan /\ job'[p].level = job[p].level /\ job'[p].stage = s
  BY DEF MovesTo
<1>5. LevelsKept'
  <2>1. ASSUME NEW id \in DOMAIN nodes' PROVE LevelOf(nodes'[id]) = LevelOf(id)
    <3>1. CASE id # r.id
      BY <1>3, <2>1, <3>1 DEF LoneInv, LevelsKept
    <3>2. CASE id = r.id /\ Stays(r)
      BY <1>2, <1>3, <3>2 DEF LevelOf
    <3>3. CASE id = r.id /\ ~Stays(r)
      BY <1>3, <3>3 DEF LoneInv, LevelsKept, LevelOf
    <3>4. QED
      BY <3>1, <3>2, <3>3
  <2>2. QED
    BY <2>1 DEF LevelsKept, LevelOf
<1>6. CASE Stays(r)
  <2>1. job[p].level = "file" =>
          /\ \A t \in job[p].plan : Stays(t) /\ t.path = r.path => t = r
          /\ \A id \in DOMAIN nodes : nodes[id].path = r.path => id = r.id
    BY <1>2, <1>6 DEF LoneInv, PlanApart
  <2>2. FilesApart'
    <3>1. ASSUME NEW i \in DOMAIN nodes', NEW j \in DOMAIN nodes',
                 nodes'[i].path = nodes'[j].path, LevelOf(i) = "file", LevelOf(j) = "file"
          PROVE  i = j
      <4>1. CASE i # r.id /\ j # r.id
        BY <1>3, <3>1, <4>1 DEF LoneInv, FilesApart
      <4>2. CASE i = r.id \/ j = r.id
        BY <1>2, <1>3, <1>6, <2>1, <3>1, <4>2
      <4>3. QED
        BY <4>1, <4>2
    <3>2. QED
      BY <3>1 DEF FilesApart, LevelOf
  <2>3. PlanApart(job[p])'
    <3>1. ASSUME job[p].level = "file", NEW t \in job[p].plan, Stays(t),
                 NEW id \in DOMAIN nodes', nodes'[id].path = t.path
          PROVE  id = t.id
      <4>1. CASE id # r.id
        BY <1>3, <3>1, <4>1 DEF LoneInv, PlanApart
      <4>2. CASE id = r.id
        BY <1>3, <1>6, <2>1, <3>1, <4>2
      <4>3. QED
        BY <4>1, <4>2
    <3>2. QED
      BY <1>4, <3>1 DEF LoneInv, PlanApart, Stays
  <2>4. PlanLevel(job[p])' /\ RowRead(job[p])'
    BY <1>4 DEF LoneInv, PlanLevel, RowRead, LevelOf, Stays
  <2>5. QED
    BY <1>4, <1>5, <2>2, <2>3, <2>4, LoneKeeps
<1>7. CASE ~Stays(r)
  <2>1. DOMAIN nodes' = DOMAIN nodes /\ \A id \in DOMAIN nodes : nodes'[id].path = nodes[id].path
    BY <1>3, <1>7
  <2>2. FilesApart'
    BY <2>1 DEF LoneInv, FilesApart, LevelOf
  <2>3. PlanApart(job[p])'
    BY <1>4, <2>1 DEF LoneInv, PlanApart, Stays
  <2>4. PlanLevel(job[p])' /\ RowRead(job[p])'
    BY <1>4 DEF LoneInv, PlanLevel, RowRead, LevelOf, Stays
  <2>5. QED
    BY <1>4, <1>5, <2>2, <2>3, <2>4, LoneKeeps
<1>8. QED
  BY <1>6, <1>7

\* Every statement of a lone ingest keeps it.
LEMMA LoneIngest ==
  ASSUME IInv, LoneInv, NEW p \in Proc, Alone(p), Ingest(p) \/ Crash(p)
  PROVE  LoneInv'
<1>1. CASE Start(p)
  <2>1. BeginsAt(p, 1, Len(history)) /\ UNCHANGED nodes
    BY <1>1, BeginDoes DEF Start, graph
  <2>2. QED
    BY <2>1, LoneQuiet DEF BeginsAt, RowRead
<1>2. CASE PutTask(p) \/ AppendTask(p)
  <2>1. \E s \in {"taskRow", "resolve"} : MovesTo(p, s)
    BY <1>2, GoToDoes DEF PutTask, AppendTask
  <2>2. job[p].plan = {} /\ UNCHANGED nodes
    BY <1>2 DEF PutTask, AppendTask, At, LoneInv, PlanLevel, Recording
  <2>3. QED
    BY <2>1, <2>2, LoneQuiet DEF MovesTo, RowRead
<1>3. CASE Resolve(p)
  <2>1. UNCHANGED nodes
    BY <1>3 DEF Resolve, graph
  <2>2. QED
    BY <1>3, <2>1, ResolveDoes, LoneResolve
<1>4. CASE ReadNode(p)
  <2>1. PICK r : Reads(p, r)
    BY <1>4, ReadNodeDoes
  <2>2. UNCHANGED nodes
    BY <1>4 DEF ReadNode, graph
  <2>3. /\ job'[p].plan = job[p].plan /\ job'[p].level = job[p].level /\ OnlyMoves(p)
        /\ job'[p].stage \in Recording
    BY <2>1 DEF Reads, Recording
  <2>4. RowRead(job[p])'
    BY <2>1, <2>2 DEF Reads, RowRead
  <2>5. QED
    BY <2>2, <2>3, <2>4, LoneQuiet
<1>5. CASE AppendVersion(p)
  <2>1. MovesTo(p, "node") /\ UNCHANGED nodes /\ job[p].stage = "version"
    BY <1>5, GoToDoes DEF AppendVersion, At
  <2>2. RowRead(job[p])'
    BY <2>1 DEF LoneInv, RowRead, MovesTo
  <2>3. QED
    BY <2>1, <2>2, LoneQuiet DEF MovesTo, Recording
<1>6. CASE PutNode(p)
  <2>1. job[p].stage \in Recording /\ PutsNode(p)
    BY <1>6, PutNodeDoes DEF PutNode, At, Recording, LoneInv
  <2>2. \E s \in {"succeeds", "print"} : MovesTo(p, s)
    BY <1>6, GoToDoes DEF PutNode
  <2>3. QED
    BY <2>1, <2>2, LonePut DEF Recording
<1>7. CASE PutPrint(p) \/ PutSucceeds(p)
  <2>1. /\ \E s \in {"succeeds", "modifies", "contains"} : MovesTo(p, s)
        /\ UNCHANGED nodes
    BY <1>7, GoToDoes DEF PutPrint, PutSucceeds
  <2>2. QED
    BY <2>1, LoneQuiet DEF MovesTo, RowRead, Recording
<1>8. CASE PutContains(p) \/ PutModifies(p)
  <2>1. UNCHANGED nodes /\ (Done(p) \/ GoTo(p, "modifies")) /\ job[p].stage \in Recording
    BY <1>8 DEF PutContains, PutModifies, At, Recording
  <2>2. DoneMoves(p) \/ MovesTo(p, "modifies")
    BY <2>1, DoneDoes, GoToDoes
  <2>3. QED
    BY <2>1, <2>2, LoneQuiet DEF DoneMoves, MovesTo, RowRead, Recording
<1>9. CASE NextLevel(p)
  <2>1. NextLevelMoves(p) /\ UNCHANGED nodes
    BY <1>9, NextLevelDoes DEF NextLevel, graph
  <2>2. QED
    BY <2>1, LoneQuiet DEF NextLevelMoves, RowRead
<1>10. CASE NextCommit(p)
  <2>1. BeginsAt(p, job[p].commit + 1, job[p].upto) /\ UNCHANGED nodes
    BY <1>10, BeginDoes DEF NextCommit, graph
  <2>2. QED
    BY <2>1, LoneQuiet DEF BeginsAt, RowRead
<1>11. CASE Finish(p) \/ Crash(p)
  <2>1. Stops(p) /\ UNCHANGED nodes
    BY <1>11, IdleDoes DEF Finish, Crash, graph
  <2>2. QED
    BY <2>1, LoneQuiet DEF Stops, RowRead
<1>12. QED
  BY <1>1, <1>2, <1>3, <1>4, <1>5, <1>6, <1>7, <1>8, <1>9, <1>10, <1>11 DEF Ingest

\* A process that steps is the only one in an ingest unless two have overlapped.
LEMMA StepsAlone ==
  ASSUME IInv, Sole, NEW p \in Proc, Ingest(p) \/ Crash(p), ~shared'
  PROVE  ~shared /\ Alone(p)
<1>1. CASE Start(p)
  BY <1>1 DEF Start, Alone
<1>2. CASE ~Start(p)
  <2>1. ~At(p, "idle") /\ shared' = shared
    BY <1>2 DEF Ingest, PutTask, AppendTask, Resolve, ReadNode, AppendVersion, PutNode, PutPrint,
                PutSucceeds, PutContains, PutModifies, NextLevel, NextCommit, Finish, Crash,
                At, ghosts
  <2>2. QED
    BY <2>1 DEF Sole, Active, Alone
<1>3. QED
  BY <1>1, <1>2

\* Every step keeps it, until two ingests overlap.
LEMMA LoneStep ==
  IInv /\ (~shared => LoneInv) /\ [Next]_vars => (~shared => LoneInv)'
<1> SUFFICES ASSUME IInv, ~shared => LoneInv, [Next]_vars, ~shared' PROVE LoneInv'
  OBVIOUS
<1>1. CASE UNCHANGED vars \/ Commit
  <2>1. UNCHANGED <<nodes, job, shared>>
    BY <1>1 DEF vars, graph, Commit, ghosts
  <2>2. QED
    BY <2>1 DEF LoneInv, Sole, Active, At, LevelsKept, FilesApart, PlanLevel, PlanApart, RowRead,
                LevelOf, Stays, Item
<1>2. ASSUME NEW p \in Proc, Ingest(p) \/ Crash(p)
      PROVE  LoneInv'
  <2>1. ~shared
    BY <1>2 DEF Ingest, Start, PutTask, AppendTask, Resolve, ReadNode, AppendVersion, PutNode,
                PutPrint, PutSucceeds, PutContains, PutModifies, NextLevel, NextCommit, Finish,
                Crash, ghosts
  <2>2. QED
    BY <1>2, <2>1, StepsAlone, LoneIngest DEF LoneInv
<1>3. QED
  BY <1>1, <1>2 DEF Next

\* It holds at the start.
LEMMA LoneInit == Init => LoneInv
<1> SUFFICES ASSUME Init PROVE LoneInv
  OBVIOUS
<1>1. DOMAIN nodes = {} /\ \A p \in Proc : job[p].stage = "idle" /\ job[p].plan = {}
  BY DEF Init, EmptyTable, Idle
<1>2. QED
  BY <1>1 DEF LoneInv, Sole, Active, At, LevelsKept, FilesApart, PlanLevel, PlanApart, RowRead

\* As long as two ingests do not overlap, a path of a file has one node at most,
\* whatever crashes and re-ingests there were.
THEOREM OneNodePerFile == Spec => []UniqueFilePath
<1>1. Init => (~shared => LoneInv)
  BY LoneInit
<1>2. (~shared => LoneInv) => UniqueFilePath
  BY DEF LoneInv, FilesApart, UniqueFilePath
<1>3. QED
  BY <1>1, <1>2, LoneStep, Invariance, PTL DEF Spec

-----------------------------------------------------------------------------
(***************************************************************************)
(* The trees of the history.                                               *)
(***************************************************************************)
\* Of some commits there is a last one.
LEMMA LastOfSome ==
  ASSUME NEW k \in Nat, NEW S \in SUBSET (1..k), S # {}
  PROVE  \E i \in S : \A j \in S : j <= i
<1>1. PICK D : D = {k - i : i \in S}
  OBVIOUS
<1>2. D \subseteq Nat /\ D # {}
  <2>1. \A i \in S : i \in 1..k
    OBVIOUS
  <2>2. \A i \in S : k - i \in Nat
    BY <2>1
  <2>3. QED
    BY <1>1, <2>2
<1>3. PICK d \in D : \A e \in D : <<e, d>> \notin OpToRel(<, Nat)
  BY <1>2, NatLessThanWellFounded, WFMin
<1>4. ASSUME NEW e \in D PROVE ~(e < d)
  <2>1. SUFFICES ASSUME e < d PROVE FALSE
    OBVIOUS
  <2>2. <<e, d>> \in Nat \X Nat /\ <<e, d>>[1] < <<e, d>>[2]
    BY <1>2, <2>1
  <2>3. <<e, d>> \in OpToRel(<, Nat)
    BY <2>2 DEF OpToRel
  <2>4. QED
    BY <1>3, <2>3
<1>5. PICK i \in S : d = k - i
  BY <1>1
<1>6. ASSUME NEW j \in S PROVE j <= i
  <2>1. k - j \in D
    BY <1>1
  <2>2. ~(k - j < k - i)
    BY <1>4, <1>5, <2>1
  <2>3. i \in Nat /\ j \in Nat
    OBVIOUS
  <2>4. QED
    BY <2>2, <2>3
<1>7. QED
  BY <1>6

LastTouch(f, k) == CHOOSE i \in Touches(f, k) : \A j \in Touches(f, k) : j <= i

\* A file in the tree of a commit is as the last commit that touched it left it.
LEMMA TreeAt ==
  ASSUME NEW f \in File, NEW k
  PROVE  Tree(k)[f] = IF Touches(f, k) = {} THEN Absent ELSE history[LastTouch(f, k)][f]
BY DEF Tree, LastTouch

\* A tree is the one before it, overridden by the commit.
LEMMA TreeFacts ==
  ASSUME NEW k \in Nat, NEW f \in File
  PROVE  /\ f \in Changed(k) /\ k # 0 => Tree(k)[f] = history[k][f]
         /\ f \notin Changed(k) /\ k # 0 => Tree(k)[f] = Tree(k - 1)[f]
         /\ Tree(0)[f] = Absent
<1>1. ASSUME f \in Changed(k), k # 0 PROVE Tree(k)[f] = history[k][f]
  <2>1. k \in Touches(f, k) /\ \A j \in Touches(f, k) : j <= k
    BY <1>1 DEF Touches, Changed
  <2>2. Touches(f, k) \subseteq Nat
    BY DEF Touches
  <2>3. /\ LastTouch(f, k) \in Touches(f, k)
        /\ \A j \in Touches(f, k) : j <= LastTouch(f, k)
    BY <2>1 DEF LastTouch
  <2>4. LastTouch(f, k) <= k /\ k <= LastTouch(f, k) /\ LastTouch(f, k) \in Nat
    BY <2>1, <2>2, <2>3
  <2>5. LastTouch(f, k) = k
    BY <2>4
  <2>6. QED
    BY <2>1, <2>5, TreeAt
<1>2. ASSUME f \notin Changed(k), k # 0 PROVE Tree(k)[f] = Tree(k - 1)[f]
  <2>1. 1..k = (1..(k - 1)) \cup {k}
    BY <1>2
  <2>2. Touches(f, k) = Touches(f, k - 1)
    BY <1>2, <2>1 DEF Touches, Changed
  <2>3. QED
    BY <2>2, TreeAt DEF LastTouch
<1>3. Tree(0)[f] = Absent
  <2>1. Touches(f, 0) = {}
    BY DEF Touches
  <2>2. QED
    BY <2>1, TreeAt
<1>4. QED
  BY <1>1, <1>2, <1>3

\* A commit leaves the trees before it as they are.
LEMMA TreeKept ==
  ASSUME TypeOK, NEW k \in 0..Len(history),
         \A i \in 1..Len(history) : history'[i] = history[i]
  PROVE  Tree(k)' = Tree(k)
<1>1. k \in Nat /\ Len(history) \in Nat /\ 1..k \subseteq 1..Len(history)
  BY DEF TypeOK
<1>2. ASSUME NEW f \in File PROVE Tree(k)'[f] = Tree(k)[f]
  <2>1. Touches(f, k)' = Touches(f, k)
    BY <1>1 DEF Touches
  <2>2. CASE Touches(f, k) = {}
    BY <2>1, <2>2 DEF Tree
  <2>3. CASE Touches(f, k) # {}
    <3>1. Touches(f, k) \subseteq 1..k
      BY DEF Touches
    <3>2. \E i \in Touches(f, k) : \A j \in Touches(f, k) : j <= i
      BY <1>1, <2>3, <3>1, LastOfSome
    <3>3. LastTouch(f, k) \in Touches(f, k)
      BY <3>2 DEF LastTouch
    <3>4. history'[LastTouch(f, k)] = history[LastTouch(f, k)]
      BY <1>1, <3>1, <3>3
    <3>5. Tree(k)'[f] = history'[LastTouch(f, k)][f]
      BY <2>1, <2>3 DEF Tree, LastTouch
    <3>6. QED
      BY <2>3, <3>4, <3>5, TreeAt
  <2>4. QED
    BY <2>2, <2>3
<1>3. Tree(k)' = [f \in File |-> Tree(k)'[f]] /\ Tree(k) = [f \in File |-> Tree(k)[f]]
  BY DEF Tree
<1>4. [f \in File |-> Tree(k)'[f]] = [f \in File |-> Tree(k)[f]]
  BY <1>2
<1>5. QED
  BY <1>3, <1>4

\* The same tree has the same nodes.
LEMMA TreeObservedKept ==
  ASSUME NEW k, Tree(k)' = Tree(k)
  PROVE  TreeObserved(k)' = TreeObserved(k) /\ TreePaths(k)' = TreePaths(k)
BY DEF TreeObserved, Held, TreePaths

\* What is seen of a tree is what is seen of the commit, and of the tree before it.
LEMMA TreeObservedFacts ==
  ASSUME TypeOK, NEW k \in 1..Len(history)
  PROVE  /\ \A o \in TreeObserved(k) : o.path.file \in File /\ Tree(k)[o.path.file] # Absent
         /\ \A o \in TreeObserved(k) : LevelOf(o) \in {"file", "symbol"}
         /\ \A o \in TreeObserved(k) : o.path.file \in Changed(k) => o \in Observed(LevelOf(o), k)
         /\ \A o \in TreeObserved(k) : o.path.file \notin Changed(k) => o \in TreeObserved(k - 1)
         /\ \A level \in {"file", "symbol"} : Observed(level, k) \subseteq TreeObserved(k)
<1>1. k \in Nat /\ k # 0
  OBVIOUS
<1>2. ASSUME NEW o \in TreeObserved(k)
      PROVE  \E f \in File : /\ Tree(k)[f] # Absent /\ o.path.file = f
                             /\ \/ o = FileSeen(f, Tree(k)[f])
                                \/ o \in SymbolsSeen(f, Tree(k)[f])
  <2>1. \A f, c : FileSeen(f, c).path.file = f /\ \A q \in SymbolsSeen(f, c) : q.path.file = f
    BY DEF FileSeen, FilePath, SymbolsSeen
  <2>2. \E f \in Held(k) : o = FileSeen(f, Tree(k)[f]) \/ o \in SymbolsSeen(f, Tree(k)[f])
    BY DEF TreeObserved
  <2>3. QED
    BY <2>1, <2>2 DEF Held
<1>3. ASSUME NEW o \in TreeObserved(k), o.path.file \in Changed(k)
      PROVE  o \in Observed(LevelOf(o), k)
  <2>1. PICK f \in File : /\ Tree(k)[f] # Absent /\ o.path.file = f
                          /\ \/ o = FileSeen(f, Tree(k)[f])
                             \/ o \in SymbolsSeen(f, Tree(k)[f])
    BY <1>2
  <2>2. Tree(k)[f] = history[k][f] /\ f \in Present(k)
    BY <1>1, <1>3, <2>1, TreeFacts DEF Present
  <2>3. CASE o = FileSeen(f, Tree(k)[f])
    <3>1. o \in Observed("file", k)
      BY <2>2, <2>3 DEF Observed
    <3>2. QED
      BY <3>1, ObservedLevel
  <2>4. CASE o \in SymbolsSeen(f, Tree(k)[f])
    <3>1. o \in Observed("symbol", k)
      BY <2>2, <2>4 DEF Observed
    <3>2. QED
      BY <3>1, ObservedLevel
  <2>5. QED
    BY <2>1, <2>3, <2>4
<1>4. ASSUME NEW o \in TreeObserved(k), o.path.file \notin Changed(k)
      PROVE  o \in TreeObserved(k - 1)
  <2>1. PICK f \in File : /\ Tree(k)[f] # Absent /\ o.path.file = f
                          /\ \/ o = FileSeen(f, Tree(k)[f])
                             \/ o \in SymbolsSeen(f, Tree(k)[f])
    BY <1>2
  <2>2. Tree(k)[f] = Tree(k - 1)[f]
    BY <1>1, <1>4, <2>1, TreeFacts
  <2>3. f \in Held(k - 1)
    BY <2>1, <2>2 DEF Held
  <2>4. QED
    BY <2>1, <2>2, <2>3 DEF TreeObserved
<1>5. ASSUME NEW level \in {"file", "symbol"}, NEW o \in Observed(level, k)
      PROVE  o \in TreeObserved(k)
  <2>1. PICK f \in Present(k) : \/ o = FileSeen(f, history[k][f])
                                \/ o \in SymbolsSeen(f, history[k][f])
    <3>1. CASE level = "file"
      BY <3>1 DEF Observed
    <3>2. CASE level # "file"
      <4>1. o \in UNION {SymbolsSeen(f, history[k][f]) : f \in Present(k)}
        BY <3>2 DEF Observed
      <4>2. QED
        BY <4>1
    <3>3. QED
      BY <3>1, <3>2
  <2>2. f \in File
    <3>1. history[k] \in Change
      BY DEF TypeOK
    <3>2. DOMAIN history[k] \subseteq File
      BY <3>1 DEF Change
    <3>3. QED
      BY <3>2 DEF Present, Changed
  <2>3. Tree(k)[f] = history[k][f] /\ Tree(k)[f] # Absent
    BY <1>1, <2>2, TreeFacts DEF Present
  <2>4. f \in Held(k)
    BY <2>2, <2>3 DEF Held
  <2>5. QED
    BY <2>1, <2>3, <2>4 DEF TreeObserved
<1>6. \A o : LevelOf(o) \in {"file", "symbol"}
  BY DEF LevelOf
<1>7. QED
  BY <1>2, <1>3, <1>4, <1>5, <1>6

\* Before the first commit there are none.
LEMMA NothingObserved == TreeObserved(0) = {}
<1>1. \A f \in File : Tree(0)[f] = Absent
  BY TreeFacts
<1>2. QED
  BY <1>1 DEF TreeObserved, Held

-----------------------------------------------------------------------------
(***************************************************************************)
(* A lone ingest meets the tree of the commit it is at.                    *)
(***************************************************************************)
\* A step short of the end keeps the graph on its way to HEAD.
LEMMA HeadKeeps ==
  ASSUME TypeOK, LoneInv, HeadInv, NEW p \in Proc, OnlyMoves(p), Alone(p), UNCHANGED history,
         synced' = 0, JobMet(job[p])'
  PROVE  HeadInv'
<1>1. \A q \in Proc \ {p} : job'[q] = job[q] /\ job[q].stage = "idle"
  BY DEF OnlyMoves, Alone, At
<1>2. \A q \in Proc \ {p} : job'[q].plan = {} /\ job'[q].stage = "idle"
  BY <1>1 DEF LoneInv, PlanLevel, Recording
<1>3. \A q \in Proc \ {p} : JobMet(job[q])'
  BY <1>2 DEF JobMet, TreeMet, IdsApart, ItemWritten, Recording
<1>4. TreeObserved(0)' = {}
  <2>1. \A f \in File : Touches(f, 0)' = {}
    BY DEF Touches
  <2>2. \A f \in File : Tree(0)'[f] = Absent
    BY <2>1 DEF Tree
  <2>3. QED
    BY <2>2 DEF TreeObserved, Held
<1>5. 0 \in 0..Len(history)
  BY DEF TypeOK
<1>6. TreeObserved(synced)' = {}
  BY <1>4 DEF TreeObserved, Held, Tree, Touches
<1>7. SyncedMet'
  BY <1>5, <1>6 DEF SyncedMet
<1>8. QED
  BY <1>3, <1>7 DEF HeadInv

\* A step to another stage of the same plan, with the nodes and prints as they were.
LEMMA MetStage ==
  ASSUME NEW p \in Proc, NEW k, UNCHANGED <<history, nodes, prints>>,
         job[p].stage # "idle", job[p].commit = k, JobMet(job[p]),
         job'[p].plan = job[p].plan, job'[p].commit = k,
         \A level : Unresolved(job[p], level) => Unresolved(job'[p], level),
         ItemWritten(job'[p])
  PROVE  JobMet(job[p])'
<1>1. \A o : Met(job[p], o) => Met(job'[p], o)
  BY DEF Met, Holds, Safe
<1>2. \A o : Met(job'[p], o) => Met(job[p], o)'
  BY DEF Met, Holds, Safe, PrintOf, Changed, Unresolved, LevelOf, Stays
<1>3. TreeObserved(k)' = TreeObserved(k) /\ TreeObserved(job[p].commit)' = TreeObserved(k)
  BY DEF TreeObserved, Held, Tree, Touches
<1>4. TreeMet(job[p])'
  BY <1>1, <1>2, <1>3 DEF JobMet, TreeMet
<1>5. IdsApart(job[p])'
  BY DEF JobMet, IdsApart, Holds, PrintOf, Stays
<1>6. ItemWritten(job[p])'
  BY DEF ItemWritten, Item, PrintOf
<1>7. QED
  BY <1>4, <1>5, <1>6 DEF JobMet

\* Starting on a commit: what the tree before held is still met, but for what it changes.
LEMMA MetBegin ==
  ASSUME TypeOK, NEW p \in Proc, NEW k \in 1..Len(history), NEW n, BeginsAt(p, k, n),
         UNCHANGED <<history, nodes, prints>>,
         \A o \in TreeObserved(k - 1) : \E id \in DOMAIN nodes : Holds(id, o)
  PROVE  JobMet(job[p])'
<1>1. /\ job'[p].stage = "task" /\ job'[p].plan = {} /\ job'[p].level = "file"
      /\ job'[p].commit = k
  BY DEF BeginsAt
<1>2. TreeObserved(job[p].commit)' = TreeObserved(k)
  BY <1>1 DEF TreeObserved, Held, Tree, Touches
<1>3. ASSUME NEW o \in TreeObserved(k) PROVE Met(job[p], o)'
  <2>1. CASE o.path.file \in Changed(k)
    <3>1. LevelOf(o) \in {"file", "symbol"} /\ Changed(k)' = Changed(k)
      BY DEF LevelOf, Changed
    <3>2. Unresolved(job'[p], LevelOf(o))
      BY <1>1, <3>1 DEF Unresolved
    <3>3. QED
      BY <1>1, <2>1, <3>1, <3>2 DEF Met, Unresolved, LevelOf
  <2>2. CASE o.path.file \notin Changed(k)
    <3>1. PICK id \in DOMAIN nodes : Holds(id, o)
      BY <2>2, TreeObservedFacts
    <3>2. (Holds(id, o) /\ Safe(job[p], id))'
      BY <1>1, <3>1 DEF Holds, Safe, PrintOf
    <3>3. QED
      BY <3>1, <3>2 DEF Met
  <2>3. QED
    BY <2>1, <2>2
<1>4. TreeMet(job[p])'
  BY <1>2, <1>3 DEF TreeMet
<1>5. (IdsApart(job[p]) /\ ItemWritten(job[p]))'
  BY <1>1 DEF IdsApart, ItemWritten, Recording
<1>6. QED
  BY <1>4, <1>5 DEF JobMet

\* With the plan of symbols written, nothing of the tree is left to meet.
LEMMA MetAll ==
  ASSUME NEW j, j.stage = "next", j.plan = {}, j.level = "symbol", TreeMet(j)
  PROVE  \A o \in TreeObserved(j.commit) : \E id \in DOMAIN nodes : Holds(id, o)
BY DEF TreeMet, Met, Unresolved

\* Resolving a level: what was unresolved is met by a record.
LEMMA MetResolve ==
  ASSUME IInv, LoneInv, NEW p \in Proc, NEW plan, Resolves(p, plan), JobMet(job[p]),
         UNCHANGED <<history, nodes, prints>>, ~stolen'
  PROVE  JobMet(job[p])'
<1>1. PICK level, k : level = job[p].level /\ k = job[p].commit
  OBVIOUS
<1>2. /\ k \in 1..Len(history) /\ level \in {"file", "symbol"} /\ ~Steals(plan, level, k)
      /\ plan \in Resolutions(Known(level, k), Observed(level, k))
      /\ OnlyMoves(p) /\ job'[p].stage = "next" /\ job'[p].plan = plan
      /\ job'[p].level = level /\ job'[p].commit = k /\ job[p].stage = "resolve"
  BY <1>1 DEF Resolves
<1>3. /\ UniqueIds(Known(level, k)) /\ Known(level, k) \in SUBSET KnownRecord
      /\ Observed(level, k) \in SUBSET SeenRecord
      /\ \A r \in plan : LevelOf(r.id) = level
  BY <1>1, ResolvedLevel DEF LoneInv
<1>4. /\ \A o \in Observed(level, k) : \E r \in plan : Stays(r) /\ r.path = o.path /\ r.fp = o.fp
      /\ \A r \in plan : r.kind = "added" => r.id = Derive(r.path, r.fp)
      /\ \A r \in plan : r.kind # "added" => \E n \in Known(level, k) : n.id = r.id
      /\ \A r \in plan : r.kind = "unchanged" =>
           \E n \in Known(level, k) : n.id = r.id /\ n.path = r.path /\ n.fp = r.fp
      /\ \A r, s \in plan : r.kind # "added" /\ s.kind # "added" /\ r.id = s.id => r = s
  BY <1>2, <1>3, PlanFacts
<1>5. \A n \in Known(level, k) :
        /\ n.id \in DOMAIN nodes /\ n.path = nodes[n.id].path /\ n.fp = PrintOf(n.id)
        /\ nodes[n.id].path.file \in Changed(k)
  BY DEF Known, Container
<1>6. plan \subseteq Record
  BY <1>2, <1>3, ResolutionFacts
<1>7. \A r \in plan : r.kind = "added" /\ r.id \in DOMAIN nodes =>
        /\ Tree(k)[nodes[r.id].path.file] = Absent
        /\ \A s \in plan : Stays(s) /\ s.id = r.id => s = r
  BY <1>2 DEF Steals, Stays
<1>8. \A r, s \in plan : Stays(r) /\ Stays(s) /\ r.id = s.id => r = s
  <2>1. SUFFICES ASSUME NEW r \in plan, NEW s \in plan, Stays(r), Stays(s), r.id = s.id
                 PROVE  r = s
    OBVIOUS
  <2>2. CASE r.kind # "added" /\ s.kind # "added"
    BY <1>4, <2>1, <2>2
  <2>3. CASE (r.kind = "added" \/ s.kind = "added") /\ r.id \in DOMAIN nodes
    BY <1>7, <2>1, <2>3
  <2>4. CASE (r.kind = "added" \/ s.kind = "added") /\ r.id \notin DOMAIN nodes
    <3>1. r.kind = "added" /\ s.kind = "added"
      BY <1>4, <1>5, <2>1, <2>4
    <3>2. Derive(r.path, r.fp) = Derive(s.path, s.fp)
      BY <1>4, <2>1, <3>1
    <3>3. r.path = s.path /\ r.fp = s.fp
      BY <3>2 DEF Derive
    <3>4. QED
      BY <1>6, <2>1, <3>1, <3>3 DEF Record
  <2>5. QED
    BY <2>2, <2>3, <2>4
<1>9. \A r \in plan : r.kind = "unchanged" => Holds(r.id, r)
  BY <1>4, <1>5 DEF Holds
<1>10. IdsApart(job[p])'
  BY <1>2, <1>8, <1>9 DEF IdsApart, Holds, PrintOf, Stays
<1>11. ItemWritten(job[p])'
  BY <1>2 DEF ItemWritten, Recording
<1>12. job[p].plan = {}
  BY <1>2 DEF LoneInv, PlanLevel, Recording
<1>13. ASSUME NEW o \in TreeObserved(k) PROVE Met(job[p], o)'
  <2>1. Met(job[p], o)
    BY <1>1, <1>2, <1>13 DEF JobMet, TreeMet
  <2>2. LevelOf(o) \in {"file", "symbol"} /\ Changed(k)' = Changed(k) /\ LevelOf(o)' = LevelOf(o)
    BY DEF LevelOf, Changed
  <2>3. CASE o.path.file \in Changed(k) /\ LevelOf(o) = level
    <3>1. o \in Observed(level, k)
      BY <1>2, <2>3, TreeObservedFacts DEF IInv
    <3>2. QED
      BY <1>2, <1>4, <3>1 DEF Met, Stays
  <2>4. CASE o.path.file \in Changed(k) /\ LevelOf(o) # level /\ level = "file"
    <3>1. Unresolved(job'[p], LevelOf(o))
      BY <1>2, <2>2, <2>4 DEF Unresolved
    <3>2. QED
      BY <1>2, <2>2, <2>4, <3>1 DEF Met, Unresolved
  <2>5. CASE o.path.file \in Changed(k) /\ LevelOf(o) # level /\ level = "symbol"
    <3>1. LevelOf(o) = "file" /\ ~Unresolved(job[p], LevelOf(o))
      BY <1>1, <2>2, <2>5 DEF Unresolved
    <3>2. PICK id \in DOMAIN nodes : Holds(id, o)
      BY <1>12, <2>1, <3>1 DEF Met
    <3>3. LevelOf(id) = "file"
      BY <3>1, <3>2 DEF LoneInv, LevelsKept, Holds, LevelOf
    <3>4. \A r \in plan : r.id # id
      BY <1>3, <2>5, <3>3
    <3>5. (Holds(id, o) /\ Safe(job[p], id))'
      BY <1>2, <3>2, <3>4 DEF Holds, Safe, PrintOf
    <3>6. QED
      BY <3>2, <3>5 DEF Met
  <2>6. CASE o.path.file \notin Changed(k)
    <3>1. PICK id \in DOMAIN nodes : Holds(id, o)
      BY <1>1, <1>12, <2>1, <2>6 DEF Met
    <3>2. nodes[id].path.file \notin Changed(k) /\ Tree(k)[nodes[id].path.file] # Absent
      BY <1>2, <1>13, <2>6, <3>1, TreeObservedFacts DEF Holds, IInv
    <3>3. \A r \in plan : r.id # id
      BY <1>4, <1>5, <1>7, <3>1, <3>2
    <3>4. (Holds(id, o) /\ Safe(job[p], id))'
      BY <1>2, <3>1, <3>3 DEF Holds, Safe, PrintOf
    <3>5. QED
      BY <3>1, <3>4 DEF Met
  <2>7. QED
    BY <1>2, <2>3, <2>4, <2>5, <2>6
<1>14. TreeObserved(job[p].commit)' = TreeObserved(k)
  BY <1>2 DEF TreeObserved, Held, Tree, Touches
<1>15. TreeMet(job[p])'
  BY <1>13, <1>14 DEF TreeMet
<1>16. QED
  BY <1>10, <1>11, <1>15 DEF JobMet

\* Writing a node takes no node from what another path needs.
LEMMA MetPutNode ==
  ASSUME IInv, NEW p \in Proc, job[p].stage = "node", PutsNode(p), UNCHANGED <<history, prints>>,
         JobMet(job[p]), NEW s, s = IF Item(job[p]).kind = "deleted" THEN "succeeds" ELSE "print",
         MovesTo(p, s)
  PROVE  JobMet(job[p])'
<1>1. PICK r, k, plan, level : r = Item(job[p]) /\ k = job[p].commit /\ plan = job[p].plan
                             /\ level = job[p].level
  OBVIOUS
<1>2. r \in plan /\ r.kind # "unchanged"
  BY <1>1, WritingFacts DEF JobSafe, ItemSafe, Recording
<1>3. /\ DOMAIN nodes' = DOMAIN nodes \cup {r.id}
      /\ \A id \in DOMAIN nodes \ {r.id} : nodes'[id] = nodes[id]
      /\ Stays(r) => nodes'[r.id].path = r.path
      /\ ~Stays(r) => r.id \in DOMAIN nodes /\ nodes'[r.id].path = nodes[r.id].path
  BY <1>1 DEF PutsNode
<1>4. /\ job'[p].stage = s /\ job'[p].plan = plan /\ job'[p].commit = k /\ job'[p].level = level
      /\ Item(job[p])' = r /\ job[p].stage = "node"
  BY <1>1 DEF MovesTo
<1>5. /\ \A t, u \in plan : Stays(t) /\ Stays(u) /\ t.id = u.id => t = u
      /\ \A t \in plan : t.kind = "unchanged" => Holds(t.id, t)
  BY <1>1 DEF JobMet, IdsApart
<1>6. ASSUME NEW id \in DOMAIN nodes, NEW o, Holds(id, o), Stays(r) => r.id # id
      PROVE  Holds(id, o)'
  BY <1>3, <1>6 DEF Holds, PrintOf
<1>7. ASSUME NEW o, Met(job[p], o) PROVE Met(job[p], o)'
  <2>1. CASE \E id \in DOMAIN nodes : Holds(id, o) /\ Safe(job[p], id)
    <3>1. PICK id \in DOMAIN nodes : Holds(id, o) /\ \A t \in plan : Stays(t) => t.id # id
      BY <1>1, <2>1 DEF Safe
    <3>2. Holds(id, o)'
      BY <1>2, <1>6, <3>1
    <3>3. Safe(job[p], id)' /\ id \in DOMAIN nodes'
      BY <1>3, <1>4, <3>1 DEF Safe, Stays
    <3>4. QED
      BY <3>2, <3>3 DEF Met
  <2>2. CASE \E t \in plan : Stays(t) /\ t.path = o.path /\ t.fp = o.fp
    BY <1>4, <2>2 DEF Met, Stays
  <2>3. CASE o.path.file \in Changed(k) /\ Unresolved(job[p], LevelOf(o))
    BY <1>1, <1>4, <2>3 DEF Met, Unresolved, Changed, LevelOf
  <2>4. QED
    BY <1>1, <1>7, <2>1, <2>2, <2>3 DEF Met
<1>8. TreeObserved(job[p].commit)' = TreeObserved(k)
  BY <1>4 DEF TreeObserved, Held, Tree, Touches
<1>9. TreeMet(job[p])'
  BY <1>1, <1>4, <1>7, <1>8 DEF TreeMet, JobMet
<1>10. \A t \in plan : t.kind = "unchanged" => Holds(t.id, t)'
  <2>1. SUFFICES ASSUME NEW t \in plan, t.kind = "unchanged" PROVE Holds(t.id, t)'
    OBVIOUS
  <2>2. Holds(t.id, t) /\ t.id \in DOMAIN nodes /\ Stays(t)
    BY <1>5, <2>1 DEF Holds, Stays
  <2>3. Stays(r) => r.id # t.id
    BY <1>2, <1>5, <2>1, <2>2
  <2>4. QED
    BY <1>6, <2>2, <2>3
<1>11. IdsApart(job[p])'
  BY <1>4, <1>5, <1>10 DEF IdsApart, Stays
<1>12. ItemWritten(job[p])'
  BY <1>1, <1>3, <1>4 DEF ItemWritten, Stays
<1>13. QED
  BY <1>9, <1>11, <1>12 DEF JobMet

\* What PutPrint does to the prints.
PutsPrint(p) ==
  /\ Stays(Item(job[p]))
  /\ \A id : PrintOf(id)' = IF id = Item(job[p]).id THEN Item(job[p]).fp ELSE PrintOf(id)

\* What recording a fingerprint does.
LEMMA PutPrintDoes ==
  ASSUME IInv, NEW p \in Proc, PutPrint(p)
  PROVE  PutsPrint(p)
<1>1. PICK r : r = Item(job[p])
  OBVIOUS
<1>2. job[p].stage = "print" /\ prints' = InsertOrReplace(prints, r.id, r.fp)
  BY <1>1 DEF PutPrint, At
<1>3. DOMAIN prints' = DOMAIN prints \cup {r.id} /\ prints'[r.id] = r.fp
      /\ \A id \in DOMAIN prints \ {r.id} : prints'[id] = prints[id]
  BY <1>2 DEF InsertOrReplace
<1>4. r.kind # "deleted"
  BY <1>1, <1>2, WritingFacts DEF JobSafe, ItemSafe, Recording
<1>5. PrintOf(r.id)' = r.fp /\ \A id : id # r.id => PrintOf(id)' = PrintOf(id)
  BY <1>3 DEF PrintOf
<1>6. QED
  BY <1>1, <1>4, <1>5 DEF PutsPrint, Stays

\* Writing a print takes none either.
LEMMA MetPutPrint ==
  ASSUME IInv, NEW p \in Proc, job[p].stage = "print", PutsPrint(p), UNCHANGED <<history, nodes>>,
         JobMet(job[p]), MovesTo(p, "succeeds")
  PROVE  JobMet(job[p])'
<1>1. PICK r, k, plan, level : r = Item(job[p]) /\ k = job[p].commit /\ plan = job[p].plan
                             /\ level = job[p].level
  OBVIOUS
<1>2. r \in plan /\ r.kind # "unchanged" /\ r.kind # "deleted"
  BY <1>1, WritingFacts DEF JobSafe, ItemSafe, Recording
<1>3. Stays(r) /\ PrintOf(r.id)' = r.fp /\ \A id : id # r.id => PrintOf(id)' = PrintOf(id)
  BY <1>1 DEF PutsPrint
<1>4. /\ job'[p].stage = "succeeds" /\ job'[p].plan = plan /\ job'[p].commit = k
      /\ job'[p].level = level /\ Item(job[p])' = r /\ job[p].stage = "print"
  BY <1>1 DEF MovesTo
<1>5. /\ \A t, u \in plan : Stays(t) /\ Stays(u) /\ t.id = u.id => t = u
      /\ \A t \in plan : t.kind = "unchanged" => Holds(t.id, t)
      /\ nodes[r.id].path = r.path
  BY <1>1, <1>2, <1>4 DEF JobMet, IdsApart, ItemWritten, Recording
<1>6. ASSUME NEW id, NEW o, Holds(id, o), r.id # id
      PROVE  Holds(id, o)'
  BY <1>3, <1>6 DEF Holds
<1>7. ASSUME NEW o, Met(job[p], o) PROVE Met(job[p], o)'
  <2>1. CASE \E id \in DOMAIN nodes : Holds(id, o) /\ Safe(job[p], id)
    <3>1. PICK id \in DOMAIN nodes : Holds(id, o) /\ \A t \in plan : Stays(t) => t.id # id
      BY <1>1, <2>1 DEF Safe
    <3>2. Holds(id, o)'
      BY <1>2, <1>3, <1>6, <3>1
    <3>3. Safe(job[p], id)' /\ id \in DOMAIN nodes'
      BY <1>4, <3>1 DEF Safe, Stays
    <3>4. QED
      BY <3>2, <3>3 DEF Met
  <2>2. CASE \E t \in plan : Stays(t) /\ t.path = o.path /\ t.fp = o.fp
    BY <1>4, <2>2 DEF Met, Stays
  <2>3. CASE o.path.file \in Changed(k) /\ Unresolved(job[p], LevelOf(o))
    BY <1>1, <1>4, <2>3 DEF Met, Unresolved, Changed, LevelOf
  <2>4. QED
    BY <1>1, <1>7, <2>1, <2>2, <2>3 DEF Met
<1>8. TreeObserved(job[p].commit)' = TreeObserved(k)
  BY <1>4 DEF TreeObserved, Held, Tree, Touches
<1>9. TreeMet(job[p])'
  BY <1>1, <1>4, <1>7, <1>8 DEF TreeMet, JobMet
<1>10. \A t \in plan : t.kind = "unchanged" => Holds(t.id, t)'
  <2>1. SUFFICES ASSUME NEW t \in plan, t.kind = "unchanged" PROVE Holds(t.id, t)'
    OBVIOUS
  <2>2. Holds(t.id, t) /\ Stays(t)
    BY <1>5, <2>1 DEF Stays
  <2>3. r.id # t.id
    BY <1>2, <1>3, <1>5, <2>1, <2>2
  <2>4. QED
    BY <1>6, <2>2, <2>3
<1>11. IdsApart(job[p])'
  BY <1>4, <1>5, <1>10 DEF IdsApart, Stays
<1>12. ItemWritten(job[p])'
  BY <1>3, <1>4, <1>5 DEF ItemWritten
<1>13. QED
  BY <1>9, <1>11, <1>12 DEF JobMet

\* An artifact of the plan that is done is met in the graph.
LEMMA MetDone ==
  ASSUME IInv, NEW p \in Proc, job[p].stage \in Recording,
         Item(job[p]).kind = "unchanged" \/ job[p].stage = "modifies",
         UNCHANGED <<history, nodes, prints>>, JobMet(job[p]), DoneMoves(p)
  PROVE  JobMet(job[p])'
<1>1. PICK r, k, plan, level : r = Item(job[p]) /\ k = job[p].commit /\ plan = job[p].plan
                             /\ level = job[p].level
  OBVIOUS
<1>2. r \in plan /\ (job[p].stage = "modifies" => r.id \in DOMAIN nodes)
  BY <1>1, WritingFacts DEF JobSafe, ItemSafe, Recording
<1>3. /\ job'[p].stage = "next" /\ job'[p].plan = plan \ {r} /\ job'[p].commit = k
      /\ job'[p].level = level
  BY <1>1 DEF DoneMoves
<1>4. /\ \A t, u \in plan : Stays(t) /\ Stays(u) /\ t.id = u.id => t = u
      /\ \A t \in plan : t.kind = "unchanged" => Holds(t.id, t)
  BY <1>1 DEF JobMet, IdsApart
<1>5. Stays(r) => Holds(r.id, r)
  <2>1. CASE r.kind = "unchanged"
    BY <1>2, <1>4, <2>1
  <2>2. CASE r.kind # "unchanged"
    BY <1>1, <1>2, <2>2 DEF JobMet, ItemWritten, Holds, Stays
  <2>3. QED
    BY <2>1, <2>2
<1>6. \A id, o : Holds(id, o)' = Holds(id, o)
  BY DEF Holds, PrintOf
<1>7. ASSUME NEW o, Met(job[p], o) PROVE Met(job[p], o)'
  <2>1. CASE \E id \in DOMAIN nodes : Holds(id, o) /\ Safe(job[p], id)
    <3>1. PICK id \in DOMAIN nodes : Holds(id, o) /\ \A t \in plan : Stays(t) => t.id # id
      BY <1>1, <2>1 DEF Safe
    <3>2. Safe(job[p], id)' /\ id \in DOMAIN nodes' /\ Holds(id, o)'
      BY <1>3, <1>6, <3>1 DEF Safe, Stays
    <3>3. QED
      BY <3>2 DEF Met
  <2>2. CASE \E t \in plan : Stays(t) /\ t.path = o.path /\ t.fp = o.fp
    <3>1. PICK t \in plan : Stays(t) /\ t.path = o.path /\ t.fp = o.fp
      BY <2>2
    <3>2. CASE t # r
      BY <1>3, <3>1, <3>2 DEF Met, Stays
    <3>3. CASE t = r
      <4>1. Holds(r.id, o)' /\ r.id \in DOMAIN nodes'
        BY <1>5, <1>6, <3>1, <3>3 DEF Holds
      <4>2. Safe(job[p], r.id)'
        BY <1>2, <1>3, <1>4, <3>1, <3>3 DEF Safe, Stays
      <4>3. QED
        BY <4>1, <4>2 DEF Met
    <3>4. QED
      BY <3>2, <3>3
  <2>3. CASE o.path.file \in Changed(k) /\ Unresolved(job[p], LevelOf(o))
    BY <1>1, <1>3, <2>3 DEF Met, Unresolved, Changed, LevelOf, Recording
  <2>4. QED
    BY <1>1, <1>7, <2>1, <2>2, <2>3 DEF Met
<1>8. TreeObserved(job[p].commit)' = TreeObserved(k)
  BY <1>3 DEF TreeObserved, Held, Tree, Touches
<1>9. TreeMet(job[p])'
  BY <1>1, <1>3, <1>7, <1>8 DEF TreeMet, JobMet, Recording
<1>10. IdsApart(job[p])'
  BY <1>3, <1>4, <1>6 DEF IdsApart, Stays
<1>11. ItemWritten(job[p])'
  BY <1>3 DEF ItemWritten, Recording
<1>12. QED
  BY <1>9, <1>10, <1>11 DEF JobMet

\* A run begins with what the graph has.
LEMMA HeadStart ==
  ASSUME IInv, LoneInv, HeadInv, NEW p \in Proc, Alone(p), Start(p)
  PROVE  HeadInv'
<1>1. /\ UNCHANGED <<history, nodes, prints>> /\ synced' = 0
      /\ BeginsAt(p, 1, Len(history))
  BY BeginDoes DEF Start, graph
<1>2. 1 \in 1..Len(history)
  BY DEF Start, IInv, TypeOK
<1>3. JobMet(job[p])'
  BY <1>1, <1>2, MetBegin, NothingObserved DEF IInv
<1>4. QED
  BY <1>1, <1>3, HeadKeeps DEF BeginsAt, IInv

\* And at its end the graph is as HEAD.
LEMMA HeadFinish ==
  ASSUME IInv, LoneInv, HeadInv, NEW p \in Proc, Alone(p), Finish(p)
  PROVE  HeadInv'
<1>1. PICK k : k = job[p].commit
  OBVIOUS
<1>2. /\ UNCHANGED <<history, nodes, prints>> /\ synced' = k /\ Stops(p)
      /\ job[p].stage = "next" /\ job[p].plan = {} /\ job[p].level = "symbol"
  BY <1>1, IdleDoes DEF Finish, At, graph
<1>3. k \in 1..Len(history)
  BY <1>1, <1>2, JobFacts DEF JobSafe, TaskSafe
<1>4. \A o \in TreeObserved(k) : \E id \in DOMAIN nodes : Holds(id, o)
  BY <1>1, <1>2, MetAll DEF HeadInv, JobMet
<1>5. TreeObserved(synced)' = TreeObserved(k)
  BY <1>2 DEF TreeObserved, Held, Tree, Touches
<1>6. \A q \in Proc : job'[q].stage = "idle" /\ job'[q].plan = {}
  BY <1>2 DEF Stops, OnlyMoves, Alone, At, LoneInv, PlanLevel, Recording
<1>7. SyncedMet'
  <2>1. Active' = {}
    BY <1>6 DEF Active, At
  <2>2. synced' \in 0..Len(history')
    BY <1>2, <1>3 DEF IInv, TypeOK
  <2>3. \A o \in TreeObserved(k) : \E id \in DOMAIN nodes' : Holds(id, o)'
    BY <1>2, <1>4 DEF Holds, PrintOf
  <2>4. QED
    BY <1>5, <2>1, <2>2, <2>3 DEF SyncedMet
<1>8. \A q \in Proc : JobMet(job[q])'
  BY <1>6 DEF JobMet, TreeMet, IdsApart, ItemWritten, Recording
<1>9. QED
  BY <1>7, <1>8 DEF HeadInv

\* A commit moves HEAD and takes the claim back.
LEMMA HeadCommit == ASSUME IInv, LoneInv, HeadInv, Commit PROVE HeadInv'
<1>1. PICK change : history' = Append(history, change)
  BY DEF Commit
<1>2. /\ Len(history') = Len(history) + 1 /\ Len(history) \in Nat
      /\ \A i \in 1..Len(history) : history'[i] = history[i]
  BY <1>1 DEF IInv, TypeOK
<1>3. UNCHANGED <<nodes, prints, job, synced>>
  BY DEF Commit, graph, ghosts
<1>4. \A k \in 0..Len(history) : TreeObserved(k)' = TreeObserved(k)
  BY <1>2, TreeKept, TreeObservedKept DEF IInv
<1>5. \A k \in 1..Len(history) : Changed(k)' = Changed(k)
  BY <1>2 DEF Changed
<1>6. \A id, o : Holds(id, o)' = Holds(id, o)
  BY <1>3 DEF Holds, PrintOf
<1>7. SyncedMet'
  <2>1. TreeObserved(synced)' = TreeObserved(synced)
    <3>1. PICK n : n = synced
      OBVIOUS
    <3>2. TreeObserved(n)' = TreeObserved(n)
      BY <1>4, <3>1 DEF HeadInv, SyncedMet
    <3>3. TreeObserved(synced)' = TreeObserved(n)'
      BY <1>3, <3>1 DEF TreeObserved, Held, Tree, Touches
    <3>4. QED
      BY <3>1, <3>2, <3>3
  <2>2. Active' = Active
    BY <1>3 DEF Active, At
  <2>3. QED
    BY <1>2, <1>3, <1>6, <2>1, <2>2 DEF HeadInv, SyncedMet
<1>8. ASSUME NEW q \in Proc PROVE JobMet(job[q])'
  <2>1. PICK k : k = job[q].commit
    OBVIOUS
  <2>2. job[q].stage # "idle" => k \in 1..Len(history)
    BY <2>1, JobFacts DEF JobSafe, TaskSafe
  <2>3. IdsApart(job[q])' /\ ItemWritten(job[q])'
    BY <1>3, <1>6 DEF HeadInv, JobMet, IdsApart, ItemWritten, Stays, Item, PrintOf, Holds
  <2>4. TreeMet(job[q])'
    <3>1. SUFFICES ASSUME job[q].stage # "idle" PROVE TreeMet(job[q])'
      BY <1>3 DEF TreeMet
    <3>2. TreeObserved(job[q].commit)' = TreeObserved(k)
      <4>1. TreeObserved(k)' = TreeObserved(k)
        BY <1>2, <1>4, <2>2, <3>1
      <4>2. TreeObserved(job[q].commit)' = TreeObserved(k)'
        BY <1>3, <2>1 DEF TreeObserved, Held, Tree, Touches
      <4>3. QED
        BY <4>1, <4>2
    <3>3. ASSUME NEW o, Met(job[q], o) PROVE Met(job[q], o)'
      <4>1. Changed(job[q].commit)' = Changed(job[q].commit)
        BY <1>3, <1>5, <2>1, <2>2, <3>1 DEF Changed
      <4>2. QED
        BY <1>3, <1>6, <3>3, <4>1 DEF Met, Safe, Stays, Unresolved, LevelOf
    <3>4. QED
      BY <1>3, <2>1, <3>1, <3>2, <3>3 DEF HeadInv, JobMet, TreeMet
  <2>5. QED
    BY <2>3, <2>4 DEF JobMet
<1>9. QED
  BY <1>7, <1>8 DEF HeadInv

\* Every statement of a lone ingest that steals no id keeps it.
LEMMA HeadIngest ==
  ASSUME IInv, LoneInv, HeadInv, NEW p \in Proc, Alone(p), ~At(p, "idle"),
         (Ingest(p) /\ ~Finish(p)) \/ Crash(p), ~stolen'
  PROVE  HeadInv'
<1>1. synced = 0 /\ JobMet(job[p]) /\ job[p].stage # "idle"
  BY DEF HeadInv, SyncedMet, Active, At
<1>2. ~Start(p) /\ UNCHANGED <<history, synced>>
  BY DEF Start, Ingest, PutTask, AppendTask, Resolve, ReadNode, AppendVersion, PutNode, PutPrint,
         PutSucceeds, PutContains, PutModifies, NextLevel, NextCommit, Crash, At, ghosts
<1>3. SUFFICES OnlyMoves(p) /\ JobMet(job[p])'
  BY <1>1, <1>2, HeadKeeps DEF IInv
<1>4. job[p] \in Job /\ JobSafe(job[p])
  BY JobFacts
<1>5. CASE PutTask(p) \/ AppendTask(p)
  <2>1. /\ UNCHANGED <<history, nodes, prints>>
        /\ \E s \in {"taskRow", "resolve"} : MovesTo(p, s)
        /\ job[p].stage \in {"task", "taskRow"}
    BY <1>5, GoToDoes DEF PutTask, AppendTask, At
  <2>2. ItemWritten(job'[p])
    BY <2>1 DEF ItemWritten, MovesTo, Recording
  <2>3. \A level : Unresolved(job[p], level) => Unresolved(job'[p], level)
    BY <2>1 DEF Unresolved, MovesTo
  <2>4. QED
    BY <1>1, <2>1, <2>2, <2>3, MetStage DEF MovesTo
<1>6. CASE Resolve(p)
  <2>1. UNCHANGED <<history, nodes, prints>>
    BY <1>6 DEF Resolve, graph
  <2>2. PICK plan : Resolves(p, plan)
    BY <1>6, ResolveDoes
  <2>3. QED
    BY <1>1, <2>1, <2>2, MetResolve DEF Resolves
<1>7. CASE ReadNode(p)
  <2>1. PICK r : Reads(p, r)
    BY <1>7, ReadNodeDoes
  <2>2. UNCHANGED <<history, nodes, prints>>
    BY <1>7 DEF ReadNode, graph
  <2>3. job'[p].stage \in {"version", "contains"} /\ (job'[p].stage = "contains" => r.kind = "unchanged")
    BY <2>1 DEF Reads
  <2>4. Item(job'[p]) = r
    BY <2>1 DEF Reads, Item
  <2>5. ItemWritten(job'[p])
    BY <2>3, <2>4 DEF ItemWritten
  <2>6. \A level : Unresolved(job[p], level) => Unresolved(job'[p], level)
    BY <2>1 DEF Unresolved, Reads
  <2>7. QED
    BY <1>1, <2>1, <2>2, <2>5, <2>6, MetStage DEF Reads
<1>8. CASE AppendVersion(p) \/ PutSucceeds(p)
  <2>1. /\ UNCHANGED <<history, nodes, prints>>
        /\ job[p].stage \in {"version", "succeeds"}
        /\ \E s \in {"node", "modifies", "contains"} :
             MovesTo(p, s) /\ (s # "node" => job[p].stage = "succeeds")
    BY <1>8, GoToDoes DEF AppendVersion, PutSucceeds, At
  <2>2. Item(job'[p]) = Item(job[p])
    BY <2>1 DEF MovesTo, Item
  <2>3. ItemWritten(job'[p])
    BY <1>1, <2>1, <2>2 DEF JobMet, ItemWritten, MovesTo, Recording
  <2>4. \A level : Unresolved(job[p], level) => Unresolved(job'[p], level)
    BY <2>1 DEF Unresolved, MovesTo
  <2>5. QED
    BY <1>1, <2>1, <2>3, <2>4, MetStage DEF MovesTo
<1>9. CASE PutNode(p)
  <2>1. PICK s : s = IF Item(job[p]).kind = "deleted" THEN "succeeds" ELSE "print"
    OBVIOUS
  <2>2. UNCHANGED <<history, prints>> /\ MovesTo(p, s) /\ job[p].stage = "node"
    BY <1>9, <2>1, GoToDoes DEF PutNode, At
  <2>3. PutsNode(p)
    BY <1>9, PutNodeDoes DEF LoneInv
  <2>4. QED
    BY <1>1, <2>1, <2>2, <2>3, MetPutNode DEF MovesTo
<1>10. CASE PutPrint(p)
  <2>1. UNCHANGED <<history, nodes>> /\ MovesTo(p, "succeeds") /\ job[p].stage = "print"
    BY <1>10, GoToDoes DEF PutPrint, At
  <2>2. QED
    BY <1>1, <1>10, <2>1, PutPrintDoes, MetPutPrint DEF MovesTo
<1>11. CASE PutContains(p) \/ PutModifies(p)
  <2>1. UNCHANGED <<history, nodes, prints>> /\ job[p].stage \in {"contains", "modifies"}
        /\ job[p].stage \in Recording
    BY <1>11 DEF PutContains, PutModifies, At, Recording
  <2>2. CASE Done(p) /\ (Item(job[p]).kind = "unchanged" \/ job[p].stage = "modifies")
    BY <1>1, <2>1, <2>2, DoneDoes, MetDone DEF DoneMoves
  <2>3. CASE GoTo(p, "modifies") /\ job[p].stage = "contains"
    <3>1. MovesTo(p, "modifies") /\ Item(job'[p]) = Item(job[p])
      BY <2>3, GoToDoes DEF MovesTo, Item
    <3>2. ItemWritten(job'[p])
      BY <1>1, <2>1, <2>3, <3>1 DEF JobMet, ItemWritten, MovesTo, Recording
    <3>3. \A level : Unresolved(job[p], level) => Unresolved(job'[p], level)
      BY <2>3, <3>1 DEF Unresolved, MovesTo
    <3>4. QED
      BY <1>1, <2>1, <3>1, <3>2, <3>3, MetStage DEF MovesTo
  <2>4. QED
    BY <1>11, <2>2, <2>3 DEF PutContains, PutModifies, At
<1>12. CASE NextLevel(p)
  <2>1. NextLevelMoves(p) /\ UNCHANGED <<history, nodes, prints>>
    BY <1>12, NextLevelDoes DEF NextLevel, graph
  <2>2. ItemWritten(job'[p])
    BY <2>1 DEF ItemWritten, NextLevelMoves, Recording
  <2>3. \A level : Unresolved(job[p], level) => Unresolved(job'[p], level)
    BY <2>1 DEF Unresolved, NextLevelMoves
  <2>4. QED
    BY <1>1, <2>1, <2>2, <2>3, MetStage DEF NextLevelMoves
<1>13. CASE NextCommit(p)
  <2>1. PICK k : k = job[p].commit
    OBVIOUS
  <2>2. /\ BeginsAt(p, k + 1, job[p].upto) /\ UNCHANGED <<history, nodes, prints>>
        /\ job[p].stage = "next" /\ job[p].plan = {} /\ job[p].level = "symbol"
        /\ k < job[p].upto
    BY <1>13, <2>1, BeginDoes DEF NextCommit, graph, At
  <2>3. k \in Nat /\ k + 1 \in 1..Len(history) /\ (k + 1) - 1 = k
    BY <1>1, <1>4, <2>1, <2>2 DEF JobSafe, TaskSafe, IInv, TypeOK
  <2>4. \A o \in TreeObserved(k) : \E id \in DOMAIN nodes : Holds(id, o)
    BY <1>1, <2>1, <2>2, MetAll DEF JobMet
  <2>5. QED
    BY <2>2, <2>3, <2>4, MetBegin DEF BeginsAt, IInv
<1>14. CASE Crash(p)
  <2>1. Stops(p)
    BY <1>14, IdleDoes DEF Crash
  <2>2. QED
    BY <2>1 DEF Stops, JobMet, TreeMet, IdsApart, ItemWritten, Recording
<1>15. QED
  BY <1>2, <1>5, <1>6, <1>7, <1>8, <1>9, <1>10, <1>11, <1>12, <1>13, <1>14 DEF Ingest

Undisturbed == ~shared /\ ~stolen

\* Every step keeps it, until two ingests overlap or an id is stolen.
LEMMA HeadStep ==
  /\ IInv /\ (~shared => LoneInv) /\ (Undisturbed => HeadInv) /\ [Next]_vars
  => (Undisturbed => HeadInv)'
<1> SUFFICES ASSUME IInv, ~shared => LoneInv, Undisturbed => HeadInv, [Next]_vars,
                    ~shared', ~stolen'
             PROVE  HeadInv'
  BY DEF Undisturbed
<1>1. CASE UNCHANGED vars
  <2>1. UNCHANGED <<history, nodes, prints, job, synced>> /\ HeadInv
    BY <1>1 DEF vars, graph, ghosts, Undisturbed
  <2>2. Active' = Active /\ TreeObserved(synced)' = TreeObserved(synced)
    BY <2>1 DEF Active, At, TreeObserved, Held, Tree, Touches
  <2>3. \A id, o : Holds(id, o)' = Holds(id, o)
    BY <2>1 DEF Holds, PrintOf
  <2>4. SyncedMet'
    BY <2>1, <2>2, <2>3 DEF HeadInv, SyncedMet
  <2>5. ASSUME NEW q \in Proc PROVE JobMet(job[q])'
    <3>1. TreeObserved(job[q].commit)' = TreeObserved(job[q].commit)
      BY <2>1 DEF TreeObserved, Held, Tree, Touches
    <3>2. \A o : Met(job[q], o)' = Met(job[q], o)
      BY <2>1, <2>3 DEF Met, Safe, Stays, Unresolved, LevelOf, Changed
    <3>3. QED
      BY <2>1, <2>3, <3>1, <3>2
         DEF HeadInv, JobMet, TreeMet, IdsApart, ItemWritten, Item, PrintOf, Stays
  <2>6. QED
    BY <2>4, <2>5 DEF HeadInv
<1>2. CASE Commit
  BY <1>2, HeadCommit DEF Commit, ghosts, Undisturbed
<1>3. ASSUME NEW p \in Proc, Ingest(p) \/ Crash(p)
      PROVE  HeadInv'
  <2>1. ~stolen
    BY <1>3 DEF Ingest, Start, PutTask, AppendTask, Resolve, ReadNode, AppendVersion, PutNode,
                PutPrint, PutSucceeds, PutContains, PutModifies, NextLevel, NextCommit, Finish,
                Crash, ghosts
  <2>2. ~shared
    BY <1>3 DEF Ingest, Start, PutTask, AppendTask, Resolve, ReadNode, AppendVersion, PutNode,
                PutPrint, PutSucceeds, PutContains, PutModifies, NextLevel, NextCommit, Finish,
                Crash, ghosts
  <2>3. Alone(p) /\ LoneInv /\ HeadInv
    BY <1>3, <2>1, <2>2, StepsAlone DEF LoneInv, Undisturbed
  <2>4. CASE Start(p)
    BY <2>3, <2>4, HeadStart
  <2>5. CASE Finish(p)
    BY <2>3, <2>5, HeadFinish
  <2>6. CASE ~Start(p) /\ ~Finish(p)
    <3>1. ~At(p, "idle")
      BY <1>3, <2>6 DEF Ingest, PutTask, AppendTask, Resolve, ReadNode, AppendVersion, PutNode,
                PutPrint, PutSucceeds, PutContains, PutModifies, NextLevel, NextCommit, Crash, At
    <3>2. QED
      BY <1>3, <2>3, <2>6, <3>1, HeadIngest
  <2>7. QED
    BY <2>4, <2>5, <2>6
<1>4. QED
  BY <1>1, <1>2, <1>3 DEF Next

\* It holds at the start.
LEMMA HeadInit == Init => HeadInv
<1> SUFFICES ASSUME Init PROVE HeadInv
  OBVIOUS
<1>1. synced = 0 /\ \A p \in Proc : job[p].stage = "idle" /\ job[p].plan = {}
  BY DEF Init, Idle
<1>2. \A p \in Proc : JobMet(job[p])
  BY <1>1 DEF JobMet, TreeMet, IdsApart, ItemWritten, Recording
<1>3. Len(history) = 0
  BY DEF Init
<1>4. QED
  BY <1>1, <1>2, <1>3, NothingObserved DEF HeadInv, SyncedMet

\* After a run over the whole history, whatever crashed before it and as long as no two
\* ingests overlapped and no id was derived that is in use, every file and
\* symbol of HEAD is a node with its path and its fingerprint.
THEOREM HeadIsInTheGraph == Spec => []HeadIsKnown
<1>1. Init => (~shared => LoneInv) /\ (Undisturbed => HeadInv)
  BY LoneInit, HeadInit
<1>2. (Undisturbed => HeadInv) => HeadIsKnown
  <2>1. SUFFICES ASSUME HeadInv, synced = Len(history), NEW o \in HeadObserved
                 PROVE  \E id \in DOMAIN nodes : nodes[id].path = o.path /\ PrintOf(id) = o.fp
    BY DEF Undisturbed, HeadIsKnown
  <2>2. HeadObserved = TreeObserved(synced)
    BY <2>1 DEF HeadObserved, TreeObserved, Held
  <2>3. QED
    BY <2>1, <2>2 DEF HeadInv, SyncedMet, Holds
<1>3. QED
  BY <1>1, <1>2, LoneStep, HeadStep, Invariance, PTL DEF Spec

-----------------------------------------------------------------------------
(***************************************************************************)
(* A first run leaves each node as its current version has it.             *)
(***************************************************************************)
\* The lone process at work.
AtWork(p) ==
  /\ IInv /\ LoneInv /\ HeadInv /\ FirstInv /\ Alone(p) /\ p \in Proc
  /\ job[p].stage # "idle"

\* What is known of a process at work on a first run.
LEMMA AtWorkFacts ==
  ASSUME NEW p, AtWork(p)
  PROVE  /\ p \in Proc /\ synced = 0 /\ NodesExact /\ job[p] \in Job
         /\ job[p].commit \in 1..Len(history) /\ job[p].commit \in Nat
         /\ JobMet(job[p]) /\ PlanLevel(job[p]) /\ RowRead(job[p])
         /\ NodesAlive(job[p]) /\ VersionsFresh(job[p]) /\ PlanSeen(job[p])
         /\ VersionsHeld(job[p]) /\ ItemHeld(job[p])
         /\ \A id \in DOMAIN nodes :
              Agrees(id) \/ (job[p].stage = "print" /\ Item(job[p]).id = id)
<1>1. p \in Active
  BY DEF AtWork, Active, At
<1>2. synced = 0 /\ NodesExact /\ JobExact(job[p])
  BY <1>1 DEF AtWork, HeadInv, SyncedMet, FirstInv
<1>3. job[p] \in Job /\ JobSafe(job[p])
  BY JobFacts DEF AtWork
<1>4. job[p].commit \in 1..Len(history) /\ job[p].commit \in Nat
  BY <1>3 DEF AtWork, JobSafe, TaskSafe, Job
<1>5. \A id \in DOMAIN nodes :
        Agrees(id) \/ (job[p].stage = "print" /\ Item(job[p]).id = id)
  BY <1>2 DEF NodesExact, AtWork, Alone, At
<1>6. QED
  BY <1>2, <1>3, <1>4, <1>5 DEF AtWork, JobExact, HeadInv, LoneInv

\* A step of one process keeps it when its own job is exact.
LEMMA FirstKeeps ==
  ASSUME NEW p, AtWork(p), OnlyMoves(p), synced' = 0, NodesExact', JobExact(job[p])'
  PROVE  FirstInv'
<1>1. \A q \in Proc \ {p} : job'[q].stage = "idle"
  BY DEF AtWork, OnlyMoves, Alone, At
<1>2. \A q \in Proc \ {p} : JobExact(job[q])'
  BY <1>1 DEF JobExact
<1>3. QED
  BY <1>2 DEF FirstInv, AtWork

\* With the tables as they were, a job is exact if its record is.
LEMMA ExactPrime ==
  ASSUME UNCHANGED <<history, nodes, prints, versions>>, NEW p, NEW j, job'[p] = j, JobExact(j)
  PROVE  JobExact(job[p])'
<1>1. SUFFICES ASSUME j.stage # "idle" PROVE JobExact(job[p])'
  BY DEF JobExact
<1>2. /\ NodesAlive(j) /\ VersionsFresh(j) /\ PlanSeen(j) /\ VersionsHeld(j) /\ ItemHeld(j)
  BY <1>1 DEF JobExact
<1>3. TreePaths(job[p].commit)' = TreePaths(j.commit)
  BY DEF TreePaths, TreeObserved, Held, Tree, Touches
<1>4. \A id : Alive(job[p].commit, id)' = Alive(j.commit, id)
  BY <1>3 DEF Alive, Current
<1>5. \A level : Unresolved(job[p], level)' = Unresolved(j, level)
  BY DEF Unresolved
<1>6. NodesAlive(job[p])'
  BY <1>2, <1>4 DEF NodesAlive, Unresolved, LevelOf, Changed
<1>7. VersionsFresh(job[p])'
  BY <1>2 DEF VersionsFresh, Unresolved, LevelOf, Changes, VersionId, Item
<1>8. PlanSeen(job[p])'
  BY <1>2, <1>3 DEF PlanSeen, Stays, Item
<1>9. VersionsHeld(job[p])'
  BY <1>2, <1>3 DEF VersionsHeld, InHandNew, Stays, Item, ItemVersion, VersionId, PrintOf
<1>10. ItemHeld(job[p])'
  BY <1>2 DEF ItemHeld, InHandNew, Stays, Item, ItemVersion, VersionId
<1>11. QED
  BY <1>6, <1>7, <1>8, <1>9, <1>10 DEF JobExact

\* Nodes stay exact where no table changes.
LEMMA NodesPrime ==
  ASSUME NEW p, AtWork(p), UNCHANGED <<nodes, prints, versions>>, job[p].stage # "print"
  PROVE  NodesExact'
<1>1. \A id \in DOMAIN nodes : Agrees(id)
  BY AtWorkFacts
<1>2. \A id \in DOMAIN nodes : Agrees(id)'
  BY <1>1 DEF Agrees, Current, PrintOf
<1>3. QED
  BY <1>2 DEF NodesExact

\* A step to another stage with the tables and the plan as they were.
LEMMA FirstStages ==
  ASSUME NEW p, AtWork(p), OnlyMoves(p), UNCHANGED <<history, nodes, prints, versions, synced>>,
         NEW j, job'[p] = j, j.plan = job[p].plan, j.commit = job[p].commit,
         {job[p].stage, j.stage} \cap {"node", "print"} = {},
         \A level : Unresolved(j, level) = Unresolved(job[p], level),
         job[p].stage \in Recording \ {"version"} =>
           j.stage \in Recording \ {"version"} /\ Item(j) = Item(job[p]),
         j.stage \in Recording /\ ~Stays(Item(j)) => \A r \in j.plan : ~Stays(r),
         ItemHeld(j)
  PROVE  FirstInv'
<1>1. /\ NodesAlive(job[p]) /\ VersionsFresh(job[p]) /\ PlanSeen(job[p])
      /\ VersionsHeld(job[p]) /\ synced = 0
  BY AtWorkFacts
<1>2. NodesAlive(j)
  BY <1>1 DEF NodesAlive
<1>3. VersionsFresh(j)
  BY <1>1 DEF VersionsFresh
<1>4. PlanSeen(j)
  BY <1>1 DEF PlanSeen
<1>5. VersionsHeld(j)
  BY <1>1 DEF VersionsHeld, InHandNew
<1>6. JobExact(job[p])'
  BY <1>2, <1>3, <1>4, <1>5, ExactPrime DEF JobExact
<1>7. QED
  BY <1>1, <1>6, FirstKeeps, NodesPrime

\* Resolving a level puts every node whose file changed in the plan, or finds it alive.
LEMMA FirstResolve ==
  ASSUME NEW p, AtWork(p), NEW plan, Resolves(p, plan),
         UNCHANGED <<history, nodes, prints, versions, synced>>
  PROVE  FirstInv'
<1>1. PICK level, k, j : level = job[p].level /\ k = job[p].commit /\ j = job'[p]
  OBVIOUS
<1>2. /\ k \in 1..Len(history) /\ level \in {"file", "symbol"}
      /\ plan \in Resolutions(Known(level, k), Observed(level, k))
      /\ OnlyMoves(p) /\ j.stage = "next" /\ j.plan = plan
      /\ j.level = level /\ j.commit = k /\ job[p].stage = "resolve"
  BY <1>1 DEF Resolves
<1>3. /\ UniqueIds(Known(level, k)) /\ Known(level, k) \in SUBSET KnownRecord
      /\ Observed(level, k) \in SUBSET SeenRecord
      /\ \A r \in plan : LevelOf(r.id) = level
  BY <1>1, ResolvedLevel DEF LoneInv, AtWork
<1>4. /\ \A r \in plan : Stays(r) => Seen(r) \in Observed(level, k)
      /\ \A n \in Known(level, k) : \E r \in plan : r.kind # "added" /\ r.id = n.id
  BY <1>2, <1>3, PlanFacts
<1>5. /\ NodesAlive(job[p]) /\ VersionsFresh(job[p]) /\ PlanLevel(job[p])
      /\ VersionsHeld(job[p]) /\ synced = 0
  BY AtWorkFacts
<1>6. job[p].plan = {}
  BY <1>2, <1>5 DEF PlanLevel, Recording
<1>7. NodesAlive(j)
  <2>1. SUFFICES ASSUME NEW id \in DOMAIN nodes, ~Alive(k, id), \A r \in plan : r.id # id
                 PROVE  nodes[id].path.file \in Changed(k) /\ Unresolved(j, LevelOf(id))
    BY <1>2 DEF NodesAlive
  <2>2. nodes[id].path.file \in Changed(k) /\ Unresolved(job[p], LevelOf(id))
    BY <1>1, <1>5, <1>6, <2>1 DEF NodesAlive
  <2>3. LevelOf(id) # level
    <3>1. SUFFICES ASSUME LevelOf(id) = level PROVE FALSE
      OBVIOUS
    <3>2. PICK n : n = [id |-> id, path |-> nodes[id].path, fp |-> PrintOf(id)]
      OBVIOUS
    <3>3. n \in Known(level, k) /\ n.id = id
      BY <2>1, <2>2, <3>1, <3>2 DEF Known, Container
    <3>4. QED
      BY <1>4, <2>1, <3>3
  <2>4. LevelOf(id) \in {"file", "symbol"}
    BY DEF LevelOf
  <2>5. QED
    BY <1>1, <1>2, <2>2, <2>3, <2>4 DEF Unresolved
<1>8. VersionsFresh(j)
  <2>1. \A l : Unresolved(j, l) => Unresolved(job[p], l)
    BY <1>1, <1>2 DEF Unresolved
  <2>2. Unresolved(job[p], level)
    BY <1>1, <1>2 DEF Unresolved
  <2>3. \A r \in plan : VersionId(r.id, k) \notin DOMAIN versions
    <3>1. SUFFICES ASSUME NEW r \in plan, VersionId(r.id, k) \in DOMAIN versions PROVE FALSE
      OBVIOUS
    <3>2. VersionId(r.id, k).task = k /\ VersionId(r.id, k).artifact = r.id
      BY DEF VersionId
    <3>3. ~Unresolved(job[p], LevelOf(r.id))
      BY <1>1, <1>5, <3>1, <3>2 DEF VersionsFresh
    <3>4. QED
      BY <1>3, <2>2, <3>3
  <2>4. QED
    BY <1>1, <1>2, <1>5, <2>1, <2>3 DEF VersionsFresh
<1>9. PlanSeen(j)
  <2>1. \A r \in plan : Stays(r) => r.path \in TreePaths(k)
    <3>1. SUFFICES ASSUME NEW r \in plan, Stays(r) PROVE r.path \in TreePaths(k)
      OBVIOUS
    <3>2. Seen(r) \in TreeObserved(k)
      BY <1>2, <1>4, <3>1, TreeObservedFacts DEF AtWork, IInv
    <3>3. Seen(r).path = r.path
      BY DEF Seen
    <3>4. QED
      BY <3>2, <3>3 DEF TreePaths
  <2>2. QED
    BY <1>2, <2>1 DEF PlanSeen, Recording
<1>10. VersionsHeld(j)
  BY <1>1, <1>2, <1>5 DEF VersionsHeld, InHandNew
<1>11. ItemHeld(j)
  BY <1>2 DEF ItemHeld, InHandNew
<1>12. JobExact(job[p])'
  BY <1>1, <1>7, <1>8, <1>9, <1>10, <1>11, ExactPrime DEF JobExact
<1>13. QED
  BY <1>2, <1>5, <1>12, FirstKeeps, NodesPrime

\* A version is appended for the artifact in hand: of a change it is new, of a deletion
\* it repeats the node.
AppendsVersion(p) ==
  LET r == Item(job[p])
      v == ItemVersion(job[p])
  IN  /\ DOMAIN versions' = DOMAIN versions \cup {v}
      /\ \A u \in DOMAIN versions : versions'[u] = versions[u]
      /\ v \notin DOMAIN versions =>
           IF Stays(r) THEN versions'[v].path = r.path /\ versions'[v].fp = r.fp
           ELSE /\ r.id \in DOMAIN nodes /\ versions'[v].path = nodes[r.id].path
                /\ versions'[v].fp = PrintOf(r.id) /\ versions'[v].kind = "deleted"

\* What recording a version does.
LEMMA AppendVersionDoes ==
  ASSUME IInv, NEW p \in Proc, AppendVersion(p), RowRead(job[p])
  PROVE  AppendsVersion(p)
<1> DEFINE j == job[p]
           r == Item(j)
<1>1. j.stage = "version" /\ j.stage \in Recording
  BY DEF AppendVersion, At, Recording
<1>2. PICK row : row = IF r.kind = "deleted"
                       THEN [path |-> Row(j).path, fp |-> PrintOf(r.id), kind |-> r.kind]
                       ELSE [path |-> r.path, fp |-> r.fp, kind |-> r.kind]
  OBVIOUS
<1>3. versions' = InsertOrIgnore(versions, ItemVersion(j), row)
  BY <1>2 DEF AppendVersion
<1>4. /\ DOMAIN versions' = DOMAIN versions \cup {ItemVersion(j)}
      /\ \A u \in DOMAIN versions : versions'[u] = versions[u]
      /\ ItemVersion(j) \notin DOMAIN versions => versions'[ItemVersion(j)] = row
  BY <1>3 DEF InsertOrIgnore
<1>5. CASE r.kind = "deleted"
  <2>1. j.rows # {} /\ j.rows = {nodes[id] : id \in {r.id} \cap DOMAIN nodes}
    BY <1>1, <1>5, WritingFacts DEF JobSafe, ItemSafe, RowRead
  <2>2. r.id \in DOMAIN nodes /\ j.rows = {nodes[r.id]}
    BY <2>1
  <2>3. Row(j) = nodes[r.id]
    BY <2>2 DEF Row
  <2>4. row.path = nodes[r.id].path /\ row.fp = PrintOf(r.id) /\ row.kind = "deleted"
    BY <1>2, <1>5, <2>3
  <2>5. QED
    BY <1>4, <1>5, <2>2, <2>4 DEF AppendsVersion, Stays
<1>6. CASE r.kind # "deleted"
  <2>1. row.path = r.path /\ row.fp = r.fp
    BY <1>2, <1>6
  <2>2. QED
    BY <1>4, <1>6, <2>1 DEF AppendsVersion, Stays
<1>7. QED
  BY <1>5, <1>6

\* A version appended is of this commit, and was not there.
LEMMA FirstAppend ==
  ASSUME NEW p, AtWork(p), job[p].stage = "version", AppendsVersion(p), MovesTo(p, "node"),
         UNCHANGED <<history, nodes, prints, synced>>
  PROVE  FirstInv'
<1>1. PICK r, k, v, plan : r = Item(job[p]) /\ k = job[p].commit /\ v = ItemVersion(job[p])
                           /\ plan = job[p].plan
  OBVIOUS
<1>2. /\ NodesAlive(job[p]) /\ VersionsFresh(job[p]) /\ PlanSeen(job[p]) /\ PlanLevel(job[p])
      /\ VersionsHeld(job[p]) /\ synced = 0 /\ p \in Proc /\ job[p].level \in {"file", "symbol"}
      /\ JobMet(job[p]) /\ \A id \in DOMAIN nodes : Agrees(id)
  BY AtWorkFacts DEF Job
<1>3. r \in plan /\ v.artifact = r.id /\ v.task = k /\ v = VersionId(r.id, k) /\ k \in Nat
      /\ r.kind # "unchanged"
  BY <1>1, <1>2, WritingFacts DEF AtWork, Recording, JobSafe, ItemSafe, ItemVersion
<1>4. /\ DOMAIN versions' = DOMAIN versions \cup {v}
      /\ \A u \in DOMAIN versions : versions'[u] = versions[u]
      /\ v \notin DOMAIN versions =>
           IF Stays(r) THEN versions'[v].path = r.path /\ versions'[v].fp = r.fp
           ELSE /\ r.id \in DOMAIN nodes /\ versions'[v].path = nodes[r.id].path
                /\ versions'[v].fp = PrintOf(r.id) /\ versions'[v].kind = "deleted"
  BY <1>1 DEF AppendsVersion
<1>5. /\ OnlyMoves(p) /\ job'[p].stage = "node" /\ job'[p].plan = plan
      /\ job'[p].level = job[p].level /\ job'[p].commit = k
      /\ Item(job[p])' = r /\ ItemVersion(job[p])' = v
  BY <1>1 DEF MovesTo
<1>6. TreePaths(job[p].commit)' = TreePaths(k) /\ Changed(job[p].commit)' = Changed(k)
  BY <1>5 DEF TreePaths, TreeObserved, Held, Tree, Touches, Changed
<1>7. \A id \in DOMAIN nodes : nodes[id].current \in DOMAIN versions
  BY DEF AtWork, IInv, CurrentRecorded
<1>8. \A id \in DOMAIN nodes : Current(id)' = Current(id)
  BY <1>4, <1>7 DEF Current
<1>9. NodesExact'
  BY <1>2, <1>8 DEF NodesExact, Agrees, PrintOf
<1>10. \A level : Unresolved(job[p], level)' = Unresolved(job[p], level)
  BY <1>5 DEF Unresolved
<1>11. NodesAlive(job[p])'
  <2>1. \A id \in DOMAIN nodes : Alive(k, id) => Alive(job[p].commit, id)'
    BY <1>6, <1>8 DEF Alive
  <2>2. \A id : LevelOf(id)' = LevelOf(id)
    BY DEF LevelOf
  <2>3. \A id \in DOMAIN nodes :
          nodes[id].path.file \in Changed(k) /\ Unresolved(job[p], LevelOf(id))
            => (nodes[id].path.file \in Changed(job[p].commit) /\ Unresolved(job[p], LevelOf(id)))'
    BY <1>6, <1>10, <2>2 DEF Unresolved
  <2>4. QED
    BY <1>1, <1>2, <1>5, <2>1, <2>3 DEF NodesAlive
<1>12. ~Stays(r) => \A s \in plan : ~Stays(s)
  BY <1>1, <1>2 DEF PlanSeen, Recording
<1>13. VersionsFresh(job[p])'
  <2>1. ~Unresolved(job[p], LevelOf(r.id))
    BY <1>1, <1>2, <1>3 DEF PlanLevel, Unresolved
  <2>2. \A u \in DOMAIN versions' :
          u.task <= k /\ (u.task = k => ~Unresolved(job[p], LevelOf(u.artifact)))
    BY <1>1, <1>2, <1>3, <1>4, <2>1 DEF VersionsFresh
  <2>3. ASSUME NEW s \in plan, Changes(s), VersionId(s.id, k) \in DOMAIN versions'
        PROVE  s = r
    <3>1. VersionId(s.id, k) \notin DOMAIN versions
      BY <1>1, <1>2, <2>3 DEF VersionsFresh
    <3>2. VersionId(s.id, k) = v
      BY <1>4, <2>3, <3>1
    <3>3. s.id = r.id
      BY <1>3, <3>2 DEF VersionId
    <3>4. Stays(s) /\ Stays(r)
      BY <1>12, <2>3 DEF Stays, Changes
    <3>5. QED
      BY <1>1, <1>2, <1>3, <3>3, <3>4 DEF JobMet, IdsApart
  <2>4. \A s \in plan : Changes(s) /\ VersionId(s.id, k) \in DOMAIN versions' => s = r
    BY <2>3
  <2>5. QED
    BY <1>5, <1>10, <2>2, <2>4 DEF VersionsFresh, Recording, Changes, VersionId, LevelOf, Unresolved
<1>14. PlanSeen(job[p])'
  BY <1>1, <1>2, <1>5, <1>6, <1>12 DEF PlanSeen, Stays
<1>15. v \in DOMAIN versions => ~Stays(r)
  <2>1. SUFFICES ASSUME v \in DOMAIN versions, Stays(r) PROVE FALSE
    OBVIOUS
  <2>2. Changes(r)
    BY <1>3, <2>1 DEF Changes, Stays
  <2>3. QED
    BY <1>1, <1>2, <1>3, <2>1, <2>2 DEF VersionsFresh
<1>16. VersionsHeld(job[p])'
  <2>1. ASSUME NEW u \in DOMAIN versions', u.task = k, ~(Stays(r) /\ u = v)
        PROVE  /\ u.artifact \in DOMAIN nodes /\ versions'[u].path = nodes[u.artifact].path
               /\ versions'[u].fp = PrintOf(u.artifact)
               /\ versions'[u].kind = "deleted" \/ versions'[u].path \in TreePaths(k)
    <3>1. CASE u \in DOMAIN versions
      BY <1>1, <1>2, <1>4, <2>1, <3>1 DEF VersionsHeld, InHandNew
    <3>2. CASE u \notin DOMAIN versions
      BY <1>3, <1>4, <2>1, <3>2
    <3>3. QED
      BY <3>1, <3>2
  <2>2. \A id : PrintOf(id)' = PrintOf(id)
    BY DEF PrintOf
  <2>3. InHandNew(job[p])' = Stays(r)
    BY <1>5 DEF InHandNew, Stays
  <2>4. QED
    BY <1>5, <1>6, <2>1, <2>2, <2>3 DEF VersionsHeld, PrintOf
<1>17. ItemHeld(job[p])'
  BY <1>4, <1>5, <1>15 DEF ItemHeld, InHandNew, Stays
<1>18. JobExact(job[p])'
  BY <1>11, <1>13, <1>14, <1>16, <1>17 DEF JobExact
<1>19. QED
  BY <1>2, <1>5, <1>9, <1>18, FirstKeeps

\* The node takes the version's path; the print is still to be written.
LEMMA FirstPutNode ==
  ASSUME NEW p, AtWork(p), job[p].stage = "node", PutsNode(p),
         NEW s, s = IF Item(job[p]).kind = "deleted" THEN "succeeds" ELSE "print", MovesTo(p, s),
         UNCHANGED <<history, prints, versions, synced>>
  PROVE  FirstInv'
<1>1. PICK r, k, v, plan : r = Item(job[p]) /\ k = job[p].commit /\ v = ItemVersion(job[p])
                           /\ plan = job[p].plan
  OBVIOUS
<1>2. /\ NodesAlive(job[p]) /\ VersionsFresh(job[p]) /\ PlanSeen(job[p]) /\ PlanLevel(job[p])
      /\ VersionsHeld(job[p]) /\ ItemHeld(job[p]) /\ synced = 0 /\ p \in Proc
      /\ \A id \in DOMAIN nodes : Agrees(id)
  BY AtWorkFacts
<1>3. /\ r \in plan /\ v.artifact = r.id /\ v.task = k /\ v = VersionId(r.id, k)
      /\ v \in DOMAIN versions /\ r.kind # "unchanged"
  BY <1>1, <1>2, WritingFacts DEF AtWork, Recording, JobSafe, ItemSafe, ItemVersion
<1>4. /\ DOMAIN nodes' = DOMAIN nodes \cup {r.id}
      /\ \A id \in DOMAIN nodes \ {r.id} : nodes'[id] = nodes[id]
      /\ nodes'[r.id].current = v
      /\ Stays(r) => nodes'[r.id].path = r.path
      /\ ~Stays(r) => r.id \in DOMAIN nodes /\ nodes'[r.id].path = nodes[r.id].path
  BY <1>1 DEF PutsNode
<1>5. /\ OnlyMoves(p) /\ job'[p].stage = s /\ job'[p].plan = plan
      /\ job'[p].level = job[p].level /\ job'[p].commit = k
      /\ Item(job[p])' = r /\ ItemVersion(job[p])' = v /\ s \in {"print", "succeeds"}
      /\ (s = "print") = Stays(r)
  BY <1>1 DEF MovesTo, Stays
<1>6. TreePaths(job[p].commit)' = TreePaths(k) /\ Changed(job[p].commit)' = Changed(k)
  BY <1>5 DEF TreePaths, TreeObserved, Held, Tree, Touches, Changed
<1>7. \A id \in DOMAIN nodes \ {r.id} : Current(id)' = Current(id)
  BY <1>4 DEF Current
<1>8. \A id : PrintOf(id)' = PrintOf(id)
  BY DEF PrintOf
<1>9. NodesExact'
  <2>1. ASSUME NEW id \in DOMAIN nodes'
        PROVE  Agrees(id)' \/ (job'[p].stage = "print" /\ Item(job[p])'.id = id)
    <3>1. CASE id # r.id
      BY <1>2, <1>4, <1>7, <1>8, <2>1, <3>1 DEF Agrees
    <3>2. CASE id = r.id /\ Stays(r)
      BY <1>5, <3>2
    <3>3. CASE id = r.id /\ ~Stays(r)
      <4>1. versions[v].path = nodes[r.id].path /\ versions[v].fp = PrintOf(r.id)
        BY <1>1, <1>2, <1>3, <3>3 DEF VersionsHeld, InHandNew
      <4>2. Current(id)' = versions[v]
        BY <1>4, <3>3 DEF Current
      <4>3. QED
        BY <1>4, <1>8, <3>3, <4>1, <4>2 DEF Agrees
    <3>4. QED
      BY <3>1, <3>2, <3>3
  <2>2. QED
    BY <1>2, <2>1 DEF NodesExact
<1>10. \A level : Unresolved(job[p], level)' = Unresolved(job[p], level)
  BY <1>5 DEF Unresolved
<1>11. NodesAlive(job[p])'
  <2>1. ASSUME NEW id \in DOMAIN nodes', id # r.id
        PROVE  \/ Alive(job[p].commit, id)'
               \/ \E t \in plan : t.id = id
               \/ (nodes[id].path.file \in Changed(job[p].commit) /\ Unresolved(job[p], LevelOf(id)))'
    <3>1. id \in DOMAIN nodes /\ nodes'[id] = nodes[id]
      BY <1>4, <2>1
    <3>2. Alive(k, id) => Alive(job[p].commit, id)'
      BY <1>6, <1>7, <2>1, <3>1 DEF Alive
    <3>3. nodes[id].path.file \in Changed(k) /\ Unresolved(job[p], LevelOf(id))
            => (nodes[id].path.file \in Changed(job[p].commit) /\ Unresolved(job[p], LevelOf(id)))'
      BY <1>5, <1>6, <3>1 DEF Unresolved, LevelOf
    <3>4. QED
      BY <1>1, <1>2, <3>1, <3>2, <3>3 DEF NodesAlive
  <2>2. QED
    BY <1>3, <1>5, <2>1 DEF NodesAlive
<1>12. VersionsFresh(job[p])'
  BY <1>1, <1>2, <1>5, <1>10
     DEF VersionsFresh, Recording, Changes, VersionId, LevelOf, Unresolved
<1>13. PlanSeen(job[p])'
  BY <1>1, <1>2, <1>5, <1>6 DEF PlanSeen, Stays, Recording
<1>14. VersionsHeld(job[p])'
  <2>1. ASSUME NEW u \in DOMAIN versions, u.task = k, ~(Stays(r) /\ u = v)
        PROVE  /\ u.artifact \in DOMAIN nodes' /\ versions[u].path = nodes'[u.artifact].path
               /\ versions[u].fp = PrintOf(u.artifact)
               /\ versions[u].kind = "deleted" \/ versions[u].path \in TreePaths(k)
    <3>1. /\ u.artifact \in DOMAIN nodes /\ versions[u].path = nodes[u.artifact].path
          /\ versions[u].fp = PrintOf(u.artifact)
          /\ versions[u].kind = "deleted" \/ versions[u].path \in TreePaths(k)
      BY <1>1, <1>2, <2>1 DEF VersionsHeld, InHandNew
    <3>2. u.artifact = r.id => u = v
      <4>1. u \in Version
        BY DEF AtWork, IInv, TypeOK, StoreOK, IsTable
      <4>2. u = VersionId(u.artifact, u.task)
        BY <4>1 DEF Version, VersionId
      <4>3. QED
        BY <1>3, <2>1, <4>2
    <3>3. nodes'[u.artifact].path = nodes[u.artifact].path
      BY <1>4, <2>1, <3>1, <3>2
    <3>4. QED
      BY <1>4, <3>1, <3>3
  <2>2. InHandNew(job[p])' = Stays(r)
    BY <1>5 DEF InHandNew, Stays
  <2>3. QED
    BY <1>5, <1>6, <1>8, <2>1, <2>2 DEF VersionsHeld, PrintOf
<1>15. ItemHeld(job[p])'
  BY <1>1, <1>2, <1>4, <1>5 DEF ItemHeld, InHandNew, Stays
<1>16. JobExact(job[p])'
  BY <1>11, <1>12, <1>13, <1>14, <1>15 DEF JobExact
<1>17. QED
  BY <1>2, <1>5, <1>9, <1>16, FirstKeeps

\* The print makes the node agree with its version.
LEMMA FirstPutPrint ==
  ASSUME NEW p, AtWork(p), job[p].stage = "print", PutsPrint(p), MovesTo(p, "succeeds"),
         UNCHANGED <<history, nodes, versions, synced>>
  PROVE  FirstInv'
<1>1. PICK r, k, v, plan : r = Item(job[p]) /\ k = job[p].commit /\ v = ItemVersion(job[p])
                           /\ plan = job[p].plan
  OBVIOUS
<1>2. /\ NodesAlive(job[p]) /\ VersionsFresh(job[p]) /\ PlanSeen(job[p]) /\ JobMet(job[p])
      /\ VersionsHeld(job[p]) /\ ItemHeld(job[p]) /\ synced = 0 /\ p \in Proc
      /\ \A id \in DOMAIN nodes : Agrees(id) \/ r.id = id
  BY <1>1, AtWorkFacts
<1>3. /\ r \in plan /\ v.artifact = r.id /\ v.task = k /\ v = VersionId(r.id, k)
      /\ v \in DOMAIN versions /\ r.kind # "unchanged" /\ r.id \in DOMAIN nodes
  BY <1>1, <1>2, WritingFacts DEF AtWork, Recording, JobSafe, ItemSafe, ItemVersion
<1>4. /\ Stays(r) /\ \A id : PrintOf(id)' = IF id = r.id THEN r.fp ELSE PrintOf(id)
  BY <1>1 DEF PutsPrint
<1>5. /\ OnlyMoves(p) /\ job'[p].stage = "succeeds" /\ job'[p].plan = plan
      /\ job'[p].level = job[p].level /\ job'[p].commit = k
      /\ Item(job[p])' = r /\ ItemVersion(job[p])' = v
  BY <1>1 DEF MovesTo
<1>6. TreePaths(job[p].commit)' = TreePaths(k) /\ Changed(job[p].commit)' = Changed(k)
  BY <1>5 DEF TreePaths, TreeObserved, Held, Tree, Touches, Changed
<1>7. \A id : Current(id)' = Current(id)
  BY DEF Current
<1>8. /\ versions[v].path = r.path /\ versions[v].fp = r.fp /\ nodes[r.id].current = v
      /\ nodes[r.id].path = r.path
  BY <1>1, <1>2, <1>3, <1>4 DEF ItemHeld, InHandNew, JobMet, ItemWritten, Recording, Stays
<1>9. NodesExact'
  <2>1. ASSUME NEW id \in DOMAIN nodes PROVE Agrees(id)'
    <3>1. CASE id # r.id
      BY <1>2, <1>4, <1>7, <3>1 DEF Agrees
    <3>2. CASE id = r.id
      <4>1. Current(r.id) = versions[v]
        BY <1>8 DEF Current
      <4>2. QED
        BY <1>4, <1>7, <1>8, <3>2, <4>1 DEF Agrees
    <3>3. QED
      BY <3>1, <3>2
  <2>2. QED
    BY <2>1 DEF NodesExact
<1>10. \A level : Unresolved(job[p], level)' = Unresolved(job[p], level)
  BY <1>5 DEF Unresolved
<1>11. NodesAlive(job[p])'
  <2>1. \A id \in DOMAIN nodes : Alive(k, id) => Alive(job[p].commit, id)'
    BY <1>6, <1>7 DEF Alive
  <2>2. \A id \in DOMAIN nodes :
          nodes[id].path.file \in Changed(k) /\ Unresolved(job[p], LevelOf(id))
            => (nodes[id].path.file \in Changed(job[p].commit) /\ Unresolved(job[p], LevelOf(id)))'
    BY <1>5, <1>6 DEF Unresolved, LevelOf
  <2>3. QED
    BY <1>1, <1>2, <1>5, <2>1, <2>2 DEF NodesAlive
<1>12. VersionsFresh(job[p])'
  BY <1>1, <1>2, <1>5, <1>10
     DEF VersionsFresh, Recording, Changes, VersionId, LevelOf, Unresolved
<1>13. PlanSeen(job[p])'
  BY <1>1, <1>2, <1>5, <1>6 DEF PlanSeen, Stays, Recording
<1>14. VersionsHeld(job[p])'
  <2>1. ASSUME NEW u \in DOMAIN versions, u.task = k
        PROVE  /\ u.artifact \in DOMAIN nodes /\ versions[u].path = nodes[u.artifact].path
               /\ versions[u].fp = PrintOf(u.artifact)'
               /\ versions[u].kind = "deleted" \/ versions[u].path \in TreePaths(k)
    <3>1. CASE u = v
      <4>1. r.path \in TreePaths(k)
        BY <1>1, <1>2, <1>3, <1>4 DEF PlanSeen
      <4>2. QED
        BY <1>3, <1>4, <1>8, <3>1, <4>1
    <3>2. CASE u # v
      <4>1. /\ u.artifact \in DOMAIN nodes /\ versions[u].path = nodes[u.artifact].path
            /\ versions[u].fp = PrintOf(u.artifact)
            /\ versions[u].kind = "deleted" \/ versions[u].path \in TreePaths(k)
        BY <1>1, <1>2, <2>1, <3>2 DEF VersionsHeld, InHandNew
      <4>2. u.artifact # r.id
        <5>1. u \in Version
          BY DEF AtWork, IInv, TypeOK, StoreOK, IsTable
        <5>2. u = VersionId(u.artifact, u.task)
          BY <5>1 DEF Version, VersionId
        <5>3. QED
          BY <1>3, <2>1, <3>2, <5>2
      <4>3. QED
        BY <1>4, <4>1, <4>2
    <3>3. QED
      BY <3>1, <3>2
  <2>2. QED
    BY <1>5, <1>6, <2>1 DEF VersionsHeld, PrintOf
<1>15. ItemHeld(job[p])'
  BY <1>5, <1>8 DEF ItemHeld, InHandNew
<1>16. JobExact(job[p])'
  BY <1>11, <1>12, <1>13, <1>14, <1>15 DEF JobExact
<1>17. QED
  BY <1>2, <1>5, <1>9, <1>16, FirstKeeps

\* What is done is alive in the tree of the commit, or recorded as deleted.
LEMMA FirstDone ==
  ASSUME NEW p, AtWork(p), job[p].stage \in {"contains", "modifies"},
         Item(job[p]).kind = "unchanged" \/ job[p].stage = "modifies",
         UNCHANGED <<history, nodes, prints, versions, synced>>, DoneMoves(p)
  PROVE  FirstInv'
<1>1. PICK r, k, v, plan, j : r = Item(job[p]) /\ k = job[p].commit /\ v = ItemVersion(job[p])
                           /\ plan = job[p].plan /\ j = job'[p]
  OBVIOUS
<1>2. /\ NodesAlive(job[p]) /\ VersionsFresh(job[p]) /\ PlanSeen(job[p]) /\ JobMet(job[p])
      /\ VersionsHeld(job[p]) /\ ItemHeld(job[p]) /\ synced = 0 /\ p \in Proc
  BY AtWorkFacts
<1>3. /\ r \in plan /\ v.artifact = r.id /\ v.task = k
      /\ r.kind # "unchanged" => v \in DOMAIN versions
  BY <1>1, <1>2, WritingFacts DEF AtWork, Recording, JobSafe, ItemSafe
<1>4. /\ OnlyMoves(p) /\ j.stage = "next" /\ j.plan = plan \ {r} /\ j.commit = k
      /\ j.level = job[p].level
  BY <1>1 DEF DoneMoves
<1>5. r.id \in DOMAIN nodes => Alive(k, r.id)
  <2>1. CASE r.kind = "unchanged"
    <3>1. Holds(r.id, r) /\ r.path \in TreePaths(k)
      BY <1>1, <1>2, <1>3, <2>1 DEF JobMet, IdsApart, PlanSeen, Stays
    <3>2. QED
      BY <3>1 DEF Holds, Alive
  <2>2. CASE r.kind # "unchanged"
    <3>1. nodes[r.id].current = v
      BY <1>1, <1>2, <2>2 DEF ItemHeld
    <3>2. /\ versions[v].path = nodes[r.id].path
          /\ versions[v].kind = "deleted" \/ versions[v].path \in TreePaths(k)
      BY <1>1, <1>2, <1>3, <2>2 DEF VersionsHeld, InHandNew
    <3>3. QED
      BY <3>1, <3>2 DEF Alive, Current
  <2>3. QED
    BY <2>1, <2>2
<1>6. \A level : Unresolved(j, level) = Unresolved(job[p], level)
  BY <1>4 DEF Unresolved
<1>7. NodesAlive(j)
  BY <1>1, <1>2, <1>4, <1>5, <1>6 DEF NodesAlive
<1>8. VersionsFresh(j)
  BY <1>1, <1>2, <1>4, <1>6 DEF VersionsFresh
<1>9. PlanSeen(j)
  BY <1>1, <1>2, <1>4 DEF PlanSeen, Recording
<1>10. VersionsHeld(j)
  BY <1>1, <1>2, <1>4 DEF VersionsHeld, InHandNew
<1>11. ItemHeld(j)
  BY <1>4 DEF ItemHeld, InHandNew
<1>12. JobExact(job[p])'
  BY <1>1, <1>7, <1>8, <1>9, <1>10, <1>11, ExactPrime DEF JobExact
<1>13. QED
  BY <1>2, <1>4, <1>12, FirstKeeps, NodesPrime

\* What is seen of a tree stays seen where the next commit changes nothing.
LEMMA TreeObservedOn ==
  ASSUME NEW k \in Nat \ {0}, NEW o \in TreeObserved(k - 1), o.path.file \notin Changed(k)
  PROVE  o \in TreeObserved(k)
<1>1. \A f, c : FileSeen(f, c).path.file = f /\ \A q \in SymbolsSeen(f, c) : q.path.file = f
  BY DEF FileSeen, FilePath, SymbolsSeen
<1>2. PICK f \in Held(k - 1) : o = FileSeen(f, Tree(k - 1)[f]) \/ o \in SymbolsSeen(f, Tree(k - 1)[f])
  BY DEF TreeObserved
<1>3. f \in File /\ f \notin Changed(k)
  BY <1>1, <1>2 DEF Held
<1>4. Tree(k)[f] = Tree(k - 1)[f]
  BY <1>3, TreeFacts
<1>5. f \in Held(k)
  BY <1>2, <1>3, <1>4 DEF Held
<1>6. QED
  BY <1>2, <1>4, <1>5 DEF TreeObserved

\* Between two commits every node is alive in the tree of the first.
LEMMA FirstNext ==
  ASSUME NEW p, AtWork(p), NEW k, k = job[p].commit, NEW n, BeginsAt(p, k + 1, n),
         job[p].stage = "next", job[p].plan = {}, job[p].level = "symbol",
         UNCHANGED <<history, nodes, prints, versions, synced>>
  PROVE  FirstInv'
<1>1. PICK j : j = job'[p]
  OBVIOUS
<1>2. NodesAlive(job[p]) /\ VersionsFresh(job[p]) /\ synced = 0 /\ p \in Proc /\ k \in Nat
  BY AtWorkFacts
<1>3. /\ OnlyMoves(p) /\ j.stage = "task" /\ j.plan = {} /\ j.level = "file" /\ j.commit = k + 1
  BY <1>1 DEF BeginsAt
<1>4. NodesAlive(j)
  <2>1. ASSUME NEW id \in DOMAIN nodes, ~Alive(k + 1, id)
        PROVE  nodes[id].path.file \in Changed(k + 1) /\ Unresolved(j, LevelOf(id))
    <3>1. Alive(k, id)
      BY <1>2 DEF NodesAlive, Unresolved
    <3>2. nodes[id].path \in TreePaths(k) /\ nodes[id].path \notin TreePaths(k + 1)
      BY <2>1, <3>1 DEF Alive
    <3>3. PICK o \in TreeObserved(k) : o.path = nodes[id].path
      BY <3>2 DEF TreePaths
    <3>4. o \notin TreeObserved(k + 1)
      BY <3>2, <3>3 DEF TreePaths
    <3>5. k + 1 \in Nat \ {0} /\ (k + 1) - 1 = k
      BY <1>2
    <3>6. nodes[id].path.file \in Changed(k + 1)
      BY <3>3, <3>4, <3>5, TreeObservedOn
    <3>7. LevelOf(id) \in {"file", "symbol"}
      BY DEF LevelOf
    <3>8. QED
      BY <1>3, <3>6, <3>7 DEF Unresolved
  <2>2. QED
    BY <1>3, <2>1 DEF NodesAlive
<1>5. \A v \in DOMAIN versions : v.task \in Nat /\ v.task <= k
  <2>1. \A v \in DOMAIN versions : v \in Version
    BY DEF AtWork, IInv, TypeOK, StoreOK, IsTable
  <2>2. QED
    BY <1>2, <2>1 DEF VersionsFresh, Version
<1>6. \A v \in DOMAIN versions : v.task <= k + 1 /\ v.task # k + 1
  BY <1>2, <1>5
<1>7. VersionsFresh(j) /\ VersionsHeld(j)
  BY <1>3, <1>6 DEF VersionsFresh, VersionsHeld
<1>8. PlanSeen(j) /\ ItemHeld(j)
  BY <1>3 DEF PlanSeen, ItemHeld, InHandNew, Recording
<1>9. JobExact(job[p])'
  BY <1>1, <1>4, <1>7, <1>8, ExactPrime DEF JobExact
<1>10. QED
  BY <1>2, <1>3, <1>9, FirstKeeps, NodesPrime

\* A first run starts on an empty graph.
LEMMA FirstStart ==
  ASSUME IInv, NEW p \in Proc, Alone(p), Start(p), ~again'
  PROVE  FirstInv'
<1>1. tasks = {} /\ UNCHANGED <<nodes, versions>> /\ synced' = 0
  BY DEF Start, graph
<1>2. DOMAIN versions = {} /\ DOMAIN nodes = {}
  BY <1>1 DEF IInv, NothingDangles, CurrentRecorded
<1>3. BeginsAt(p, 1, Len(history))
  BY BeginDoes DEF Start
<1>4. /\ OnlyMoves(p) /\ job'[p].stage = "task" /\ job'[p].plan = {}
  BY <1>3 DEF BeginsAt
<1>5. JobExact(job[p])'
  BY <1>1, <1>2, <1>4
     DEF JobExact, NodesAlive, VersionsFresh, PlanSeen, VersionsHeld, ItemHeld, InHandNew, Recording
<1>6. \A q \in Proc \ {p} : job'[q].stage = "idle"
  BY <1>4 DEF OnlyMoves, Alone, At
<1>7. \A q \in Proc : JobExact(job[q])'
  BY <1>5, <1>6 DEF JobExact
<1>8. NodesExact'
  BY <1>1, <1>2 DEF NodesExact
<1>9. QED
  BY <1>1, <1>7, <1>8 DEF FirstInv

\* An ingest that finishes leaves what it met; one that crashes promises nothing.
LEMMA FirstStop ==
  ASSUME NEW p, AtWork(p), Stops(p), UNCHANGED <<history, nodes, prints, versions>>,
         \/ synced' = 0
         \/ /\ synced' = job[p].commit /\ job[p].stage = "next"
            /\ job[p].plan = {} /\ job[p].level = "symbol"
  PROVE  FirstInv'
<1>1. \A q \in Proc : job'[q].stage = "idle"
  BY DEF Stops, AtWork, OnlyMoves, Alone, At
<1>2. Active' = {} /\ \A q \in Proc : JobExact(job[q])'
  BY <1>1 DEF Active, At, JobExact
<1>3. ASSUME synced' # 0, NEW id \in DOMAIN nodes PROVE Agrees(id)' /\ Alive(synced, id)'
  <2>1. PICK k : k = job[p].commit
    OBVIOUS
  <2>2. /\ synced' = k /\ job[p].stage = "next" /\ job[p].plan = {} /\ job[p].level = "symbol"
    BY <1>3, <2>1
  <2>3. Agrees(id) /\ NodesAlive(job[p])
    BY <1>3, <2>2, AtWorkFacts
  <2>4. Alive(k, id)
    BY <1>3, <2>1, <2>2, <2>3 DEF NodesAlive, Unresolved
  <2>5. TreePaths(synced)' = TreePaths(k)
    BY <2>2 DEF TreePaths, TreeObserved, Held, Tree, Touches
  <2>6. QED
    BY <2>3, <2>4, <2>5 DEF Agrees, Alive, Current, PrintOf
<1>4. QED
  BY <1>2, <1>3 DEF FirstInv

\* A new commit alters no tree an ingest reads.
LEMMA FirstCommit == ASSUME IInv, HeadInv, FirstInv, Commit PROVE FirstInv'
<1>1. PICK change : history' = Append(history, change)
  BY DEF Commit
<1>2. /\ Len(history) \in Nat /\ \A i \in 1..Len(history) : history'[i] = history[i]
  BY <1>1 DEF IInv, TypeOK
<1>3. UNCHANGED <<nodes, prints, versions, job, synced>>
  BY DEF Commit, graph, ghosts
<1>4. \A k \in 0..Len(history) : TreePaths(k)' = TreePaths(k)
  BY <1>2, TreeKept, TreeObservedKept DEF IInv
<1>5. \A id : Agrees(id)' = Agrees(id) /\ Current(id)' = Current(id)
  BY <1>3 DEF Agrees, Current, PrintOf
<1>6. TreePaths(synced)' = TreePaths(synced)
  <2>1. PICK n : n = synced
    OBVIOUS
  <2>2. TreePaths(n)' = TreePaths(n)
    BY <1>4, <2>1 DEF HeadInv, SyncedMet
  <2>3. TreePaths(synced)' = TreePaths(n)'
    BY <1>3, <2>1 DEF TreePaths, TreeObserved, Held, Tree, Touches
  <2>4. QED
    BY <2>1, <2>2, <2>3
<1>7. \A id : Alive(synced, id)' = Alive(synced, id)
  BY <1>3, <1>5, <1>6 DEF Alive
<1>8. NodesExact' = NodesExact /\ Active' = Active
  BY <1>3, <1>5 DEF NodesExact, Item, Active, At
<1>9. ASSUME NEW q \in Proc PROVE JobExact(job[q])'
  <2>1. SUFFICES ASSUME job[q].stage # "idle" PROVE JobExact(job[q])'
    BY <1>3 DEF JobExact
  <2>2. PICK k : k = job[q].commit
    OBVIOUS
  <2>3. k \in 1..Len(history) /\ k \in 0..Len(history)
    BY <1>2, <2>1, <2>2, JobFacts DEF JobSafe, TaskSafe
  <2>4. /\ NodesAlive(job[q]) /\ VersionsFresh(job[q]) /\ PlanSeen(job[q])
        /\ VersionsHeld(job[q]) /\ ItemHeld(job[q])
    BY <2>1 DEF FirstInv, JobExact
  <2>5. TreePaths(job[q].commit)' = TreePaths(k)
    <3>1. TreePaths(job[q].commit)' = TreePaths(k)'
      BY <1>3, <2>2 DEF TreePaths, TreeObserved, Held, Tree, Touches
    <3>2. QED
      BY <1>4, <2>3, <3>1
  <2>6. Changed(job[q].commit)' = Changed(k)
    BY <1>2, <1>3, <2>2, <2>3 DEF Changed
  <2>7. \A id : Alive(job[q].commit, id)' = Alive(k, id)
    BY <1>3, <1>5, <2>5 DEF Alive
  <2>8. NodesAlive(job[q])'
    BY <1>3, <2>2, <2>4, <2>6, <2>7 DEF NodesAlive, Unresolved, LevelOf
  <2>9. VersionsFresh(job[q])'
    BY <1>3, <2>4 DEF VersionsFresh, Unresolved, LevelOf, Changes, VersionId, Item
  <2>10. PlanSeen(job[q])'
    BY <1>3, <2>2, <2>4, <2>5 DEF PlanSeen, Stays, Item
  <2>11. VersionsHeld(job[q])'
    BY <1>3, <2>2, <2>4, <2>5
       DEF VersionsHeld, InHandNew, Stays, Item, ItemVersion, VersionId, PrintOf
  <2>12. ItemHeld(job[q])'
    BY <1>3, <2>4 DEF ItemHeld, InHandNew, Stays, Item, ItemVersion, VersionId
  <2>13. QED
    BY <2>8, <2>9, <2>10, <2>11, <2>12 DEF JobExact
<1>10. QED
  BY <1>3, <1>5, <1>7, <1>8, <1>9 DEF FirstInv

\* Every statement of a first run keeps it.
LEMMA FirstIngest ==
  ASSUME NEW p, AtWork(p), Ingest(p) \/ Crash(p), ~stolen'
  PROVE  FirstInv'
<1>1. synced = 0 /\ IInv /\ p \in Proc /\ JobMet(job[p]) /\ job[p].stage # "idle" /\ ~Start(p)
  BY AtWorkFacts DEF AtWork, Start, At
<1>2. /\ PlanSeen(job[p]) /\ ItemHeld(job[p]) /\ RowRead(job[p]) /\ job[p] \in Job
      /\ JobSafe(job[p])
  BY <1>1, AtWorkFacts, JobFacts
<1>3. CASE PutTask(p) \/ AppendTask(p)
  <2>1. /\ UNCHANGED <<history, nodes, prints, versions, synced>>
        /\ \E s \in {"taskRow", "resolve"} : MovesTo(p, s)
        /\ job[p].stage \in {"task", "taskRow"}
    BY <1>1, <1>3, GoToDoes DEF PutTask, AppendTask, At, ghosts
  <2>2. \A level : Unresolved(job'[p], level) = Unresolved(job[p], level)
    BY <1>2, <2>1 DEF Unresolved, MovesTo, JobSafe, TaskSafe
  <2>3. ItemHeld(job'[p])
    BY <2>1 DEF ItemHeld, InHandNew, MovesTo
  <2>4. QED
    BY <2>1, <2>2, <2>3, FirstStages DEF MovesTo, Recording
<1>4. CASE Resolve(p)
  <2>1. UNCHANGED <<history, nodes, prints, versions, synced>>
    BY <1>4 DEF Resolve, graph
  <2>2. QED
    BY <1>1, <1>4, <2>1, ResolveDoes, FirstResolve
<1>5. CASE ReadNode(p)
  <2>1. PICK r : Reads(p, r)
    BY <1>1, <1>5, ReadNodeDoes
  <2>2. UNCHANGED <<history, nodes, prints, versions, synced>>
    BY <1>5 DEF ReadNode, graph, ghosts
  <2>3. /\ job'[p].stage \in {"version", "contains"} /\ job[p].stage = "next"
        /\ (job'[p].stage = "contains" => r.kind = "unchanged") /\ OnlyMoves(p)
        /\ job'[p].plan = job[p].plan /\ job'[p].commit = job[p].commit
        /\ job'[p].level = job[p].level
    BY <2>1 DEF Reads
  <2>4. Item(job'[p]) = r
    BY <2>1 DEF Reads, Item
  <2>5. ItemHeld(job'[p])
    BY <2>3, <2>4 DEF ItemHeld, InHandNew
  <2>6. \A level : Unresolved(job'[p], level) = Unresolved(job[p], level)
    BY <2>3 DEF Unresolved
  <2>7. ~Stays(r) => \A t \in job[p].plan : ~Stays(t)
    BY <2>1 DEF Reads, Firsts, Precedes, Stays
  <2>8. QED
    BY <2>2, <2>3, <2>4, <2>5, <2>6, <2>7, FirstStages DEF Recording
<1>6. CASE AppendVersion(p)
  <2>1. /\ UNCHANGED <<history, nodes, prints, synced>> /\ MovesTo(p, "node")
        /\ job[p].stage = "version"
    BY <1>1, <1>6, GoToDoes DEF AppendVersion, At, ghosts
  <2>2. QED
    BY <1>1, <1>2, <1>6, <2>1, AppendVersionDoes, FirstAppend
<1>7. CASE PutNode(p)
  <2>1. PICK s : s = IF Item(job[p]).kind = "deleted" THEN "succeeds" ELSE "print"
    OBVIOUS
  <2>2. /\ UNCHANGED <<history, prints, versions, synced>> /\ MovesTo(p, s)
        /\ job[p].stage = "node"
    BY <1>1, <1>7, <2>1, GoToDoes DEF PutNode, At, ghosts
  <2>3. QED
    BY <1>1, <1>2, <1>7, <2>1, <2>2, PutNodeDoes, FirstPutNode
<1>8. CASE PutPrint(p)
  <2>1. /\ UNCHANGED <<history, nodes, versions, synced>> /\ MovesTo(p, "succeeds")
        /\ job[p].stage = "print"
    BY <1>1, <1>8, GoToDoes DEF PutPrint, At, ghosts
  <2>2. QED
    BY <1>1, <1>8, <2>1, PutPrintDoes, FirstPutPrint
<1>9. ASSUME NEW s \in {"modifies", "contains"}, GoTo(p, s),
             job[p].stage \in {"succeeds", "contains"},
             UNCHANGED <<history, nodes, prints, versions, synced>>
      PROVE  FirstInv'
  <2>1. MovesTo(p, s) /\ Item(job'[p]) = Item(job[p]) /\ ItemVersion(job'[p]) = ItemVersion(job[p])
    BY <1>1, <1>9, GoToDoes DEF MovesTo, Item, ItemVersion, VersionId
  <2>2. \A level : Unresolved(job'[p], level) = Unresolved(job[p], level)
    BY <1>9, <2>1 DEF Unresolved, MovesTo
  <2>3. ItemHeld(job'[p])
    BY <1>2, <1>9, <2>1 DEF ItemHeld, InHandNew, MovesTo
  <2>4. job'[p].stage = s /\ job'[p].plan = job[p].plan /\ job'[p].commit = job[p].commit
        /\ OnlyMoves(p)
    BY <2>1 DEF MovesTo
  <2>5. ~Stays(Item(job[p])) => \A t \in job[p].plan : ~Stays(t)
    BY <1>2, <1>9 DEF PlanSeen, Recording
  <2>6. QED
    BY <1>9, <2>1, <2>2, <2>3, <2>4, <2>5, FirstStages DEF Recording
<1>10. CASE PutSucceeds(p)
  <2>1. UNCHANGED <<history, nodes, prints, versions, synced>> /\ job[p].stage = "succeeds"
        /\ \E s \in {"modifies", "contains"} : GoTo(p, s)
    BY <1>10 DEF PutSucceeds, At, ghosts
  <2>2. QED
    BY <1>9, <2>1
<1>11. CASE PutContains(p) \/ PutModifies(p)
  <2>1. UNCHANGED <<history, nodes, prints, versions, synced>>
        /\ job[p].stage \in {"contains", "modifies"} /\ job[p].stage \in Recording
    BY <1>11 DEF PutContains, PutModifies, At, Recording, ghosts
  <2>2. CASE Done(p) /\ (Item(job[p]).kind = "unchanged" \/ job[p].stage = "modifies")
    BY <1>1, <2>1, <2>2, DoneDoes, FirstDone
  <2>3. CASE GoTo(p, "modifies") /\ job[p].stage = "contains"
    BY <1>9, <2>1, <2>3
  <2>4. QED
    BY <1>11, <2>2, <2>3 DEF PutContains, PutModifies, At
<1>12. CASE NextLevel(p)
  <2>1. NextLevelMoves(p) /\ UNCHANGED <<history, nodes, prints, versions, synced>>
    BY <1>1, <1>12, NextLevelDoes DEF NextLevel, graph, ghosts
  <2>2. ItemHeld(job'[p])
    BY <2>1 DEF ItemHeld, InHandNew, NextLevelMoves
  <2>3. \A level : Unresolved(job'[p], level) = Unresolved(job[p], level)
    BY <2>1 DEF Unresolved, NextLevelMoves
  <2>4. QED
    BY <2>1, <2>2, <2>3, FirstStages DEF NextLevelMoves, Recording
<1>13. CASE NextCommit(p)
  <2>1. PICK k : k = job[p].commit
    OBVIOUS
  <2>2. /\ BeginsAt(p, k + 1, job[p].upto)
        /\ UNCHANGED <<history, nodes, prints, versions, synced>>
        /\ job[p].stage = "next" /\ job[p].plan = {} /\ job[p].level = "symbol"
    BY <1>1, <1>13, <2>1, BeginDoes DEF NextCommit, graph, ghosts, At
  <2>3. QED
    BY <2>1, <2>2, FirstNext
<1>14. CASE Finish(p)
  <2>1. /\ UNCHANGED <<history, nodes, prints, versions>> /\ synced' = job[p].commit /\ Stops(p)
        /\ job[p].stage = "next" /\ job[p].plan = {} /\ job[p].level = "symbol"
    BY <1>1, <1>14, IdleDoes DEF Finish, At, graph
  <2>2. QED
    BY <2>1, FirstStop
<1>15. CASE Crash(p)
  <2>1. Stops(p) /\ UNCHANGED <<history, nodes, prints, versions>> /\ synced' = 0
    BY <1>1, <1>15, IdleDoes DEF Crash, graph, ghosts
  <2>2. QED
    BY <2>1, FirstStop
<1>16. QED
  BY <1>1, <1>3, <1>4, <1>5, <1>6, <1>7, <1>8, <1>10, <1>11, <1>12, <1>13, <1>14, <1>15 DEF Ingest

FirstRun == Undisturbed /\ ~again

\* Every step keeps it, until another ingest starts.
LEMMA FirstStep ==
  /\ IInv /\ (~shared => LoneInv) /\ (Undisturbed => HeadInv) /\ (FirstRun => FirstInv)
  /\ [Next]_vars
  => (FirstRun => FirstInv)'
<1> SUFFICES ASSUME IInv, ~shared => LoneInv, Undisturbed => HeadInv, FirstRun => FirstInv,
                    [Next]_vars, ~shared', ~stolen', ~again'
             PROVE  FirstInv'
  BY DEF Undisturbed, FirstRun
<1>1. CASE UNCHANGED vars
  <2>1. UNCHANGED <<history, nodes, prints, versions, job, synced>> /\ FirstInv
    BY <1>1 DEF vars, graph, ghosts, Undisturbed, FirstRun
  <2>2. \A q \in Proc : JobExact(job[q])'
    BY <2>1, ExactPrime DEF FirstInv
  <2>3. TreePaths(synced)' = TreePaths(synced)
    BY <2>1 DEF TreePaths, TreeObserved, Held, Tree, Touches
  <2>4. \A id : Agrees(id)' = Agrees(id) /\ Alive(synced, id)' = Alive(synced, id)
    BY <2>1, <2>3 DEF Agrees, Current, PrintOf, Alive
  <2>5. NodesExact' = NodesExact /\ Active' = Active
    BY <2>1, <2>4 DEF NodesExact, Item, Active, At
  <2>6. QED
    BY <2>1, <2>2, <2>4, <2>5 DEF FirstInv
<1>2. CASE Commit
  BY <1>2, FirstCommit DEF Commit, ghosts, Undisturbed, FirstRun
<1>3. ASSUME NEW p \in Proc, Ingest(p) \/ Crash(p)
      PROVE  FirstInv'
  <2>1. ~stolen
    BY <1>3 DEF Ingest, Start, PutTask, AppendTask, Resolve, ReadNode, AppendVersion, PutNode,
                PutPrint, PutSucceeds, PutContains, PutModifies, NextLevel, NextCommit, Finish,
                Crash, ghosts
  <2>2. ~shared
    BY <1>3 DEF Ingest, Start, PutTask, AppendTask, Resolve, ReadNode, AppendVersion, PutNode,
                PutPrint, PutSucceeds, PutContains, PutModifies, NextLevel, NextCommit, Finish,
                Crash, ghosts
  <2>3. ~again
    BY <1>3 DEF Ingest, Start, PutTask, AppendTask, Resolve, ReadNode, AppendVersion, PutNode,
                PutPrint, PutSucceeds, PutContains, PutModifies, NextLevel, NextCommit, Finish,
                Crash, ghosts
  <2>4. Alone(p) /\ LoneInv /\ HeadInv /\ FirstInv
    BY <1>3, <2>1, <2>2, <2>3, StepsAlone DEF LoneInv, Undisturbed, FirstRun
  <2>5. CASE Start(p)
    BY <2>4, <2>5, FirstStart
  <2>6. CASE ~Start(p)
    <3>1. job[p].stage # "idle"
      BY <1>3, <2>6 DEF Ingest, PutTask, AppendTask, Resolve, ReadNode, AppendVersion, PutNode,
                PutPrint, PutSucceeds, PutContains, PutModifies, NextLevel, NextCommit, Finish,
                Crash, At
    <3>2. QED
      BY <1>3, <2>4, <3>1, FirstIngest DEF AtWork
  <2>7. QED
    BY <2>5, <2>6
<1>4. QED
  BY <1>1, <1>2, <1>3 DEF Next

\* The invariant of first runs holds at the start.
LEMMA FirstInit == Init => FirstInv
<1> SUFFICES ASSUME Init PROVE FirstInv
  OBVIOUS
<1>1. synced = 0 /\ DOMAIN nodes = {} /\ \A p \in Proc : job[p].stage = "idle"
  BY DEF Init, Idle, EmptyTable
<1>2. QED
  BY <1>1 DEF FirstInv, NodesExact, JobExact

\* There is nothing to record before the first commit.
Unstarted == history = <<>> => DOMAIN nodes = {}

\* A commit makes a history.
LEMMA CommitBegins == ASSUME IInv, Commit PROVE history' # <<>>
<1>1. PICK change : history' = Append(history, change)
  BY DEF Commit
<1>2. Len(history') = Len(history) + 1 /\ Len(history) \in Nat
  BY <1>1 DEF IInv, TypeOK
<1>3. QED
  BY <1>2

\* Until a run starts the graph is empty.
LEMMA UnstartedStep == IInv /\ Unstarted /\ [Next]_vars => Unstarted'
<1> SUFFICES ASSUME IInv, Unstarted, [Next]_vars, history' = <<>> PROVE DOMAIN nodes' = {}
  BY DEF Unstarted
<1>1. CASE UNCHANGED vars
  BY <1>1 DEF vars, graph, Unstarted
<1>2. CASE Commit
  BY <1>2, CommitBegins
<1>3. ASSUME NEW p \in Proc, Ingest(p) \/ Crash(p)
      PROVE  DOMAIN nodes' = {}
  <2>1. history' = history
    BY <1>3 DEF Ingest, Start, PutTask, AppendTask, Resolve, ReadNode, AppendVersion, PutNode,
                PutPrint, PutSucceeds, PutContains, PutModifies, NextLevel, NextCommit, Finish,
                Crash, ghosts
  <2>2. DOMAIN nodes = {}
    BY <2>1 DEF Unstarted
  <2>3. CASE PutNode(p)
    <3>1. job[p].stage # "idle"
      BY <2>3 DEF PutNode, At
    <3>2. job[p].commit \in 1..Len(history)
      BY <3>1, JobFacts DEF JobSafe, TaskSafe
    <3>3. QED
      BY <2>1, <3>2
  <2>4. CASE ~PutNode(p)
    <3>1. UNCHANGED nodes
      BY <1>3, <2>4 DEF Ingest, Start, PutTask, AppendTask, Resolve, ReadNode, AppendVersion,
                PutPrint, PutSucceeds, PutContains, PutModifies, NextLevel, NextCommit, Finish,
                Crash, graph
    <3>2. QED
      BY <2>2, <3>1
  <2>5. QED
    BY <2>3, <2>4
<1>4. QED
  BY <1>1, <1>2, <1>3 DEF Next

\* After a first run each node agrees with its current version, and what HEAD does not
\* hold is a tombstone.
THEOREM FirstRunsAreExact == Spec => []FirstRunIsExact
<1>1. Init => (~shared => LoneInv) /\ (Undisturbed => HeadInv) /\ (FirstRun => FirstInv)
              /\ Unstarted
  BY LoneInit, HeadInit, FirstInit DEF Init, EmptyTable, Unstarted
<1>2. IInv /\ Unstarted /\ (Undisturbed => HeadInv) /\ (FirstRun => FirstInv) => FirstRunIsExact
  <2>1. SUFFICES ASSUME IInv, Unstarted, HeadInv, FirstInv, synced = Len(history), NEW id \in DOMAIN nodes
                 PROVE  /\ Current(id).path = nodes[id].path /\ Current(id).fp = PrintOf(id)
                        /\ \/ \E o \in HeadObserved : o.path = nodes[id].path
                           \/ Current(id).kind = "deleted"
    BY DEF Undisturbed, FirstRun, FirstRunIsExact, Current
  <2>2. HeadObserved = TreeObserved(synced)
    BY <2>1 DEF HeadObserved, TreeObserved, Held
  <2>3. synced # 0
    <3>1. SUFFICES ASSUME Len(history) = 0 PROVE FALSE
      BY <2>1
    <3>2. history = <<>>
      BY <3>1 DEF IInv, TypeOK
    <3>3. QED
      BY <2>1, <3>2 DEF Unstarted
  <2>4. Agrees(id) /\ Alive(synced, id)
    BY <2>1, <2>3 DEF FirstInv
  <2>5. QED
    BY <2>2, <2>4 DEF Agrees, Alive, TreePaths
<1>3. QED
  BY <1>1, <1>2, LoneStep, HeadStep, FirstStep, UnstartedStep, Invariance, PTL DEF Spec
=============================================================================
