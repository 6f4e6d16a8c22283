---------------------------- MODULE GraphIngest ----------------------------
(***************************************************************************)
(* The fact side of brain0: `brain0 ingest` reads a git history, oldest    *)
(* commit first, and crates/brain0-observer turns each commit into         *)
(* statements against the graph store.  Every statement commits on its     *)
(* own, so a crash or another ingesting process may come between any two.  *)
(* A run always starts again from the first commit.                        *)
(***************************************************************************)
EXTENDS Naturals, Sequences, FiniteSets, Identity, Tables

CONSTANTS
  File,        \* repository files, positive naturals
  Name,        \* symbol names, naturals other than WholeFile
  Content,     \* distinguishable contents of a file
  FilePrint,   \* the structural fingerprint of a content
  Symbols,     \* the symbols of a content, a set of records [name, fp]
  Proc,        \* processes that may run `brain0 ingest`
  MaxCommits,  \* bound on the history
  MaxCrashes   \* bound on the crashes of ingesting processes

Fingerprint == UNION {{FilePrint[c]} \cup {s.fp : s \in Symbols[c]} : c \in Content}

ASSUME ContentAssumption ==
  /\ File \subseteq Nat \ {0}
  /\ Name \subseteq Nat \ {WholeFile}
  /\ \A c \in Content : Symbols[c] \subseteq [name : Name, fp : Fingerprint]

ASSUME BoundAssumption == MaxCommits \in Nat /\ MaxCrashes \in Nat

Absent == "absent"    \* a file a commit deletes, or that is not there
NoPrint == {}         \* a node with no row in artifact_fingerprints

\* The derived container of every file: the repository and module nodes, whose
\* ids are hashes of their path alone.  Their rows are not modelled.
Module == Derive(FilePath(0), NoPrint)

VARIABLES
  history,    \* the commits: functions from changed files to new contents
  nodes,      \* artifact_nodes: id -> [path, parent, current]
  prints,     \* artifact_fingerprints: id -> fingerprint
  versions,   \* artifact_versions: [artifact, task] -> [path, fp, kind]
  succeeds,   \* artifact_version_succeeds edges: set of [from, to]
  contains,   \* artifact_contains edges: set of [parent, child]
  modifies,   \* task_modifies_artifact edges: [task, artifact] -> version
  tasks,      \* task_nodes of the commits, by position in the history
  taskRows,   \* task_versions of the commits
  job,        \* what each process is doing
  crashes,    \* number of crashes so far
  \* what the properties look back on:
  shared,     \* two ingests have run at the same time
  stolen,     \* a newborn artifact was given the id of one that lives on
  synced,     \* commits covered by the last ingest, 0 from the start of a new one
  finished,   \* commits covered by some finished ingest
  again       \* an ingest has started after another one had

graph == <<nodes, prints, versions, succeeds, contains, modifies, tasks, taskRows>>
ghosts == <<shared, stolen, synced, finished, again>>
vars  == <<history, graph, job, crashes, ghosts>>

(***************************************************************************)
(* The history.  A tree is what the commits up to one of them leave.       *)
(***************************************************************************)
Touches(f, k) == {i \in 1..k : f \in DOMAIN history[i]}

Tree(k) ==
  [f \in File |->
     IF Touches(f, k) = {} THEN Absent
     ELSE LET last == CHOOSE i \in Touches(f, k) :
                        \A j \in Touches(f, k) : j <= i
          IN  history[last][f]]

Changed(k) == DOMAIN history[k]

Present(k) == {f \in Changed(k) : history[k][f] # Absent}

\* What parsing a file of some content yields at each level, and what parsing the
\* files present in a commit does.
FileSeen(f, c) == [path |-> FilePath(f), fp |-> FilePrint[c]]

SymbolsSeen(f, c) ==
  {[path |-> [file |-> f, name |-> s.name], fp |-> s.fp] : s \in Symbols[c]}

Observed(level, k) ==
  IF level = "file" THEN {FileSeen(f, history[k][f]) : f \in Present(k)}
  ELSE UNION {SymbolsSeen(f, history[k][f]) : f \in Present(k)}

LevelOf(id) == IF id.path.name = WholeFile THEN "file" ELSE "symbol"

PrintOf(id) == IF id \in DOMAIN prints THEN prints[id] ELSE NoPrint

\* build_known: every node of the level in the scope of the changed files.  A
\* node whose current version is a deletion is still known.
Known(level, k) ==
  {[id |-> id, path |-> nodes[id].path, fp |-> PrintOf(id)] :
     id \in {i \in DOMAIN nodes :
               LevelOf(i) = level /\ Container(nodes[i].path) \in Changed(k)}}

VersionId(id, k) == [artifact |-> id, task |-> k]

-----------------------------------------------------------------------------
(***************************************************************************)
(* A job: the commit being ingested and the length of the history the run  *)
(* read when it started, the level and the stage reached in it, the        *)
(* artifacts still to record, the one being recorded (a set of at most one *)
(* record), the node row read for it (likewise) and the file ids resolved  *)
(* in this commit.                                                         *)
(***************************************************************************)
Idle == [stage |-> "idle", commit |-> 0, upto |-> 0, level |-> "file",
         plan |-> {}, items |-> {}, rows |-> {}, fileIds |-> EmptyTable]

\* Variant with a fault: a commit is resolved before its task is recorded.
BeginAtResolve(k, n) == [Idle EXCEPT !.stage = "resolve", !.commit = k, !.upto = n]

Begin(k, n) == [Idle EXCEPT !.stage = "task", !.commit = k, !.upto = n]

At(p, stage) == job[p].stage = stage

GoTo(p, stage) == job' = [job EXCEPT ![p].stage = stage]

Item(j) == CHOOSE r \in j.items : TRUE

Row(j) == CHOOSE row \in j.rows : TRUE

\* Records are written in path order, the deletions after the others.
Precedes(r, s) ==
  \/ r.kind # "deleted" /\ s.kind = "deleted"
  \/ /\ (r.kind = "deleted") = (s.kind = "deleted")
     /\ PathBefore(r.path, s.path)

Firsts(plan) == {r \in plan : \A s \in plan : ~Precedes(s, r)}

ParentOf(j) == IF j.level = "file" THEN Module ELSE j.fileIds[Item(j).path.file]

ItemVersion(j) == VersionId(Item(j).id, j.commit)

Init ==
  /\ history = <<>>
  /\ nodes = EmptyTable
  /\ prints = EmptyTable
  /\ versions = EmptyTable
  /\ succeeds = {}
  /\ contains = {}
  /\ modifies = EmptyTable
  /\ tasks = {}
  /\ taskRows = {}
  /\ job = [p \in Proc |-> Idle]
  /\ crashes = 0
  /\ shared = FALSE
  /\ stolen = FALSE
  /\ synced = 0
  /\ finished = 0
  /\ again = FALSE

\* The observed project: a commit changes the content of at least one file.
Commit ==
  /\ Len(history) < MaxCommits
  /\ \E files \in (SUBSET File) \ {{}} :
       \E change \in [files -> Content \cup {Absent}] :
         /\ \A f \in files : change[f] # Tree(Len(history))[f]
         /\ history' = Append(history, change)
  /\ UNCHANGED <<graph, job, crashes, ghosts>>

\* cmd_ingest: the whole history is read first, then ingested commit by commit.
Start(p) ==
  /\ At(p, "idle")
  /\ history # <<>>
  /\ job' = [job EXCEPT ![p] = Begin(1, Len(history))]
  /\ shared' = (shared \/ \E q \in Proc : ~At(q, "idle"))
  /\ synced' = 0
  /\ again' = (again \/ tasks # {})
  /\ UNCHANGED <<history, graph, crashes, stolen, finished>>

\* ingest: the commit's task node, then its task version.
PutTask(p) ==
  /\ At(p, "task")
  /\ tasks' = tasks \cup {job[p].commit}
  /\ GoTo(p, "taskRow")
  /\ UNCHANGED <<history, nodes, prints, versions, succeeds, contains, modifies,
                 taskRows, crashes, ghosts>>

AppendTask(p) ==
  /\ At(p, "taskRow")
  /\ taskRows' = taskRows \cup {job[p].commit}
  /\ GoTo(p, "resolve")
  /\ UNCHANGED <<history, nodes, prints, versions, succeeds, contains, modifies,
                 tasks, crashes, ghosts>>

\* Variant with a fault: only the files added by the commit are remembered.
FileIdsOfAdded(plan) ==
  LET added == {r \in plan : r.kind = "added"}
  IN  [f \in {r.path.file : r \in added} |->
         (CHOOSE r \in added : r.path.file = f).id]

FileIds(plan) ==
  LET present == {r \in plan : r.kind # "deleted"}
  IN  [f \in {r.path.file : r \in present} |->
         (CHOOSE r \in present : r.path.file = f).id]

\* An identity is stolen when a newborn artifact gets the id of a node that lives
\* on: the file at its path is in the tree, or the same batch continues it.
Steals(plan, level, k) ==
  \E r \in plan :
    /\ r.kind = "added"
    /\ r.id \in DOMAIN nodes
    /\ \/ Tree(k)[nodes[r.id].path.file] # Absent
       \/ \E s \in plan : s # r /\ s.kind # "deleted" /\ s.id = r.id

\* One level of a commit is resolved against what the graph holds now.
Resolve(p) ==
  /\ At(p, "resolve")
  /\ LET level == job[p].level
         k     == job[p].commit
     IN  \E plan \in Resolutions(Known(level, k), Observed(level, k)) :
           /\ job' = [job EXCEPT
                ![p].stage = "next",
                ![p].plan = plan,
                ![p].fileIds = IF level = "file" THEN FileIds(plan) ELSE @]
           /\ stolen' = (stolen \/ Steals(plan, level, k))
  /\ UNCHANGED <<history, graph, crashes, shared, synced, finished, again>>

\* Variants with a fault: no early return for what is unchanged; no version for
\* what is deleted.
FirstStageAlways(r) == "version"

FirstStageOfLive(r) ==
  CASE r.kind = "unchanged" -> "contains" [] r.kind = "deleted" -> "node"
    [] OTHER -> "version"

FirstStage(r) == IF r.kind = "unchanged" THEN "contains" ELSE "version"

\* record_version and record_deletion, entered for the next artifact of the
\* plan.  An unchanged artifact only has its containment refreshed; for any
\* other the node row is read first, if there is one.
ReadNode(p) ==
  /\ At(p, "next")
  /\ \E r \in Firsts(job[p].plan) :
       job' = [job EXCEPT
         ![p].stage = FirstStage(r),
         ![p].items = {r},
         ![p].rows = {nodes[id] : id \in {r.id} \cap DOMAIN nodes}]
  /\ UNCHANGED <<history, graph, crashes, ghosts>>

\* A version is appended unless one of its id is there; a deletion repeats the
\* path and the fingerprint on record.
AppendVersion(p) ==
  /\ At(p, "version")
  /\ LET j == job[p]
         r == Item(j)
     IN  versions' = InsertOrIgnore(versions, ItemVersion(j),
           IF r.kind = "deleted"
           THEN [path |-> Row(j).path, fp |-> PrintOf(r.id), kind |-> r.kind]
           ELSE [path |-> r.path, fp |-> r.fp, kind |-> r.kind])
  /\ GoTo(p, "node")
  /\ UNCHANGED <<history, nodes, prints, succeeds, contains, modifies, tasks,
                 taskRows, crashes, ghosts>>

\* Variant with a fault: a deletion writes back the row exactly as it read it.
TombstoneAsRead(j) == Row(j)

Tombstone(j) == [Row(j) EXCEPT !.current = ItemVersion(j)]

\* The node row is replaced; a deletion writes back the row it read with
\* another current version.
PutNode(p) ==
  /\ At(p, "node")
  /\ LET j == job[p]
         r == Item(j)
     IN  /\ nodes' = InsertOrReplace(nodes, r.id,
                IF r.kind = "deleted"
                THEN Tombstone(j)
                ELSE [path |-> r.path, parent |-> ParentOf(j),
                      current |-> ItemVersion(j)])
         /\ GoTo(p, IF r.kind = "deleted" THEN "succeeds" ELSE "print")
  /\ UNCHANGED <<history, prints, versions, succeeds, contains, modifies, tasks,
                 taskRows, crashes, ghosts>>

PutPrint(p) ==
  /\ At(p, "print")
  /\ prints' = InsertOrReplace(prints, Item(job[p]).id, Item(job[p]).fp)
  /\ GoTo(p, "succeeds")
  /\ UNCHANGED <<history, nodes, versions, succeeds, contains, modifies, tasks,
                 taskRows, crashes, ghosts>>

\* An artifact of the plan is done: back to the plan without it.
Done(p) ==
  job' = [job EXCEPT ![p].stage = "next", ![p].plan = @ \ job[p].items,
                     ![p].items = {}, ![p].rows = {}]

\* The version succeeds the one that was current when the row was read.
PutSucceeds(p) ==
  /\ At(p, "succeeds")
  /\ LET j == job[p]
     IN  /\ succeeds' = succeeds \cup
              {[from |-> v, to |-> ItemVersion(j)] :
                 v \in {row.current : row \in j.rows} \ {ItemVersion(j)}}
         /\ GoTo(p, IF Item(j).kind = "deleted" THEN "modifies" ELSE "contains")
  /\ UNCHANGED <<history, nodes, prints, versions, contains, modifies, tasks,
                 taskRows, crashes, ghosts>>

PutContains(p) ==
  /\ At(p, "contains")
  /\ LET j == job[p]
     IN  /\ contains' = contains \cup {[parent |-> ParentOf(j), child |-> Item(j).id]}
         /\ IF Item(j).kind = "unchanged" THEN Done(p) ELSE GoTo(p, "modifies")
  /\ UNCHANGED <<history, nodes, prints, versions, succeeds, modifies, tasks,
                 taskRows, crashes, ghosts>>

\* Variant with a fault: a change is attributed to the newest commit of the run.
AttributionToHead(j) == [task |-> j.upto, artifact |-> Item(j).id]

Attribution(j) == [task |-> j.commit, artifact |-> Item(j).id]

PutModifies(p) ==
  /\ At(p, "modifies")
  /\ LET j == job[p]
     IN  modifies' = InsertOrIgnore(modifies, Attribution(j), ItemVersion(j))
  /\ Done(p)
  /\ UNCHANGED <<history, nodes, prints, versions, succeeds, contains, tasks,
                 taskRows, crashes, ghosts>>

\* The files are done: the symbols are next.
NextLevel(p) ==
  /\ At(p, "next") /\ job[p].plan = {} /\ job[p].level = "file"
  /\ job' = [job EXCEPT ![p].stage = "resolve", ![p].level = "symbol"]
  /\ UNCHANGED <<history, graph, crashes, ghosts>>

NextCommit(p) ==
  /\ At(p, "next") /\ job[p].plan = {} /\ job[p].level = "symbol"
  /\ job[p].commit < job[p].upto
  /\ job' = [job EXCEPT ![p] = Begin(job[p].commit + 1, job[p].upto)]
  /\ UNCHANGED <<history, graph, crashes, ghosts>>

Finish(p) ==
  /\ At(p, "next") /\ job[p].plan = {} /\ job[p].level = "symbol"
  /\ job[p].commit = job[p].upto
  /\ job' = [job EXCEPT ![p] = Idle]
  /\ synced' = job[p].upto
  /\ finished' = IF job[p].upto > finished THEN job[p].upto ELSE finished
  /\ UNCHANGED <<history, graph, crashes, shared, stolen, again>>

\* The process dies between two statements; what it wrote stays.
Crash(p) ==
  /\ crashes < MaxCrashes
  /\ ~At(p, "idle")
  /\ job' = [job EXCEPT ![p] = Idle]
  /\ crashes' = crashes + 1
  /\ UNCHANGED <<history, graph, ghosts>>

Ingest(p) ==
  \/ Start(p) \/ PutTask(p) \/ AppendTask(p) \/ Resolve(p)
  \/ ReadNode(p) \/ AppendVersion(p) \/ PutNode(p) \/ PutPrint(p)
  \/ PutSucceeds(p) \/ PutContains(p) \/ PutModifies(p)
  \/ NextLevel(p) \/ NextCommit(p) \/ Finish(p)

Next == Commit \/ \E p \in Proc : Ingest(p) \/ Crash(p)

Spec == Init /\ [][Next]_vars

-----------------------------------------------------------------------------
(***************************************************************************)
(* Properties.                                                             *)
(***************************************************************************)
Path == [file : File \cup {0}, name : Name \cup {WholeFile}]
AnyPrint == Fingerprint \cup {NoPrint}
ArtifactId == [path : Path, fp : AnyPrint]
Version == [artifact : ArtifactId, task : Nat]
Kind == {"added", "modified", "renamed", "moved", "deleted"}
NodeRow == [path : Path, parent : ArtifactId, current : Version]
VersionRow == [path : Path, fp : AnyPrint, kind : Kind]
Record == [id : ArtifactId, path : Path, fp : AnyPrint, kind : Kind \cup {"unchanged"}]
Stage == {"idle", "task", "taskRow", "resolve", "next", "version", "node", "print",
          "succeeds", "contains", "modifies"}
Change == UNION {[S -> Content \cup {Absent}] : S \in SUBSET File}

IsTable(table, keys, rows) ==
  /\ DOMAIN table \subseteq keys
  /\ table \in [DOMAIN table -> rows]

FileIdMap == UNION {[S -> ArtifactId] : S \in SUBSET File}
Job == [stage : Stage, commit : Nat, upto : Nat, level : {"file", "symbol"},
        plan : SUBSET Record, items : SUBSET Record, rows : SUBSET NodeRow,
        fileIds : FileIdMap]

StoreOK ==
  /\ IsTable(nodes, ArtifactId, NodeRow)
  /\ IsTable(prints, ArtifactId, AnyPrint)
  /\ IsTable(versions, Version, VersionRow)
  /\ succeeds \subseteq [from : Version, to : Version]
  /\ contains \subseteq [parent : ArtifactId, child : ArtifactId]
  /\ IsTable(modifies, [task : Nat, artifact : ArtifactId], Version)
  /\ tasks \subseteq Nat /\ taskRows \subseteq Nat

GhostsOK ==
  /\ {shared, stolen, again} \subseteq BOOLEAN
  /\ {synced, finished} \subseteq Nat

\* Every variable keeps its type: the tables of the store hold rows of their
\* schema and each process is somewhere in the observer's ingest.
TypeOK ==
  /\ history \in Seq(Change)
  /\ StoreOK
  /\ job \in [Proc -> Job]
  /\ crashes \in Nat
  /\ GhostsOK

\* A node's current version is on record and is one of its own: a reader who
\* follows current_version finds the row, whatever statement a crash or another
\* process comes after (record_version appends before it points).
CurrentRecorded ==
  \A id \in DOMAIN nodes :
    /\ nodes[id].current \in DOMAIN versions
    /\ nodes[id].current.artifact = id

\* No reference dangles after any statement: a version belongs to a commit whose
\* task and task version are on record, a version succeeds a recorded one of the
\* same artifact, containment and parents name nodes, and a task modifies an
\* artifact in the version it recorded for it.
NothingDangles ==
  /\ \A v \in DOMAIN versions : v.task \in tasks \cap taskRows
  /\ \A e \in succeeds :
       /\ {e.from, e.to} \subseteq DOMAIN versions
       /\ e.from # e.to /\ e.from.artifact = e.to.artifact
  /\ \A e \in contains :
       e.parent \in DOMAIN nodes \cup {Module} /\ e.child \in DOMAIN nodes
  /\ \A id \in DOMAIN nodes : nodes[id].parent \in DOMAIN nodes \cup {Module}
  /\ \A e \in DOMAIN modifies :
       modifies[e] = VersionId(e.artifact, e.task) /\ modifies[e] \in DOMAIN versions

\* What makes the two inductive: where a job is tells what it has written.  It
\* stays within the history it read; its commit has its task and task version; the
\* artifacts of its plan that it will not write are nodes already, and so are the
\* files it takes as parents, unless they are still in the plan.
Recording == {"version", "node", "print", "succeeds", "contains", "modifies"}

TaskSafe(j) ==
  /\ j.stage # "idle" => /\ j.commit \in 1..Len(history)
                         /\ j.upto \in 1..Len(history)
  /\ j.stage \in {"idle", "task", "taskRow"} => j.level = "file"
  /\ j.stage \notin {"idle", "task"} => j.commit \in tasks
  /\ j.stage \notin {"idle", "task", "taskRow"} => j.commit \in taskRows

PlanSafe(j) ==
  /\ \A r \in j.plan : r.kind \in {"unchanged", "deleted"} => r.id \in DOMAIN nodes
  /\ j.level = "symbol" =>
       \A r \in j.plan : r.kind # "deleted" => r.path.file \in DOMAIN j.fileIds
  /\ \A f \in DOMAIN j.fileIds :
       \/ j.fileIds[f] \in DOMAIN nodes
       \/ /\ j.level = "file"
          /\ \E r \in j.plan : r.id = j.fileIds[f] /\ r.kind # "deleted"
  /\ j.stage \in Recording \cup {"next"} \/ (j.stage = "resolve" /\ j.level = "symbol")
       => Present(j.commit) \subseteq DOMAIN j.fileIds

ItemSafe(j) ==
  j.stage \in Recording =>
    /\ j.items = {Item(j)} /\ Item(j) \in j.plan
    /\ Item(j).kind = "unchanged" => j.stage = "contains"
    /\ Item(j).kind = "deleted" => j.stage \notin {"print", "contains"} /\ j.rows # {}
    /\ j.stage # "version" /\ Item(j).kind # "unchanged"
         => ItemVersion(j) \in DOMAIN versions
    /\ j.stage \notin {"version", "node"} => Item(j).id \in DOMAIN nodes
    /\ \A row \in j.rows :
         /\ row.current \in DOMAIN versions /\ row.current.artifact = Item(j).id
         /\ row.parent \in DOMAIN nodes \cup {Module}

JobsSafe ==
  \A p \in Proc : TaskSafe(job[p]) /\ PlanSafe(job[p]) /\ ItemSafe(job[p])

\* As long as ingests do not overlap, a file is one node: a crash and any number
\* of re-ingests never leave two nodes at one file path, because resolve always
\* sees the node that is there, tombstones included.
UniqueFilePath ==
  ~shared =>
    \A i, j \in DOMAIN nodes :
      nodes[i].path = nodes[j].path /\ LevelOf(i) = "file" /\ LevelOf(j) = "file"
        => i = j

\* What the tree of the last commit holds at both levels.
HeadObserved ==
  LET tree    == Tree(Len(history))
      present == {f \in File : tree[f] # Absent}
  IN  {FileSeen(f, tree[f]) : f \in present}
      \cup UNION {SymbolsSeen(f, tree[f]) : f \in present}

\* Once a run has gone through the whole history, crashed runs before it
\* included, every file and symbol of HEAD is a node with its path and its
\* fingerprint.  Left out are overlapping ingests and stolen identities.
HeadIsKnown ==
  synced = Len(history) /\ ~shared /\ ~stolen =>
    \A o \in HeadObserved :
      \E id \in DOMAIN nodes : nodes[id].path = o.path /\ PrintOf(id) = o.fp

\* After a first run over the whole history each node agrees with its current
\* version on path and fingerprint, and what HEAD no longer holds is a tombstone:
\* the node's current version is a deletion.  A repeated run can break this,
\* because a version it computes anew is ignored in favour of the recorded one.
FirstRunIsExact ==
  synced = Len(history) /\ ~shared /\ ~stolen /\ ~again =>
    \A id \in DOMAIN nodes :
      LET version == versions[nodes[id].current]
      IN  /\ version.path = nodes[id].path /\ version.fp = PrintOf(id)
          /\ \/ \E o \in HeadObserved : o.path = nodes[id].path
             \/ version.kind = "deleted"

Unattributed ==
  {v \in DOMAIN versions :
     [task |-> v.task, artifact |-> v.artifact] \notin DOMAIN modifies}

Active == {p \in Proc : ~At(p, "idle")}

\* A crash tears at most one artifact: apart from one version per running
\* process, at most as many versions lack the edge that attributes them to
\* their commit as there were crashes.
CrashTearsOne == Cardinality(Unattributed) <= crashes + Cardinality(Active)

\* The version log is append-only: no statement of an ingest, of a re-ingest or
\* of two at once removes or rewrites a version row.
AppendOnlyVersions == [][Extends(versions', versions)]_vars

-----------------------------------------------------------------------------
(***************************************************************************)
(* What the code's comments say of it, and TLC refutes.                    *)
(***************************************************************************)

\* crates/brain0-identity: "This keeps resolution deterministic and total, with
\* no node used twice" - no two artifacts of one batch resolve to one node.
NoNodeUsedTwice ==
  \A p \in Proc : \A r, s \in job[p].plan :
    r.id = s.id /\ r.kind # "deleted" /\ s.kind # "deleted" => r = s

\* crates/brain0-observer: "Idempotent: re-ingesting the same snapshot makes no
\* further changes" - a run over commits that a finished run has covered leaves
\* every node as it is.
ReingestKeepsNodes ==
  [][\A p \in Proc :
       At(p, "node") /\ crashes = 0 /\ ~shared /\ finished >= job[p].upto
         => nodes' = nodes]_vars

\* crates/brain0-observer: "attaches every change to a per-snapshot intent task"
\* - once an uninterrupted run has covered the history, each commit that makes a
\* file appear or disappear has modified an artifact at its path.
EveryChangeAttributed ==
  synced = Len(history) /\ crashes = 0 /\ ~shared =>
    \A k \in 1..Len(history) : \A f \in Changed(k) :
      (Tree(k - 1)[f] = Absent) # (Tree(k)[f] = Absent) =>
        \E e \in DOMAIN modifies :
          e.task = k /\ versions[modifies[e]].path = FilePath(f)
=============================================================================
