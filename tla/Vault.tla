------------------------------- MODULE Vault -------------------------------
(***************************************************************************)
(* The payload of brain0: summaries, commit messages and diffs, kept by    *)
(* content in one store, the rows that refer to them, and the vectors made *)
(* from them.  `brain0 ingest` and `brain0 observe` add to all three,      *)
(* `brain0 purge` destroys contents and the vectors derived from them,     *)
(* `brain0 reembed` makes every vector anew.  Each statement commits on    *)
(* its own, processes interleave and may crash; Blobs opens up the file    *)
(* operations that a put or a shred is here one step of.                   *)
(***************************************************************************)
EXTENDS Naturals, Sequences, FiniteSets, Tables

CONSTANTS
  Session,      \* tasks of agent sessions, which observe embeds
  CommitTask,   \* tasks of commits, which carry diffs and are not embedded
  Content,      \* texts
  Writer,       \* processes that run a command on the index
  Configured,   \* the embedding model of the configuration
  Nomic,        \* the one the fallback chain tries next
  Offline,      \* the local feature hashing, which always works
  DimOf,        \* dimensions of the models
  MaxRows,      \* bound on the rows there are when a command starts that adds some
  MaxCommands,  \* bound on the commands run
  MaxKills      \* bound on their crashes

Nothing == "nothing"   \* no model declared

ASSUME VaultAssumption ==
  /\ MaxRows \in Nat /\ MaxCommands \in Nat /\ MaxKills \in Nat
  /\ DimOf \in [{Configured, Nomic, Offline} -> Nat \ {0}]
  /\ Nothing \notin {Configured, Nomic, Offline}
  /\ Session \cap CommitTask = {}

VaultTask == Session \cup CommitTask
Embedder == {Configured, Nomic, Offline}

VARIABLES
  rows,       \* rows with a reference, oldest first: [kind, task, ref, purged]
  stored,     \* contents the payload store holds
  vectors,    \* task_embeddings: task -> [by, of]
  metaModel,  \* meta.embedding_model
  metaDim,    \* meta.embedding_dim, 0 before it is set
  command,    \* what each process is doing
  commands,   \* commands started
  kills,      \* commands that crashed
  met,        \* kinds of commands that have run at the same time
  torn        \* tasks a purge of which crashed, until one by task is done

vaultTables == <<rows, stored, vectors, metaModel, metaDim>>
vaultVars == <<vaultTables, command, commands, kills, met, torn>>

AtRest == [kind |-> "none", stage |-> "idle", task |-> {}, text |-> {}, by |-> Nothing,
           targets |-> {}, tasks |-> {}, named |-> {}]

Stands(p, stage) == command[p].stage = stage

Proceed(p, stage) == command' = [command EXCEPT ![p].stage = stage]

Only(s) == CHOOSE x \in s : TRUE

Refs(kinds) == {rows[i].ref : i \in {k \in DOMAIN rows : rows[k].kind \in kinds}}

RefsOfTask(t) ==
  {rows[i].ref : i \in {k \in DOMAIN rows : rows[k].kind = "task" /\ rows[k].task = t}}

\* Time is the order of the rows: those up to a cutoff are older than it.
OlderThan(cutoff) ==
  {<<rows[i].task, rows[i].ref>> :
     i \in {k \in DOMAIN rows : k <= cutoff /\ rows[k].kind = "task" /\ ~rows[k].purged}}

\* A commit has one message and, here, one diff; ingest replays it as it was.
RowsOf(kind, t) == {i \in DOMAIN rows : rows[i].kind = kind /\ rows[i].task = t}

Texts(kind, t) ==
  IF RowsOf(kind, t) = {} THEN Content ELSE {rows[i].ref : i \in RowsOf(kind, t)}

VaultInit ==
  /\ rows = <<>>
  /\ stored = {}
  /\ vectors = EmptyTable
  /\ metaModel = Nothing
  /\ metaDim = 0
  /\ command = [p \in Writer |-> AtRest]
  /\ commands = 0
  /\ kills = 0
  /\ met = {}
  /\ torn = {}

\* A command starts; met remembers the kinds it runs beside.
Launch(p, cmd) ==
  /\ Stands(p, "idle")
  /\ commands < MaxCommands
  /\ command' = [command EXCEPT ![p] = cmd]
  /\ commands' = commands + 1
  /\ met' = met \cup {{cmd.kind, command[q].kind} : q \in {w \in Writer : ~Stands(w, "idle")}}
  /\ UNCHANGED <<vaultTables, kills, torn>>

Quiet == UNCHANGED <<commands, kills, met, torn>>

\* embedder_with_fallback, for the models that answer the health check.
Fallback(up) ==
  IF Configured \in up THEN Configured
  ELSE IF Configured \notin {Offline, Nomic} /\ Nomic \in up THEN Nomic ELSE Offline

Reachable == {Fallback(up) : up \in SUBSET Embedder}

(***************************************************************************)
(* brain0 observe, for one turn of a session, and brain0 ingest, for one   *)
(* commit with one diff.                                                   *)
(***************************************************************************)
Observe(p) ==
  /\ Len(rows) < MaxRows
  /\ \E t \in Session, c \in Content, e \in Reachable :
       Launch(p, [AtRest EXCEPT !.kind = "observe", !.task = {t}, !.text = {c}, !.by = e,
                 !.stage = IF metaModel = Nothing \/ metaDim = 0 THEN "model" ELSE "put"])

Ingest(p) ==
  /\ Len(rows) < MaxRows
  /\ \E t \in CommitTask : \E c \in Texts("task", t) :
       Launch(p, [AtRest EXCEPT !.kind = "ingest", !.task = {t}, !.text = {c},
                    !.stage = "put"])

\* set_embedding_meta is two statements.
SetModel(p) ==
  /\ Stands(p, "model")
  /\ metaModel' = command[p].by
  /\ Proceed(p, "dim")
  /\ UNCHANGED <<rows, stored, vectors, metaDim>> /\ Quiet

SetDim(p) ==
  /\ Stands(p, "dim")
  /\ metaDim' = DimOf[command[p].by]
  /\ Proceed(p, IF command[p].kind = "observe" THEN "put" ELSE "next")
  /\ UNCHANGED <<rows, stored, vectors, metaModel>> /\ Quiet

\* The content goes to the store before the row that refers to it...
PutText(p) ==
  /\ Stands(p, "put")
  /\ stored' = stored \cup command[p].text
  /\ Proceed(p, "row")
  /\ UNCHANGED <<rows, vectors, metaModel, metaDim>> /\ Quiet

\* ... which is a version of a session's task, or of a commit's task or artifact.
\* These two have ids of their own, so that a replayed commit adds no row.
Row(cmd) ==
  [kind |-> IF cmd.kind = "diff" THEN "artifact" ELSE "task", task |-> Only(cmd.task),
   ref |-> Only(cmd.text), purged |-> FALSE]

OnRecord(row) == row.task \in CommitTask /\ RowsOf(row.kind, row.task) # {}

\* A commit that changes nothing the graph does not know yet has no diff to put.
AfterRow(cmd) ==
  CASE cmd.kind = "observe" -> {[cmd EXCEPT !.stage = "check"]}
    [] cmd.kind = "ingest"  -> {AtRest} \cup
         {[cmd EXCEPT !.kind = "diff", !.stage = "put", !.text = {c}] :
            c \in Texts("artifact", Only(cmd.task))}
    [] cmd.kind = "diff"    -> {AtRest}

AppendRow(p) ==
  /\ Stands(p, "row")
  /\ LET row == Row(command[p])
     IN  rows' = IF OnRecord(row) THEN rows ELSE Append(rows, row)
  /\ \E after \in AfterRow(command[p]) : command' = [command EXCEPT ![p] = after]
  /\ UNCHANGED <<stored, vectors, metaModel, metaDim>> /\ Quiet

\* put_task_embedding refuses a vector of another dimension than the declared one;
\* observe then ends with an error, as does re-embedding...
CheckDim(p) ==
  /\ Stands(p, "check")
  /\ IF metaModel = Nothing \/ metaDim \in {0, DimOf[command[p].by]}
     THEN Proceed(p, "vector")
     ELSE command' = [command EXCEPT ![p] = AtRest]
  /\ UNCHANGED vaultTables /\ Quiet

\* ... and a failing embedder skips the vector.
SkipVector(p) ==
  /\ Stands(p, "check")
  /\ command[p].kind = "observe"
  /\ command' = [command EXCEPT ![p] = AtRest]
  /\ UNCHANGED vaultTables /\ Quiet

PutVector(p) ==
  /\ Stands(p, "vector")
  /\ LET cmd == command[p]
     IN  /\ vectors' = InsertOrReplace(vectors, Only(cmd.task),
                         [by |-> cmd.by, of |-> cmd.text])
         /\ IF cmd.kind = "observe"
            THEN command' = [command EXCEPT ![p] = AtRest]
            ELSE command' = [command EXCEPT ![p].stage = "next", ![p].task = {},
                               ![p].text = {}]
  /\ UNCHANGED <<rows, stored, metaModel, metaDim>> /\ Quiet

(***************************************************************************)
(* brain0 purge: the targets are read first, then each is shredded and     *)
(* marked, and the vectors of the tasks concerned are deleted last.        *)
(***************************************************************************)
Purge(p) ==
  \E named \in {{}} \cup {{t} : t \in VaultTask}, cutoff \in 0..Len(rows) :
    LET targets == OlderThan(cutoff) \cup UNION {{t} \X RefsOfTask(t) : t \in named}
    IN  /\ named # {} \/ cutoff > 0
        /\ Launch(p, [AtRest EXCEPT !.kind = "purge", !.stage = "shred", !.named = named,
                        !.targets = targets, !.tasks = {x[1] : x \in targets}])

Shred(p) ==
  /\ Stands(p, "shred")
  /\ \E x \in command[p].targets :
       /\ stored' = stored \ {x[2]}
       /\ command' = [command EXCEPT ![p].stage = "mark", ![p].text = {x[2]},
                        ![p].targets = @ \ {x}]
  /\ UNCHANGED <<rows, vectors, metaModel, metaDim>> /\ Quiet

\* Variant with a fault: only the rows of the tasks that are purged are marked.
MarkedInTasks(i, cmd) == rows[i].ref \in cmd.text /\ rows[i].task \in cmd.tasks

\* mark_payload_purged goes by content: rows of other tasks are marked as well.
Marked(i, cmd) == rows[i].ref \in cmd.text

\* The two UPDATEs, of task_versions and artifact_versions, are one step: no command reads
\* the mark on the latter.
MarkPurged(p) ==
  /\ Stands(p, "mark")
  /\ rows' = [i \in DOMAIN rows |->
                IF Marked(i, command[p]) THEN [rows[i] EXCEPT !.purged = TRUE] ELSE rows[i]]
  /\ command' = [command EXCEPT ![p].stage = "shred", ![p].text = {}]
  /\ UNCHANGED <<stored, vectors, metaModel, metaDim>> /\ Quiet

\* Variant with a fault: a task is dropped from the affected ones with its first target.
AffectedLeft(cmd, t) == {}

Affected(cmd, t) == cmd.tasks \ {t}

DeleteVector(p) ==
  /\ Stands(p, "shred")
  /\ command[p].targets = {}
  /\ \E t \in command[p].tasks :
       /\ vectors' = [u \in DOMAIN vectors \ {t} |-> vectors[u]]
       /\ command' = [command EXCEPT ![p].tasks = Affected(command[p], t)]
       /\ torn' = torn \ (command[p].named \cap {t})
  /\ UNCHANGED <<rows, stored, metaModel, metaDim, commands, kills, met>>

EndPurge(p) ==
  /\ Stands(p, "shred")
  /\ command[p].targets = {} /\ command[p].tasks = {}
  /\ command' = [command EXCEPT ![p] = AtRest]
  /\ UNCHANGED vaultTables /\ Quiet

(***************************************************************************)
(* brain0 reembed: all vectors go, the model is declared, and every task   *)
(* is embedded from the contents that are left of it.                      *)
(***************************************************************************)
Reembed(p) ==
  \E e \in Reachable :
    Launch(p, [AtRest EXCEPT !.kind = "reembed", !.stage = "clear", !.by = e])

\* Variant with a fault: the old vectors are left to be replaced one by one.
ClearNone(p) ==
  /\ Stands(p, "clear")
  /\ command' = [command EXCEPT ![p].stage = "model", ![p].tasks = VaultTask]
  /\ UNCHANGED vaultTables /\ Quiet

ClearVectors(p) ==
  /\ Stands(p, "clear")
  /\ vectors' = EmptyTable
  /\ command' = [command EXCEPT ![p].stage = "model", ![p].tasks = VaultTask]
  /\ UNCHANGED <<rows, stored, metaModel, metaDim>> /\ Quiet

\* A task without text, or one the embedder fails on, is skipped.
Gather(p) ==
  /\ Stands(p, "next")
  /\ \E t \in command[p].tasks :
       LET text == RefsOfTask(t) \cap stored
       IN  \/ /\ text # {}
              /\ command' = [command EXCEPT ![p].stage = "check", ![p].task = {t},
                               ![p].text = text, ![p].tasks = @ \ {t}]
           \/ command' = [command EXCEPT ![p].tasks = @ \ {t}]
  /\ UNCHANGED vaultTables /\ Quiet

EndReembed(p) ==
  /\ Stands(p, "next")
  /\ command[p].tasks = {}
  /\ command' = [command EXCEPT ![p] = AtRest]
  /\ UNCHANGED vaultTables /\ Quiet

\* The process dies.  A purge leaves its tasks half done.
Kill(p) ==
  /\ ~Stands(p, "idle")
  /\ kills < MaxKills
  /\ kills' = kills + 1
  /\ torn' = IF command[p].kind = "purge" THEN torn \cup command[p].tasks ELSE torn
  /\ command' = [command EXCEPT ![p] = AtRest]
  /\ UNCHANGED <<vaultTables, commands, met>>

VaultNext ==
  \E p \in Writer :
    \/ Observe(p) \/ Ingest(p) \/ Purge(p) \/ Reembed(p)
    \/ SetModel(p) \/ SetDim(p) \/ PutText(p) \/ AppendRow(p)
    \/ CheckDim(p) \/ SkipVector(p) \/ PutVector(p)
    \/ Shred(p) \/ MarkPurged(p) \/ DeleteVector(p) \/ EndPurge(p)
    \/ ClearVectors(p) \/ Gather(p) \/ EndReembed(p)
    \/ Kill(p)

VaultSpec == VaultInit /\ [][VaultNext]_vaultVars

-----------------------------------------------------------------------------
(***************************************************************************)
(* brain0 verify: a reference that resolves to nothing counts as purged.   *)
(***************************************************************************)
Missing == Refs({"task", "artifact"}) \ stored

Purging(p, c) == command[p].kind = "purge" /\ c \in command[p].text

Purges(p, t) == command[p].kind = "purge" /\ t \in command[p].tasks

Beside(kinds) == \E k \in met : k \subseteq kinds /\ "purge" \in k

\* What verify counts as "missing/purged" was purged: an unmarked row resolves, but
\* for the content a purge has just shredded, and that of a purge that crashed
\* there.  Contents are shared between rows, so a mark must reach all of them.  A
\* command that has put a content another one shreds before the row is there
\* breaks it, so commands that write beside a purge are left out.
MissingIsPurged ==
  (~Beside({"purge", "observe", "ingest", "diff"}) /\ torn = {}) =>
    \A i \in DOMAIN rows :
      rows[i].ref \in Missing =>
        rows[i].purged \/ \E p \in Writer : Purging(p, rows[i].ref)

Shared(c) ==
  Cardinality({rows[i].task : i \in {k \in DOMAIN rows : rows[k].ref = c}}) > 1

\* "A secret must not survive in the vector": a content that was shredded is in no
\* vector, but while its purge is still at work.  Three exceptions are the code's:
\* a content two tasks share (only the vectors of the purged task go), a purge that
\* crashed and was not repeated by task (one by age no longer finds the rows it has
\* marked), and a command that embeds beside the purge.
NoVectorSurvives ==
  ~Beside({"purge", "observe", "reembed"}) =>
    \A t \in DOMAIN vectors \ torn : \A c \in vectors[t].of :
      c \in stored \/ Shared(c) \/ \E p \in Writer : Purges(p, t)

\* "Replace, never mix": all vectors have the declared dimension, also after a crash
\* anywhere in a re-embedding, as long as no other command sets or checks the
\* dimension at the same time.
OneDimension ==
  (met \cap {{"observe"}, {"observe", "reembed"}, {"reembed"}} = {}) =>
    \A t \in DOMAIN vectors :
      DimOf[vectors[t].by] = metaDim
=============================================================================
