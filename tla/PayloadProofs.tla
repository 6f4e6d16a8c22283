--------------------------- MODULE PayloadProofs ----------------------------
(***************************************************************************)
(* What the store keeps of a turn, for any sessions, commits, contents and *)
(* processes.  Of vectors: what is missing was purged, none outlives the   *)
(* content it was made from, and all have the declared dimension.  Of      *)
(* files: none is short or of the other kind unless a process fell or a    *)
(* clear and a sealed writer shared the temporary file, and no key is lost *)
(* unless two processes raced for it.  Of summaries: interrupted runs      *)
(* never pay twice.                                                        *)
(***************************************************************************)
EXTENDS Vault, Blobs, Summaries, FiniteSetTheorems, TLAPS

-----------------------------------------------------------------------------
(***************************************************************************)
(* Vectors and the contents they are made from.                            *)
(***************************************************************************)
Observing ==
  [kind : {"observe"}, stage : {"model", "dim", "put", "row", "check", "vector"},
   task : {{t} : t \in Session}, text : {{c} : c \in Content}, by : Embedder,
   targets : {{}}, tasks : {{}}, named : {{}}]

Ingesting ==
  [kind : {"ingest", "diff"}, stage : {"put", "row"},
   task : {{t} : t \in CommitTask}, text : {{c} : c \in Content}, by : {Nothing},
   targets : {{}}, tasks : {{}}, named : {{}}]

PurgeAt ==
  [kind : {"purge"}, stage : {"shred", "mark"}, task : {{}}, text : SUBSET Content,
   by : {Nothing}, targets : SUBSET (VaultTask \X Content), tasks : SUBSET VaultTask,
   named : SUBSET VaultTask]

Reembedding ==
  [kind : {"reembed"}, stage : {"clear", "model", "dim", "next", "check", "vector"},
   task : {{}} \cup {{t} : t \in VaultTask}, text : SUBSET Content, by : Embedder,
   targets : {{}}, tasks : SUBSET VaultTask, named : {{}}]

Commands == {AtRest} \cup Observing \cup Ingesting \cup PurgeAt \cup Reembedding

RowSet == [kind : {"task", "artifact"}, task : VaultTask, ref : Content, purged : BOOLEAN]

VaultTyped ==
  /\ rows \in Seq(RowSet)
  /\ stored \subseteq Content
  /\ DOMAIN vectors \subseteq VaultTask
  /\ vectors \in [DOMAIN vectors -> [by : Embedder, of : SUBSET Content]]
  /\ metaModel \in Embedder \cup {Nothing} /\ metaDim \in Nat
  /\ command \in [Writer -> Commands]
  /\ torn \subseteq VaultTask

Kind(p) == command[p].kind

Rowers == {"purge", "observe", "ingest", "diff"}
Embedding == {"purge", "observe", "reembed"}
Declaring == {{"observe"}, {"observe", "reembed"}, {"reembed"}}

\* Two commands that are under way were seen to meet.
MetTells ==
  \A p \in Writer : \A q \in Writer \ {p} :
    /\ Kind(p) = "purge" /\ Kind(q) \in Rowers => Beside(Rowers)
    /\ Kind(p) = "purge" /\ Kind(q) \in Embedding => Beside(Embedding)
    /\ {Kind(p), Kind(q)} \in Declaring => met \cap Declaring # {}

RefOf(t, c) ==
  \E i \in DOMAIN rows : rows[i].kind = "task" /\ rows[i].task = t /\ rows[i].ref = c

\* What a purge is going to shred, or has just shredded, is of a task it will clean up.
TargetsOfTasks ==
  \A p \in Writer : Kind(p) = "purge" =>
    /\ \A x \in command[p].targets : x[1] \in command[p].tasks /\ RefOf(x[1], x[2])
    /\ Stands(p, "shred") => command[p].text = {}
    /\ \A c \in command[p].text : \E t \in command[p].tasks : RefOf(t, c)

\* What is about to be embedded for a task is a version of it.
TextOfTask ==
  /\ \A p \in Writer : Stands(p, "check") \/ Stands(p, "vector") =>
       \E t \in VaultTask :
         command[p].task = {t} /\ \A c \in command[p].text : RefOf(t, c)
  /\ \A t \in DOMAIN vectors : \A c \in vectors[t].of : RefOf(t, c)

PurgedEverywhere(c) == \A i \in DOMAIN rows : rows[i].ref = c => rows[i].purged

RowsExplained ==
  ~Beside(Rowers) =>
    /\ \A p \in Writer : Stands(p, "row") => command[p].text \subseteq stored
    /\ \A p \in Writer : Kind(p) = "purge" =>
         \A t \in command[p].named, c \in Content : RefOf(t, c) =>
           <<t, c>> \in command[p].targets \/ c \in command[p].text \/ PurgedEverywhere(c)
    /\ \A i \in DOMAIN rows :
         \/ rows[i].ref \in stored \/ rows[i].purged
         \/ \E p \in Writer : Purging(p, rows[i].ref)
         \/ \E t \in torn : RefOf(t, rows[i].ref)

\* Two tasks have rows of the same content.
InTwoTasks(c) ==
  \E i, k \in DOMAIN rows :
    rows[i].ref = c /\ rows[k].ref = c /\ rows[i].task # rows[k].task

VectorsCovered ==
  ~Beside(Embedding) =>
    /\ \A p \in Writer :
         Kind(p) \in {"observe", "reembed"} /\ command[p].stage \in {"row", "check", "vector"}
           => command[p].text \subseteq stored
    /\ \A t \in DOMAIN vectors \ torn : \A c \in vectors[t].of :
         c \in stored \/ InTwoTasks(c) \/ \E p \in Writer : Purges(p, t)

Declared == metaModel # Nothing /\ metaDim # 0

\* No two commands that declare a dimension or embed have met.
Alone == met \cap Declaring = {}

DimensionOf(p) ==
  /\ command[p].stage \in {"model", "dim"} => DOMAIN vectors = {}
  /\ command[p].stage = "dim" => metaModel # Nothing
  /\ Kind(p) = "observe" /\ command[p].stage \in {"put", "row", "check", "vector"} => Declared
  /\ Kind(p) = "reembed" /\ command[p].stage \in {"next", "check", "vector"} => Declared
  /\ command[p].stage = "vector" => metaDim = DimOf[command[p].by]

DimensionHeld ==
  Alone =>
    /\ ~Declared => DOMAIN vectors = {}
    /\ \A t \in DOMAIN vectors : DimOf[vectors[t].by] = metaDim
    /\ \A p \in Writer : DimensionOf(p)

VaultInv ==
  /\ VaultTyped /\ MetTells /\ TargetsOfTasks /\ TextOfTask
  /\ RowsExplained /\ VectorsCovered /\ DimensionHeld
-----------------------------------------------------------------------------
\* What a process does is told by the stage it is in, and by its kind.
LEMMA ShapeOfCommand ==
  ASSUME VaultTyped, NEW p \in Writer
  PROVE  /\ Stands(p, "idle") => command[p] = AtRest
         /\ command[p].stage \in {"put", "row"} => command[p] \in Observing \cup Ingesting
         /\ command[p].stage \in {"model", "dim", "check", "vector"}
              => command[p] \in Observing \cup Reembedding
         /\ command[p].stage \in {"shred", "mark"} => command[p] \in PurgeAt
         /\ command[p].stage \in {"clear", "next"} => command[p] \in Reembedding
         /\ Kind(p) = "purge" => command[p] \in PurgeAt
         /\ Kind(p) = "observe" => command[p] \in Observing
         /\ Kind(p) = "reembed" => command[p] \in Reembedding
         /\ Kind(p) \in {"ingest", "diff"} => command[p] \in Ingesting
BY DEF VaultTyped, Commands, AtRest, Observing, Ingesting, PurgeAt, Reembedding, Stands, Kind

\* A step of one process leaves the commands of the others alone.
LEMMA OneCommand ==
  ASSUME VaultTyped, NEW p \in Writer, NEW cmd, command' = [command EXCEPT ![p] = cmd]
  PROVE  /\ command'[p] = cmd
         /\ \A q \in Writer \ {p} : command'[q] = command[q]
         /\ cmd \in Commands => command' \in [Writer -> Commands]
BY DEF VaultTyped

\* A command at rest is a command.
LEMMA RestIsCommand == AtRest \in Commands
BY DEF Commands

\* Going on changes the stage of one command.
LEMMA StageStep ==
  ASSUME VaultTyped, NEW p \in Writer, NEW stage, Proceed(p, stage)
  PROVE  command' = [command EXCEPT ![p] = [command[p] EXCEPT !.stage = stage]]
BY DEF Proceed, VaultTyped

\* The fields of a row.
LEMMA RowsAre ==
  ASSUME VaultTyped, NEW i \in DOMAIN rows
  PROVE  /\ rows[i] \in RowSet
         /\ rows[i].kind \in {"task", "artifact"} /\ rows[i].task \in VaultTask
         /\ rows[i].ref \in Content /\ rows[i].purged \in BOOLEAN
<1>1. rows[i] \in RowSet
  BY DEF VaultTyped
<1>2. QED
  BY <1>1 DEF RowSet

\* The contents of a task are those its rows refer to.
LEMMA RefsOfTaskAre ==
  ASSUME VaultTyped, NEW t
  PROVE  RefsOfTask(t) = {c \in Content : RefOf(t, c)}
BY RowsAre DEF RefsOfTask, RefOf

\* Every embedder that can be reached is one.
LEMMA FallbackEmbeds == Reachable \subseteq Embedder
BY DEF Reachable, Fallback, Embedder

-----------------------------------------------------------------------------
\* What a command is when it starts.
Starts(cmd) ==
  /\ cmd.kind \in {"observe", "ingest", "reembed", "purge"}
  /\ cmd.kind = "observe" => cmd.stage = IF Declared THEN "put" ELSE "model"
  /\ cmd.kind = "ingest" => cmd.stage = "put"
  /\ cmd.kind = "reembed" => cmd.stage = "clear"
  /\ cmd.kind = "purge" =>
       /\ cmd.stage = "shred" /\ cmd.text = {}
       /\ \A t \in cmd.named : {t} \X RefsOfTask(t) \subseteq cmd.targets
       /\ \A x \in cmd.targets : x[1] \in cmd.tasks /\ RefOf(x[1], x[2])

\* A command starts with what it will do and nothing in hand.
LEMMA Launches ==
  ASSUME VaultTyped, NEW p \in Writer, Observe(p) \/ Ingest(p) \/ Purge(p) \/ Reembed(p)
  PROVE  \E cmd \in Commands : Launch(p, cmd) /\ Starts(cmd)
<1>1. CASE Observe(p)
  <2>1. PICK t \in Session, c \in Content, e \in Reachable :
          Launch(p, [AtRest EXCEPT !.kind = "observe", !.task = {t}, !.text = {c}, !.by = e,
                 !.stage = IF metaModel = Nothing \/ metaDim = 0 THEN "model" ELSE "put"])
    BY <1>1 DEF Observe
  <2> DEFINE cmd == [AtRest EXCEPT !.kind = "observe", !.task = {t}, !.text = {c}, !.by = e,
                 !.stage = IF metaModel = Nothing \/ metaDim = 0 THEN "model" ELSE "put"]
  <2>2. cmd \in Observing
    BY FallbackEmbeds DEF Observing, AtRest
  <2>3. /\ cmd.kind = "observe"
        /\ cmd.stage = IF Declared THEN "put" ELSE "model"
    BY DEF AtRest, Declared
  <2> HIDE DEF cmd
  <2>4. Starts(cmd)
    BY <2>3 DEF Starts
  <2>5. Launch(p, cmd)
    BY <2>1 DEF cmd
  <2>6. QED
    BY <2>2, <2>4, <2>5 DEF Commands
<1>2. CASE Ingest(p)
  <2>1. PICK t \in CommitTask : \E c \in Texts("task", t) :
       Launch(p, [AtRest EXCEPT !.kind = "ingest", !.task = {t}, !.text = {c},
                    !.stage = "put"])
    BY <1>2 DEF Ingest
  <2>2. PICK c \in Texts("task", t) :
       Launch(p, [AtRest EXCEPT !.kind = "ingest", !.task = {t}, !.text = {c},
                    !.stage = "put"])
    BY <2>1
  <2> DEFINE cmd == [AtRest EXCEPT !.kind = "ingest", !.task = {t}, !.text = {c},
                    !.stage = "put"]
  <2>3. c \in Content
    BY RowsAre DEF Texts, RowsOf
  <2>4. cmd \in Ingesting /\ cmd.kind = "ingest" /\ cmd.stage = "put"
    BY <2>3 DEF Ingesting, AtRest
  <2>5. Launch(p, cmd)
    BY <2>2
  <2> HIDE DEF cmd
  <2>6. QED
    BY <2>4, <2>5 DEF Commands, Starts
<1>3. CASE Purge(p)
  <2>1. PICK named \in {{}} \cup {{t} : t \in VaultTask}, cutoff \in 0..Len(rows) :
    LET targets == OlderThan(cutoff) \cup UNION {{t} \X RefsOfTask(t) : t \in named}
    IN  Launch(p, [AtRest EXCEPT !.kind = "purge", !.stage = "shred", !.named = named,
                        !.targets = targets, !.tasks = {x[1] : x \in targets}])
    BY <1>3 DEF Purge
  <2> DEFINE targets == OlderThan(cutoff) \cup UNION {{t} \X RefsOfTask(t) : t \in named}
             cmd == [AtRest EXCEPT !.kind = "purge", !.stage = "shred", !.named = named,
                        !.targets = targets, !.tasks = {x[1] : x \in targets}]
  <2>2. \A x \in targets : x \in VaultTask \X Content /\ RefOf(x[1], x[2])
    <3>1. \A t \in named : t \in VaultTask
      OBVIOUS
    <3>2. \A x \in OlderThan(cutoff) : x \in VaultTask \X Content /\ RefOf(x[1], x[2])
      <4>1. SUFFICES ASSUME NEW x \in OlderThan(cutoff)
                     PROVE  x \in VaultTask \X Content /\ RefOf(x[1], x[2])
        OBVIOUS
      <4>2. PICK i \in DOMAIN rows :
              rows[i].kind = "task" /\ x = <<rows[i].task, rows[i].ref>>
        BY DEF OlderThan
      <4>3. QED
        BY <4>2, RowsAre DEF RefOf
    <3>3. \A t \in named : \A x \in {t} \X RefsOfTask(t) :
            x \in VaultTask \X Content /\ RefOf(x[1], x[2])
      BY <3>1, RefsOfTaskAre
    <3>4. QED
      BY <3>2, <3>3
  <2>3. /\ cmd.kind = "purge" /\ cmd.stage = "shred" /\ cmd.text = {} /\ cmd.named = named
        /\ cmd.targets = targets /\ cmd.tasks = {x[1] : x \in targets}
    BY DEF AtRest
  <2>4. cmd \in PurgeAt
    <3> HIDE DEF targets
    <3>1. targets \in SUBSET (VaultTask \X Content) /\ {x[1] : x \in targets} \in SUBSET VaultTask
      BY <2>2
    <3>2. QED
      BY <3>1 DEF PurgeAt, AtRest
  <2>5. \A t \in named : {t} \X RefsOfTask(t) \subseteq targets
    OBVIOUS
  <2> HIDE DEF targets
  <2>6. \A x \in targets : x[1] \in {y[1] : y \in targets}
    OBVIOUS
  <2>7. Launch(p, cmd)
    BY <2>1 DEF targets
  <2> HIDE DEF cmd
  <2>8. QED
    BY <2>2, <2>3, <2>4, <2>5, <2>6, <2>7 DEF Commands, Starts
<1>4. CASE Reembed(p)
  <2>1. PICK e \in Reachable :
          Launch(p, [AtRest EXCEPT !.kind = "reembed", !.stage = "clear", !.by = e])
    BY <1>4 DEF Reembed
  <2> DEFINE cmd == [AtRest EXCEPT !.kind = "reembed", !.stage = "clear", !.by = e]
  <2>2. cmd \in Reembedding /\ cmd.kind = "reembed" /\ cmd.stage = "clear"
    BY FallbackEmbeds DEF Reembedding, AtRest
  <2>3. Launch(p, cmd)
    BY <2>1
  <2> HIDE DEF cmd
  <2>4. QED
    BY <2>2, <2>3 DEF Commands, Starts
<1>5. QED
  BY <1>1, <1>2, <1>3, <1>4
-----------------------------------------------------------------------------
\* The fields of a command but for its stage.
Same(old, new) ==
  /\ new.kind = old.kind /\ new.task = old.task /\ new.text = old.text /\ new.by = old.by
  /\ new.targets = old.targets /\ new.tasks = old.tasks /\ new.named = old.named

\* Going on leaves what a command has in hand, and the other commands.
LEMMA Proceeds ==
  ASSUME VaultTyped, NEW p \in Writer, NEW stage, Proceed(p, stage)
  PROVE  /\ command'[p] = [command[p] EXCEPT !.stage = stage]
         /\ ~Stands(p, "idle") => Same(command[p], command'[p]) /\ command'[p].stage = stage
         /\ \A q \in Writer \ {p} : command'[q] = command[q]
         /\ command'[p] \in Commands => command' \in [Writer -> Commands]
<1>1. command' = [command EXCEPT ![p] = [command[p] EXCEPT !.stage = stage]]
  BY StageStep
<1>2. command[p] \in Commands
  BY DEF VaultTyped
<1>3. Same(command[p], [command[p] EXCEPT !.stage = stage])
      /\ [command[p] EXCEPT !.stage = stage].stage = stage
  BY <1>2 DEF Commands, AtRest, Observing, Ingesting, PurgeAt, Reembedding, Same
<1>4. QED
  BY <1>1, <1>3, OneCommand

\* One lemma for each action: its step keeps the types.
LEMMA TypedByTables ==
  ASSUME VaultTyped, UNCHANGED <<vaultTables, torn>>, command' \in [Writer -> Commands]
  PROVE  VaultTyped'
BY DEF VaultTyped, vaultTables

LEMMA TypedByLaunch ==
  ASSUME VaultTyped, NEW p \in Writer, Observe(p) \/ Ingest(p) \/ Purge(p) \/ Reembed(p)
  PROVE  VaultTyped'
BY Launches, OneCommand, TypedByTables DEF Launch

LEMMA TypedByModel ==
  ASSUME VaultTyped, NEW p \in Writer, SetModel(p) \/ SetDim(p)
  PROVE  VaultTyped'
<1>1. command[p] \in Observing \cup Reembedding
  BY ShapeOfCommand DEF SetModel, SetDim, Stands
<1>2. command[p].by \in Embedder /\ DimOf[command[p].by] \in Nat
  BY <1>1, VaultAssumption DEF Observing, Reembedding, Embedder
<1>3. command' \in [Writer -> Commands]
  <2>1. CASE SetModel(p)
    <3>1. [command[p] EXCEPT !.stage = "dim"] \in Commands
      BY <1>1 DEF Observing, Reembedding, Commands
    <3>2. QED
      BY <2>1, <3>1, Proceeds DEF SetModel
  <2>2. CASE SetDim(p)
    <3> DEFINE stage == IF command[p].kind = "observe" THEN "put" ELSE "next"
    <3>1. [command[p] EXCEPT !.stage = stage] \in Commands
      BY <1>1 DEF Observing, Reembedding, Commands
    <3>2. Proceed(p, stage)
      BY <2>2 DEF SetDim
    <3> HIDE DEF stage
    <3>3. QED
      BY <3>1, <3>2, Proceeds
  <2>3. QED
    BY <2>1, <2>2
<1>4. QED
  BY <1>2, <1>3 DEF VaultTyped, SetModel, SetDim, Quiet

LEMMA TypedByText ==
  ASSUME VaultTyped, NEW p \in Writer, PutText(p)
  PROVE  VaultTyped'
<1>1. command[p] \in Observing \cup Ingesting
  BY ShapeOfCommand DEF PutText, Stands
<1>2. command[p].text \subseteq Content
  BY <1>1 DEF Observing, Ingesting
<1>3. [command[p] EXCEPT !.stage = "row"] \in Commands
  BY <1>1 DEF Observing, Ingesting, Commands
<1>4. command' \in [Writer -> Commands]
  BY <1>3, Proceeds DEF PutText
<1>5. QED
  BY <1>2, <1>4 DEF VaultTyped, PutText, Quiet

\* The row that a command is about to write.
LEMMA RowOfCommand ==
  ASSUME VaultTyped, NEW p \in Writer, Stands(p, "row")
  PROVE  /\ Row(command[p]) \in RowSet
         /\ \E t \in VaultTask, c \in Content :
              /\ command[p].task = {t} /\ command[p].text = {c}
              /\ Row(command[p]).task = t /\ Row(command[p]).ref = c
              /\ ~Row(command[p]).purged
              /\ Kind(p) = "observe" => t \in Session /\ Row(command[p]).kind = "task"
         /\ Kind(p) \in {"observe", "ingest", "diff"}
<1>1. command[p] \in Observing \cup Ingesting
  BY ShapeOfCommand DEF Stands
<1>2. PICK t \in VaultTask, c \in Content :
        /\ command[p].task = {t} /\ command[p].text = {c}
        /\ command[p].kind = "observe" => t \in Session
  BY <1>1 DEF Observing, Ingesting, VaultTask
<1>3. Only({t}) = t /\ Only({c}) = c
  BY DEF Only
<1>4. /\ Row(command[p]).task = t /\ Row(command[p]).ref = c /\ Row(command[p]).purged = FALSE
      /\ Row(command[p]).kind \in {"task", "artifact"}
      /\ command[p].kind # "diff" => Row(command[p]).kind = "task"
  BY <1>2, <1>3 DEF Row
<1>5. Row(command[p]) \in RowSet
  BY <1>2, <1>3 DEF Row, RowSet
<1>6. Kind(p) \in {"observe", "ingest", "diff"}
  BY <1>1 DEF Observing, Ingesting, Kind
<1>7. QED
  BY <1>2, <1>4, <1>5, <1>6 DEF Kind

\* A row is appended or was there; the earlier ones stay as they are.
LEMMA RowsGrow ==
  ASSUME VaultTyped, NEW p \in Writer, AppendRow(p)
  PROVE  /\ rows' \in Seq(RowSet)
         /\ DOMAIN rows \subseteq DOMAIN rows'
         /\ \A i \in DOMAIN rows : rows'[i] = rows[i]
         /\ \A i \in DOMAIN rows' : i \in DOMAIN rows \/ rows'[i] = Row(command[p])
         /\ OnRecord(Row(command[p])) \/ \E i \in DOMAIN rows' : rows'[i] = Row(command[p])
<1> DEFINE row == Row(command[p])
<1>1. row \in RowSet
  BY RowOfCommand DEF AppendRow, Stands
<1>2. rows' = IF OnRecord(row) THEN rows ELSE Append(rows, row)
  BY DEF AppendRow
<1>3. rows \in Seq(RowSet)
  BY DEF VaultTyped
<1> HIDE DEF row
<1>4. CASE OnRecord(row)
  BY <1>2, <1>3, <1>4 DEF row
<1>5. CASE ~OnRecord(row)
  <2>1. rows' = Append(rows, row)
    BY <1>2, <1>5
  <2>2. /\ rows' \in Seq(RowSet) /\ Len(rows') = Len(rows) + 1
        /\ \A i \in 1..Len(rows) : rows'[i] = rows[i]
        /\ rows'[Len(rows) + 1] = row
    BY <1>1, <1>3, <2>1
  <2>3. DOMAIN rows = 1..Len(rows) /\ DOMAIN rows' = 1..(Len(rows) + 1) /\ Len(rows) \in Nat
    BY <1>3, <2>2
  <2>4. QED
    BY <2>2, <2>3 DEF row
<1>6. QED
  BY <1>4, <1>5

\* What each action does, for those that change more than their stage.
LEMMA AppendRowIs ==
  ASSUME VaultTyped, NEW p \in Writer, AppendRow(p)
  PROVE  /\ command' \in [Writer -> Commands]
         /\ \A q \in Writer \ {p} : command'[q] = command[q]
         /\ \/ command'[p] = AtRest
            \/ /\ Kind(p) = "observe" /\ Same(command[p], command'[p])
               /\ command'[p].stage = "check"
            \/ Kind(p) = "ingest" /\ command'[p].kind = "diff" /\ command'[p].stage = "put"
<1>1. PICK after \in AfterRow(command[p]) : command' = [command EXCEPT ![p] = after]
  BY DEF AppendRow
<1>2. command[p] \in Observing \cup Ingesting
  BY ShapeOfCommand DEF AppendRow, Stands
<1>3. CASE Kind(p) = "observe"
  <2>1. after = [command[p] EXCEPT !.stage = "check"]
    BY <1>1, <1>3 DEF AfterRow, Kind
  <2>2. after \in Commands /\ Same(command[p], after) /\ after.stage = "check"
    BY <1>2, <1>3, <2>1 DEF Observing, Ingesting, Commands, Same, Kind
  <2>3. QED
    BY <1>1, <1>3, <2>2, OneCommand
<1>4. CASE Kind(p) = "ingest"
  <2>1. after = AtRest \/ \E c \in Texts("artifact", Only(command[p].task)) :
          after = [command[p] EXCEPT !.kind = "diff", !.stage = "put", !.text = {c}]
    BY <1>1, <1>4 DEF AfterRow, Kind
  <2>2. Texts("artifact", Only(command[p].task)) \subseteq Content
    BY RowsAre DEF Texts, RowsOf
  <2>3. after = AtRest \/ (after \in Ingesting /\ after.kind = "diff" /\ after.stage = "put")
    <3>1. command[p] \in Ingesting
      BY <1>2, <1>4 DEF Observing, Ingesting, Kind
    <3>2. QED
      BY <2>1, <2>2, <3>1 DEF Ingesting
  <2>4. QED
    BY <1>1, <1>4, <2>3, OneCommand, RestIsCommand DEF Commands
<1>5. CASE Kind(p) = "diff"
  <2>1. after = AtRest
    BY <1>1, <1>5 DEF AfterRow, Kind
  <2>2. QED
    BY <1>1, <2>1, OneCommand, RestIsCommand
<1>6. QED
  BY <1>2, <1>3, <1>4, <1>5 DEF Observing, Ingesting, Kind

\* And the types after them.
LEMMA TypedByRow ==
  ASSUME VaultTyped, NEW p \in Writer, AppendRow(p)
  PROVE  VaultTyped'
BY RowsGrow, AppendRowIs DEF VaultTyped, AppendRow, Quiet

LEMMA TypedByRest ==
  ASSUME VaultTyped, NEW p \in Writer,
         SkipVector(p) \/ EndPurge(p) \/ EndReembed(p)
  PROVE  VaultTyped' /\ command'[p] = AtRest
BY OneCommand, RestIsCommand, TypedByTables DEF SkipVector, EndPurge, EndReembed, Quiet

LEMMA TypedByKill ==
  ASSUME VaultTyped, NEW p \in Writer, Kill(p)
  PROVE  VaultTyped' /\ command'[p] = AtRest
<1>1. command' \in [Writer -> Commands] /\ command'[p] = AtRest
  BY OneCommand, RestIsCommand DEF Kill
<1>2. command[p].kind = "purge" => command[p].tasks \subseteq VaultTask
  BY ShapeOfCommand DEF Kind, PurgeAt
<1>3. torn' \subseteq VaultTask
  BY <1>2 DEF Kill, VaultTyped
<1>4. QED
  BY <1>1, <1>3 DEF Kill, VaultTyped, vaultTables

LEMMA TypedByCheck ==
  ASSUME VaultTyped, NEW p \in Writer, CheckDim(p)
  PROVE  /\ VaultTyped'
         /\ \/ command'[p] = AtRest
            \/ Same(command[p], command'[p]) /\ command'[p].stage = "vector"
<1>1. command[p] \in Observing \cup Reembedding
  BY ShapeOfCommand DEF CheckDim, Stands
<1>2. [command[p] EXCEPT !.stage = "vector"] \in Commands
  BY <1>1 DEF Observing, Reembedding, Commands
<1>3. ~Stands(p, "idle")
  BY DEF CheckDim, Stands
<1>4. /\ command' \in [Writer -> Commands]
      /\ \/ command'[p] = AtRest
         \/ Same(command[p], command'[p]) /\ command'[p].stage = "vector"
  BY <1>2, <1>3, Proceeds, OneCommand, RestIsCommand DEF CheckDim
<1>5. QED
  BY <1>4, TypedByTables DEF CheckDim, Quiet

\* A vector is written last, or before the next row of a re-embedding.
LEMMA PutVectorIs ==
  ASSUME VaultTyped, TextOfTask, NEW p \in Writer, PutVector(p)
  PROVE  /\ VaultTyped'
         /\ \/ command'[p] = AtRest
            \/ /\ command'[p] \in Reembedding /\ command'[p].stage = "next"
               /\ command[p].kind = "reembed"
         /\ \E t \in VaultTask :
              /\ command[p].task = {t} /\ t \in DOMAIN vectors'
              /\ DOMAIN vectors' = DOMAIN vectors \cup {t}
              /\ vectors'[t].of = command[p].text /\ vectors'[t].by = command[p].by
              /\ \A u \in DOMAIN vectors \ {t} : vectors'[u] = vectors[u]
<1>1. command[p] \in Observing \cup Reembedding
  BY ShapeOfCommand DEF PutVector, Stands
<1>2. PICK t \in VaultTask : command[p].task = {t}
  BY DEF TextOfTask, PutVector
<1>3. Only({t}) = t
  BY DEF Only
<1> DEFINE vec == [by |-> command[p].by, of |-> command[p].text]
<1>4. vec \in [by : Embedder, of : SUBSET Content]
  BY <1>1 DEF Observing, Reembedding
<1>5. vectors' = InsertOrReplace(vectors, t, vec)
  BY <1>2, <1>3 DEF PutVector
<1>6. vec.of = command[p].text /\ vec.by = command[p].by
  OBVIOUS
<1> HIDE DEF vec
<1>7. /\ DOMAIN vectors' = DOMAIN vectors \cup {t} /\ vectors'[t] = vec
      /\ \A u \in DOMAIN vectors \ {t} : vectors'[u] = vectors[u]
      /\ vectors' = [k \in DOMAIN vectors' |-> vectors'[k]]
  BY <1>5 DEF InsertOrReplace
<1>8. \A u \in DOMAIN vectors' : vectors'[u] \in [by : Embedder, of : SUBSET Content]
  BY <1>4, <1>7 DEF VaultTyped
<1>9. vectors' \in [DOMAIN vectors' -> [by : Embedder, of : SUBSET Content]]
  BY <1>7, <1>8
<1>10. /\ command' \in [Writer -> Commands]
       /\ \/ command'[p] = AtRest
          \/ /\ command'[p] \in Reembedding /\ command'[p].stage = "next"
             /\ command[p].kind = "reembed"
  <2>1. CASE command[p].kind = "observe"
    BY <2>1, OneCommand, RestIsCommand DEF PutVector
  <2>2. CASE command[p].kind = "reembed"
    <3> DEFINE new == [command[p] EXCEPT !.stage = "next", !.task = {}, !.text = {}]
    <3>1. new \in Reembedding /\ new.stage = "next"
      BY <1>1, <2>2 DEF Observing, Reembedding
    <3>2. command' = [command EXCEPT ![p] = new]
      BY <2>2 DEF PutVector, VaultTyped
    <3>3. QED
      BY <2>2, <3>1, <3>2, OneCommand DEF Commands
  <2>3. QED
    BY <1>1, <2>1, <2>2 DEF Observing, Reembedding
<1>11. DOMAIN vectors' \subseteq VaultTask
  BY <1>7 DEF VaultTyped
<1>12. VaultTyped'
  BY <1>9, <1>10, <1>11 DEF VaultTyped, PutVector, Quiet
<1>13. QED
  BY <1>2, <1>6, <1>7, <1>10, <1>12

\* Shredding takes one target in hand.
LEMMA ShredIs ==
  ASSUME VaultTyped, NEW p \in Writer, Shred(p)
  PROVE  /\ VaultTyped' /\ command'[p] \in PurgeAt
         /\ \A q \in Writer \ {p} : command'[q] = command[q]
         /\ \E x \in command[p].targets :
              /\ x \in VaultTask \X Content
              /\ stored' = stored \ {x[2]}
              /\ command'[p].text = {x[2]} /\ command'[p].targets = command[p].targets \ {x}
              /\ command'[p].stage = "mark"
              /\ command'[p].tasks = command[p].tasks /\ command'[p].named = command[p].named
<1>1. command[p] \in PurgeAt
  BY ShapeOfCommand DEF Shred, Stands
<1>2. PICK x \in command[p].targets :
       /\ stored' = stored \ {x[2]}
       /\ command' = [command EXCEPT ![p].stage = "mark", ![p].text = {x[2]},
                        ![p].targets = @ \ {x}]
  BY DEF Shred
<1>3. x \in VaultTask \X Content
  BY <1>1 DEF PurgeAt
<1> DEFINE new == [command[p] EXCEPT !.stage = "mark", !.text = {x[2]}, !.targets = @ \ {x}]
<1>4. command' = [command EXCEPT ![p] = new]
  BY <1>2 DEF VaultTyped
<1>5. /\ new \in PurgeAt
      /\ new.text = {x[2]} /\ new.targets = command[p].targets \ {x} /\ new.stage = "mark"
      /\ new.tasks = command[p].tasks /\ new.named = command[p].named
  BY <1>1, <1>3 DEF PurgeAt
<1> HIDE DEF new
<1>6. /\ command' \in [Writer -> Commands] /\ command'[p] = new
      /\ \A q \in Writer \ {p} : command'[q] = command[q]
  BY <1>4, <1>5, OneCommand DEF Commands
<1>7. VaultTyped'
  BY <1>2, <1>6 DEF VaultTyped, Shred, Quiet
<1>8. QED
  BY <1>2, <1>3, <1>5, <1>6, <1>7

\* Marking alters no row but for the mark.
LEMMA MarkPurgedIs ==
  ASSUME VaultTyped, NEW p \in Writer, MarkPurged(p)
  PROVE  /\ VaultTyped' /\ command'[p] \in PurgeAt
         /\ \A q \in Writer \ {p} : command'[q] = command[q]
         /\ command'[p].stage = "shred" /\ command'[p].text = {}
         /\ command'[p].targets = command[p].targets
         /\ command'[p].tasks = command[p].tasks /\ command'[p].named = command[p].named
         /\ DOMAIN rows' = DOMAIN rows
         /\ \A i \in DOMAIN rows :
              /\ rows'[i].kind = rows[i].kind /\ rows'[i].task = rows[i].task
              /\ rows'[i].ref = rows[i].ref
              /\ rows'[i].purged = (rows[i].purged \/ rows[i].ref \in command[p].text)
<1>1. command[p] \in PurgeAt
  BY ShapeOfCommand DEF MarkPurged, Stands
<1> DEFINE new == [command[p] EXCEPT !.stage = "shred", !.text = {}]
           marked(i) == IF Marked(i, command[p]) THEN [rows[i] EXCEPT !.purged = TRUE]
                        ELSE rows[i]
<1>2. command' = [command EXCEPT ![p] = new]
  BY DEF MarkPurged, VaultTyped
<1>3. /\ new \in PurgeAt /\ new.stage = "shred" /\ new.text = {}
      /\ new.targets = command[p].targets
      /\ new.tasks = command[p].tasks /\ new.named = command[p].named
  BY <1>1 DEF PurgeAt
<1> HIDE DEF new
<1>4. /\ command' \in [Writer -> Commands] /\ command'[p] = new
      /\ \A q \in Writer \ {p} : command'[q] = command[q]
  BY <1>2, <1>3, OneCommand DEF Commands
<1>5. ASSUME NEW i \in DOMAIN rows
      PROVE  /\ marked(i) \in RowSet
             /\ marked(i).kind = rows[i].kind /\ marked(i).task = rows[i].task
             /\ marked(i).ref = rows[i].ref
             /\ marked(i).purged = (rows[i].purged \/ rows[i].ref \in command[p].text)
  <2>1. rows[i] \in RowSet
    BY RowsAre
  <2>2. CASE rows[i].ref \in command[p].text
    BY <2>1, <2>2 DEF RowSet, Marked
  <2>3. CASE rows[i].ref \notin command[p].text
    BY <2>1, <2>3 DEF RowSet, Marked
  <2>4. QED
    BY <2>2, <2>3
<1>6. rows' = [i \in DOMAIN rows |-> marked(i)]
  BY DEF MarkPurged
<1> HIDE DEF marked
<1>7. Len(rows) \in Nat /\ DOMAIN rows = 1..Len(rows)
  BY DEF VaultTyped
<1>8. /\ rows' \in [1..Len(rows) -> RowSet] /\ DOMAIN rows' = DOMAIN rows
      /\ \A i \in DOMAIN rows : rows'[i] = marked(i)
  BY <1>5, <1>6, <1>7
<1>9. rows' \in Seq(RowSet)
  BY <1>7, <1>8
<1>10. VaultTyped'
  BY <1>4, <1>9 DEF VaultTyped, MarkPurged, Quiet
<1>11. QED
  BY <1>3, <1>4, <1>5, <1>8, <1>10

\* Vectors go once there are no targets left.
LEMMA DeleteVectorIs ==
  ASSUME VaultTyped, NEW p \in Writer, DeleteVector(p)
  PROVE  /\ VaultTyped' /\ command'[p] \in PurgeAt
         /\ \A q \in Writer \ {p} : command'[q] = command[q]
         /\ command[p].targets = {} /\ command'[p].targets = {}
         /\ command'[p].stage = "shred" /\ command'[p].text = command[p].text
         /\ command'[p].named = command[p].named
         /\ \E t \in command[p].tasks :
              /\ DOMAIN vectors' = DOMAIN vectors \ {t}
              /\ \A u \in DOMAIN vectors' : vectors'[u] = vectors[u]
              /\ command'[p].tasks = command[p].tasks \ {t}
              /\ torn' = torn \ (command[p].named \cap {t})
<1>1. command[p] \in PurgeAt /\ command[p].stage = "shred"
  BY ShapeOfCommand DEF DeleteVector, Stands
<1>2. PICK t \in command[p].tasks :
       /\ vectors' = [u \in DOMAIN vectors \ {t} |-> vectors[u]]
       /\ command' = [command EXCEPT ![p].tasks = Affected(command[p], t)]
       /\ torn' = torn \ (command[p].named \cap {t})
  BY DEF DeleteVector
<1> DEFINE new == [command[p] EXCEPT !.tasks = command[p].tasks \ {t}]
<1>3. command' = [command EXCEPT ![p] = new]
  BY <1>2 DEF Affected, VaultTyped
<1>4. /\ new \in PurgeAt /\ new.stage = "shred" /\ new.text = command[p].text
      /\ new.targets = command[p].targets /\ new.tasks = command[p].tasks \ {t}
      /\ new.named = command[p].named
  BY <1>1 DEF PurgeAt
<1> HIDE DEF new
<1>5. /\ command' \in [Writer -> Commands] /\ command'[p] = new
      /\ \A q \in Writer \ {p} : command'[q] = command[q]
  BY <1>3, <1>4, OneCommand DEF Commands
<1>6. /\ DOMAIN vectors' = DOMAIN vectors \ {t}
      /\ \A u \in DOMAIN vectors' : vectors'[u] = vectors[u]
  BY <1>2
<1>7. vectors' \in [DOMAIN vectors' -> [by : Embedder, of : SUBSET Content]]
  BY <1>2 DEF VaultTyped
<1>8. VaultTyped'
  BY <1>2, <1>5, <1>6, <1>7 DEF VaultTyped, DeleteVector
<1>9. QED
  BY <1>2, <1>4, <1>5, <1>6, <1>8 DEF DeleteVector

\* A re-embedding begins without vectors.
LEMMA ClearVectorsIs ==
  ASSUME VaultTyped, NEW p \in Writer, ClearVectors(p)
  PROVE  /\ VaultTyped' /\ command'[p] \in Reembedding
         /\ \A q \in Writer \ {p} : command'[q] = command[q]
         /\ DOMAIN vectors' = {} /\ command'[p].stage = "model"
<1>1. command[p] \in Reembedding
  BY ShapeOfCommand DEF ClearVectors, Stands
<1> DEFINE new == [command[p] EXCEPT !.stage = "model", !.tasks = VaultTask]
<1>2. command' = [command EXCEPT ![p] = new]
  BY DEF ClearVectors, VaultTyped
<1>3. new \in Reembedding /\ new.stage = "model"
  BY <1>1 DEF Reembedding
<1> HIDE DEF new
<1>4. /\ command' \in [Writer -> Commands] /\ command'[p] = new
      /\ \A q \in Writer \ {p} : command'[q] = command[q]
  BY <1>2, <1>3, OneCommand DEF Commands
<1>5. DOMAIN vectors' = {} /\ vectors' \in [{} -> [by : Embedder, of : SUBSET Content]]
  BY DEF ClearVectors, EmptyTable
<1>6. VaultTyped'
  BY <1>4, <1>5 DEF VaultTyped, ClearVectors, Quiet
<1>7. QED
  BY <1>3, <1>4, <1>5, <1>6

\* It takes row after row.
LEMMA GatherIs ==
  ASSUME VaultTyped, NEW p \in Writer, Gather(p)
  PROVE  /\ VaultTyped' /\ command[p] \in Reembedding /\ command'[p] \in Reembedding
         /\ \A q \in Writer \ {p} : command'[q] = command[q]
         /\ command'[p].by = command[p].by
         /\ \/ command'[p].stage = "next"
            \/ /\ command'[p].stage = "check"
               /\ \E t \in VaultTask :
                    /\ command'[p].task = {t}
                    /\ command'[p].text \subseteq stored
                    /\ \A c \in command'[p].text : RefOf(t, c)
<1>1. command[p] \in Reembedding
  BY ShapeOfCommand DEF Gather, Stands
<1>2. PICK t \in command[p].tasks :
       LET text == RefsOfTask(t) \cap stored
       IN  \/ /\ text # {}
              /\ command' = [command EXCEPT ![p].stage = "check", ![p].task = {t},
                               ![p].text = text, ![p].tasks = @ \ {t}]
           \/ command' = [command EXCEPT ![p].tasks = @ \ {t}]
  BY DEF Gather
<1>3. t \in VaultTask
  BY <1>1 DEF Reembedding
<1> DEFINE text == RefsOfTask(t) \cap stored
           new == [command[p] EXCEPT !.stage = "check", !.task = {t}, !.text = text,
                                     !.tasks = @ \ {t}]
           less == [command[p] EXCEPT !.tasks = @ \ {t}]
<1>4. command' = [command EXCEPT ![p] = new] \/ command' = [command EXCEPT ![p] = less]
  BY <1>2 DEF VaultTyped
<1>5. text \subseteq Content /\ text \subseteq stored /\ \A c \in text : RefOf(t, c)
  BY RefsOfTaskAre
<1> HIDE DEF text
<1>6. /\ new \in Reembedding /\ new.stage = "check" /\ new.task = {t} /\ new.text = text
      /\ new.by = command[p].by
  BY <1>1, <1>3, <1>5 DEF Reembedding
<1>7. less \in Reembedding /\ less.stage = command[p].stage /\ less.by = command[p].by
  BY <1>1 DEF Reembedding
<1> HIDE DEF new, less
<1>8. /\ command' \in [Writer -> Commands] /\ command'[p] \in {new, less}
      /\ \A q \in Writer \ {p} : command'[q] = command[q]
  BY <1>4, <1>6, <1>7, OneCommand DEF Commands
<1>9. VaultTyped'
  BY <1>8, TypedByTables DEF Gather, Quiet
<1>10. command[p].stage = "next"
  BY DEF Gather, Stands
<1>11. QED
  BY <1>1, <1>3, <1>5, <1>6, <1>7, <1>8, <1>9, <1>10
-----------------------------------------------------------------------------
\* The steps of a command, by the parts of the invariant they could disturb.
Working(p) ==
  \/ SetModel(p) \/ SetDim(p) \/ PutText(p) \/ AppendRow(p)
  \/ CheckDim(p) \/ SkipVector(p) \/ PutVector(p)
  \/ Shred(p) \/ MarkPurged(p) \/ DeleteVector(p) \/ EndPurge(p)
  \/ ClearVectors(p) \/ Gather(p) \/ EndReembed(p)
  \/ Kill(p)

\* A command keeps its kind until it ends, but that the one task of an ingest is
\* followed by a diff.
LEMMA KindsStay ==
  ASSUME VaultTyped, TextOfTask, NEW p \in Writer, Working(p)
  PROVE  /\ VaultTyped' /\ met' = met
         /\ \A q \in Writer \ {p} : command'[q] = command[q]
         /\ \/ command'[p] = AtRest
            \/ Kind(p)' = Kind(p)
            \/ Kind(p) = "ingest" /\ Kind(p)' = "diff"
<1>1. CASE SetModel(p) \/ SetDim(p)
  <2>1. ~Stands(p, "idle")
    BY <1>1 DEF SetModel, SetDim, Stands
  <2>2. \E stage : Proceed(p, stage)
    BY <1>1 DEF SetModel, SetDim
  <2>3. QED
    BY <1>1, <2>1, <2>2, Proceeds, TypedByModel DEF SetModel, SetDim, Quiet, Same, Kind
<1>2. CASE PutText(p)
  <2>1. ~Stands(p, "idle")
    BY <1>2 DEF PutText, Stands
  <2>2. QED
    BY <1>2, <2>1, Proceeds, TypedByText DEF PutText, Quiet, Same, Kind
<1>3. CASE AppendRow(p)
  BY <1>3, AppendRowIs, TypedByRow DEF AppendRow, Quiet, Same, Kind
<1>4. CASE CheckDim(p)
  BY <1>4, TypedByCheck, Proceeds, OneCommand DEF CheckDim, Quiet, Same, Kind
<1>5. CASE SkipVector(p) \/ EndPurge(p) \/ EndReembed(p)
  BY <1>5, TypedByRest, OneCommand DEF SkipVector, EndPurge, EndReembed, Quiet
<1>6. CASE PutVector(p)
  <2>1. \A q \in Writer \ {p} : command'[q] = command[q]
    BY <1>6 DEF PutVector, VaultTyped
  <2>2. QED
    BY <1>6, <2>1, PutVectorIs DEF PutVector, Quiet, Kind, Reembedding
<1>7. CASE Shred(p)
  BY <1>7, ShredIs, ShapeOfCommand, ZenonT(40) DEF Shred, Quiet, Kind, PurgeAt, Stands
<1>8. CASE MarkPurged(p)
  BY <1>8, MarkPurgedIs, ShapeOfCommand, ZenonT(40) DEF MarkPurged, Quiet, Kind, PurgeAt, Stands
<1>9. CASE DeleteVector(p)
  BY <1>9, DeleteVectorIs, ShapeOfCommand DEF DeleteVector, Kind, PurgeAt, Stands
<1>10. CASE ClearVectors(p)
  BY <1>10, ClearVectorsIs, ShapeOfCommand DEF ClearVectors, Quiet, Kind, Reembedding, Stands
<1>11. CASE Gather(p)
  BY <1>11, GatherIs DEF Gather, Quiet, Kind, Reembedding
<1>12. CASE Kill(p)
  BY <1>12, TypedByKill, OneCommand DEF Kill
<1>13. QED
  BY <1>1, <1>2, <1>3, <1>4, <1>5, <1>6, <1>7, <1>8, <1>9, <1>10, <1>11, <1>12 DEF Working

\* A command starts, and is noted with those that are under way.
LEMMA LaunchIs ==
  ASSUME VaultTyped, NEW p \in Writer, NEW cmd \in Commands, Launch(p, cmd)
  PROVE  /\ command[p] = AtRest /\ command'[p] = cmd
         /\ \A q \in Writer \ {p} : command'[q] = command[q]
         /\ UNCHANGED <<rows, stored, vectors, metaModel, metaDim, torn>>
         /\ met \subseteq met'
         /\ \A q \in Writer \ {p} : Kind(q) # "none" => {cmd.kind, Kind(q)} \in met'
<1>1. command[p] = AtRest
  BY ShapeOfCommand DEF Launch
<1>2. \A q \in Writer : Stands(q, "idle") => Kind(q) = "none"
  BY ShapeOfCommand DEF AtRest, Kind
<1>3. QED
  BY <1>1, <1>2, OneCommand DEF Launch, vaultTables, Kind

\* Commands that have met have met for good.
LEMMA BesideGrows ==
  ASSUME NEW kinds, met \subseteq met', Beside(kinds)
  PROVE  Beside(kinds)'
BY DEF Beside

\* A command that starts meets all that are under way.
LEMMA MetByLaunch ==
  ASSUME VaultTyped, MetTells, NEW p \in Writer, NEW cmd \in Commands,
         Launch(p, cmd), Starts(cmd)
  PROVE  MetTells'
<1> DEFINE ok(a, b) ==
      /\ a = "purge" /\ b \in Rowers => Beside(Rowers)'
      /\ a = "purge" /\ b \in Embedding => Beside(Embedding)'
      /\ {a, b} \in Declaring => met' \cap Declaring # {}
<1>1. SUFFICES ASSUME NEW q \in Writer, NEW r \in Writer \ {q}
               PROVE  ok(Kind(q)', Kind(r)')
  BY DEF MetTells
<1>2. /\ Kind(p)' = cmd.kind /\ \A s \in Writer \ {p} : Kind(s)' = Kind(s)
      /\ met \subseteq met'
      /\ \A s \in Writer \ {p} : Kind(s) # "none" => {cmd.kind, Kind(s)} \in met'
  BY LaunchIs DEF Kind
<1>3. ASSUME NEW s \in Writer \ {p}
      PROVE  ok(cmd.kind, Kind(s)) /\ ok(Kind(s), cmd.kind)
  <2>1. CASE Kind(s) = "none"
    BY <2>1 DEF Rowers, Embedding, Declaring
  <2>2. CASE Kind(s) # "none"
    <3>1. {cmd.kind, Kind(s)} \in met' /\ {Kind(s), cmd.kind} \in met'
      BY <1>2, <2>2
    <3>2. {Kind(s), cmd.kind} = {cmd.kind, Kind(s)}
      OBVIOUS
    <3>3. QED
      BY <3>1, <3>2 DEF Beside, Rowers, Embedding, Declaring
  <2>3. QED
    BY <2>1, <2>2
<1>4. CASE q # p /\ r # p
  BY <1>2, <1>4, BesideGrows DEF MetTells
<1>5. CASE q = p
  BY <1>2, <1>3, <1>5
<1>6. CASE r = p
  BY <1>2, <1>3, <1>6
<1>7. QED
  BY <1>4, <1>5, <1>6

\* A command that works is known to those it met.
LEMMA MetByWork ==
  ASSUME VaultTyped, TextOfTask, MetTells, NEW p \in Writer, Working(p)
  PROVE  MetTells'
<1>1. SUFFICES ASSUME NEW q \in Writer, NEW r \in Writer \ {q}
               PROVE  /\ Kind(q)' = "purge" /\ Kind(r)' \in Rowers => Beside(Rowers)'
                      /\ Kind(q)' = "purge" /\ Kind(r)' \in Embedding => Beside(Embedding)'
                      /\ {Kind(q)', Kind(r)'} \in Declaring => met' \cap Declaring # {}
  BY DEF MetTells
<1>2. /\ met' = met
      /\ \A s \in Writer :
           \/ Kind(s)' = Kind(s) \/ Kind(s)' = "none"
           \/ Kind(s) = "ingest" /\ Kind(s)' = "diff"
  BY KindsStay DEF Kind, AtRest
<1>3. QED
  BY <1>2 DEF MetTells, Rowers, Embedding, Declaring, Beside
-----------------------------------------------------------------------------
\* Each table is written by few actions.
LEMMA RowsStand ==
  ASSUME NEW p \in Writer, Working(p)
  PROVE  rows' = rows \/ AppendRow(p) \/ MarkPurged(p)
BY DEF Working, SetModel, SetDim, PutText, CheckDim, SkipVector, PutVector, Shred, DeleteVector,
   EndPurge, ClearVectors, Gather, EndReembed, Kill, vaultTables

LEMMA StoredStands ==
  ASSUME NEW p \in Writer, Working(p)
  PROVE  stored' = stored \/ PutText(p) \/ Shred(p)
BY DEF Working, SetModel, SetDim, AppendRow, CheckDim, SkipVector, PutVector, MarkPurged,
   DeleteVector, EndPurge, ClearVectors, Gather, EndReembed, Kill, vaultTables

LEMMA VectorsStand ==
  ASSUME NEW p \in Writer, Working(p)
  PROVE  vectors' = vectors \/ PutVector(p) \/ DeleteVector(p) \/ ClearVectors(p)
BY DEF Working, SetModel, SetDim, AppendRow, CheckDim, SkipVector, PutText, MarkPurged, Shred,
   EndPurge, Gather, EndReembed, Kill, vaultTables

LEMMA TornStands ==
  ASSUME NEW p \in Writer, Working(p)
  PROVE  torn' = torn \/ DeleteVector(p) \/ Kill(p)
BY DEF Working, SetModel, SetDim, AppendRow, CheckDim, SkipVector, PutText, MarkPurged, Shred,
   EndPurge, Gather, EndReembed, PutVector, ClearVectors, Quiet

LEMMA DeclarationStands ==
  ASSUME NEW p \in Writer, Working(p)
  PROVE  UNCHANGED <<metaModel, metaDim>> \/ SetModel(p) \/ SetDim(p)
BY DEF Working, AppendRow, CheckDim, SkipVector, PutText, MarkPurged, Shred, PutVector,
   DeleteVector, EndPurge, ClearVectors, Gather, EndReembed, Kill, vaultTables

\* A row is never deleted, and keeps its task and its reference.
LEMMA RefsStay ==
  ASSUME VaultTyped, NEW p \in Writer, Working(p), NEW t, NEW c, RefOf(t, c)
  PROVE  RefOf(t, c)'
<1>1. CASE rows' = rows
  BY <1>1 DEF RefOf
<1>2. CASE AppendRow(p)
  BY <1>2, RowsGrow DEF RefOf
<1>3. CASE MarkPurged(p)
  BY <1>3, MarkPurgedIs DEF RefOf
<1>4. QED
  BY <1>1, <1>2, <1>3, RowsStand

\* A task of a session has a row for each turn observed.
LEMMA ObservedIsRow ==
  ASSUME VaultTyped, NEW p \in Writer, AppendRow(p), Kind(p) = "observe"
  PROVE  \E t \in VaultTask : command[p].task = {t} /\ \A c \in command[p].text : RefOf(t, c)'
<1>1. PICK t \in VaultTask, c \in Content :
        /\ command[p].task = {t} /\ command[p].text = {c}
        /\ Row(command[p]).task = t /\ Row(command[p]).ref = c
        /\ Row(command[p]).kind = "task" /\ t \in Session
  BY RowOfCommand DEF AppendRow
<1>2. ~OnRecord(Row(command[p]))
  BY <1>1, VaultAssumption DEF OnRecord
<1>3. RefOf(t, c)'
  BY <1>1, <1>2, RowsGrow DEF RefOf
<1>4. QED
  BY <1>1, <1>3

\* What a step leaves a purge with.
LEMMA PurgeAfter ==
  ASSUME VaultTyped, TextOfTask, NEW p \in Writer, Working(p), Kind(p)' = "purge"
  PROVE  command[p] \in PurgeAt /\ (Shred(p) \/ MarkPurged(p) \/ DeleteVector(p))
<1>1. Kind(p) = "purge" /\ command'[p] # AtRest
  BY KindsStay DEF Kind, AtRest
<1>2. command[p] \in PurgeAt
  BY <1>1, ShapeOfCommand
<1>3. command[p].stage \in {"shred", "mark"}
  BY <1>2 DEF PurgeAt
<1>4. ~Kill(p) /\ ~EndPurge(p)
  BY <1>1, TypedByKill, TypedByRest
<1>5. QED
  BY <1>2, <1>3, <1>4 DEF Working, Stands, SetModel, SetDim, AppendRow, CheckDim, SkipVector,
     PutText, PutVector, ClearVectors, Gather, EndReembed

\* Each conjunct over the start of a command and over its work.
LEMMA TargetsByLaunch ==
  ASSUME VaultTyped, TargetsOfTasks, NEW p \in Writer, NEW cmd \in Commands,
         Launch(p, cmd), Starts(cmd)
  PROVE  TargetsOfTasks'
<1>1. \A t, c : RefOf(t, c)' = RefOf(t, c)
  BY LaunchIs DEF RefOf
<1>2. SUFFICES ASSUME NEW q \in Writer, Kind(q)' = "purge"
               PROVE  /\ \A x \in command'[q].targets :
                           x[1] \in command'[q].tasks /\ RefOf(x[1], x[2])'
                      /\ Stands(q, "shred")' => command'[q].text = {}
                      /\ \A c \in command'[q].text : \E t \in command'[q].tasks : RefOf(t, c)'
  BY DEF TargetsOfTasks
<1>3. CASE q = p
  BY <1>1, <1>2, <1>3, LaunchIs DEF Starts, Kind, Stands
<1>4. CASE q # p
  BY <1>1, <1>2, <1>4, LaunchIs DEF TargetsOfTasks, Kind, Stands
<1>5. QED
  BY <1>3, <1>4

LEMMA TargetsByWork ==
  ASSUME VaultTyped, TextOfTask, TargetsOfTasks, NEW p \in Writer, Working(p)
  PROVE  TargetsOfTasks'
<1>1. \A t, c : RefOf(t, c) => RefOf(t, c)'
  BY RefsStay
<1>2. SUFFICES ASSUME NEW q \in Writer, Kind(q)' = "purge"
               PROVE  /\ \A x \in command'[q].targets :
                           x[1] \in command'[q].tasks /\ RefOf(x[1], x[2])'
                      /\ Stands(q, "shred")' => command'[q].text = {}
                      /\ \A c \in command'[q].text : \E t \in command'[q].tasks : RefOf(t, c)'
  BY DEF TargetsOfTasks
<1>3. CASE q # p
  <2>1. command'[q] = command[q]
    BY <1>3, KindsStay
  <2>2. QED
    BY <1>1, <1>2, <2>1 DEF TargetsOfTasks, Kind, Stands
<1>4. CASE q = p
  <2>1. command[p] \in PurgeAt /\ (Shred(p) \/ MarkPurged(p) \/ DeleteVector(p))
    BY <1>2, <1>4, PurgeAfter
  <2>2. /\ \A x \in command[p].targets : x[1] \in command[p].tasks /\ RefOf(x[1], x[2])
        /\ Stands(p, "shred") => command[p].text = {}
        /\ \A c \in command[p].text : \E t \in command[p].tasks : RefOf(t, c)
    BY <2>1 DEF TargetsOfTasks, Kind, PurgeAt
  <2>3. CASE Shred(p)
    BY <1>1, <1>4, <2>2, <2>3, ShredIs DEF Stands
  <2>4. CASE MarkPurged(p)
    BY <1>1, <1>4, <2>2, <2>4, MarkPurgedIs DEF Stands
  <2>5. CASE DeleteVector(p)
    <3>1. command[p].text = {}
      BY <2>2, <2>5 DEF DeleteVector
    <3>2. QED
      BY <1>4, <2>5, <3>1, DeleteVectorIs DEF Stands
  <2>6. QED
    BY <2>1, <2>3, <2>4, <2>5
<1>5. QED
  BY <1>3, <1>4

\* The steps after which a text is about to be embedded.
LEMMA ReachesCheck ==
  ASSUME VaultTyped, TextOfTask, NEW p \in Writer, Working(p),
         command'[p].stage \in {"check", "vector"}
  PROVE  AppendRow(p) \/ CheckDim(p) \/ Gather(p)
<1>1. command'[p] # AtRest
  BY DEF AtRest
<1>2. ~SetModel(p) /\ ~SetDim(p) /\ ~PutText(p)
  <2>1. SUFFICES ASSUME SetModel(p) \/ SetDim(p) \/ PutText(p)
                 PROVE  FALSE
    OBVIOUS
  <2>2. PICK stage \in {"dim", "put", "next", "row"} : Proceed(p, stage)
    BY <2>1 DEF SetModel, SetDim, PutText
  <2>3. ~Stands(p, "idle")
    BY <2>1 DEF SetModel, SetDim, PutText, Stands
  <2>4. command'[p].stage = stage
    BY <2>2, <2>3, Proceeds
  <2>5. QED
    BY <2>4
<1>3. ~SkipVector(p) /\ ~EndPurge(p) /\ ~EndReembed(p) /\ ~Kill(p)
  BY <1>1, TypedByRest, TypedByKill
<1>4. ~PutVector(p) /\ ~Shred(p) /\ ~MarkPurged(p) /\ ~DeleteVector(p) /\ ~ClearVectors(p)
  BY <1>1, PutVectorIs, ShredIs, MarkPurgedIs, DeleteVectorIs, ClearVectorsIs
<1>5. QED
  BY <1>2, <1>3, <1>4 DEF Working

LEMMA TextByLaunch ==
  ASSUME VaultTyped, TextOfTask, NEW p \in Writer, NEW cmd \in Commands,
         Launch(p, cmd), Starts(cmd)
  PROVE  TextOfTask'
<1>1. \A t, c : RefOf(t, c)' = RefOf(t, c)
  BY LaunchIs DEF RefOf
<1>2. cmd.stage \notin {"check", "vector"}
  BY DEF Starts
<1>3. ASSUME NEW q \in Writer, Stands(q, "check")' \/ Stands(q, "vector")'
      PROVE  command'[q] = command[q] /\ q # p
  BY <1>2, <1>3, LaunchIs DEF Stands
<1>4. QED
  BY <1>1, <1>3, LaunchIs DEF TextOfTask, Stands

LEMMA TextByWork ==
  ASSUME VaultTyped, TextOfTask, NEW p \in Writer, Working(p)
  PROVE  TextOfTask'
<1>1. \A t, c : RefOf(t, c) => RefOf(t, c)'
  BY RefsStay
<1>2. ASSUME NEW q \in Writer, Stands(q, "check")' \/ Stands(q, "vector")'
      PROVE  \E t \in VaultTask :
               command'[q].task = {t} /\ \A c \in command'[q].text : RefOf(t, c)'
  <2>1. CASE q # p
    <3>1. command'[q] = command[q]
      BY <2>1, KindsStay
    <3>2. QED
      BY <1>1, <1>2, <3>1 DEF TextOfTask, Stands
  <2>2. CASE q = p
    <3>1. command'[p] # AtRest
      BY <1>2, <2>2 DEF AtRest, Stands
    <3>2. command'[p].stage \in {"check", "vector"}
      BY <1>2, <2>2 DEF Stands
    <3>3. AppendRow(p) \/ CheckDim(p) \/ Gather(p)
      BY <3>2, ReachesCheck
    <3>4. CASE AppendRow(p)
      <4>1. Kind(p) = "observe" /\ Same(command[p], command'[p])
        BY <3>1, <3>2, <3>4, AppendRowIs
      <4>2. QED
        BY <2>2, <3>4, <4>1, ObservedIsRow DEF Same
    <3>5. CASE CheckDim(p)
      BY <1>1, <2>2, <3>1, <3>5, TypedByCheck DEF CheckDim, TextOfTask, Same
    <3>6. CASE Gather(p)
      BY <1>1, <2>2, <3>2, <3>6, GatherIs
    <3>7. QED
      BY <3>3, <3>4, <3>5, <3>6
  <2>3. QED
    BY <2>1, <2>2
<1>3. ASSUME NEW t \in DOMAIN vectors', NEW c \in vectors'[t].of
      PROVE  RefOf(t, c)'
  <2>1. CASE vectors' = vectors
    BY <1>1, <1>3, <2>1 DEF TextOfTask
  <2>2. CASE PutVector(p)
    <3>1. PICK u \in VaultTask :
            /\ command[p].task = {u}
            /\ DOMAIN vectors' = DOMAIN vectors \cup {u} /\ vectors'[u].of = command[p].text
            /\ \A v \in DOMAIN vectors \ {u} : vectors'[v] = vectors[v]
      BY <2>2, PutVectorIs
    <3>2. \A d \in command[p].text : RefOf(u, d)
      BY <2>2, <3>1 DEF TextOfTask, PutVector
    <3>3. CASE t = u
      BY <1>1, <1>3, <3>1, <3>2, <3>3
    <3>4. CASE t # u
      BY <1>1, <1>3, <3>1, <3>4 DEF TextOfTask
    <3>5. QED
      BY <3>3, <3>4
  <2>3. CASE DeleteVector(p)
    BY <1>1, <1>3, <2>3, DeleteVectorIs DEF TextOfTask
  <2>4. CASE ClearVectors(p)
    BY <1>3, <2>4, ClearVectorsIs
  <2>5. QED
    BY <2>1, <2>2, <2>3, <2>4, VectorsStand
<1>4. QED
  BY <1>2, <1>3 DEF TextOfTask
-----------------------------------------------------------------------------
\* A content that is being purged is, until it is marked or the command is killed.
LEMMA PurgingStays ==
  ASSUME VaultTyped, TextOfTask, TargetsOfTasks, NEW p \in Writer, Working(p),
         NEW q \in Writer, NEW c, Purging(q, c)
  PROVE  Purging(q, c)' \/ (q = p /\ (MarkPurged(p) \/ Kill(p)))
<1>1. CASE q # p
  BY <1>1, KindsStay DEF Purging
<1>2. CASE q = p
  <2>1. command[p] \in PurgeAt /\ command[p].text # {}
    BY <1>2, ShapeOfCommand DEF Purging, Kind
  <2>2. command[p].stage = "mark"
    BY <1>2, <2>1 DEF TargetsOfTasks, PurgeAt, Kind, Stands
  <2>3. QED
    BY <1>2, <2>2 DEF Working, Stands, SetModel, SetDim, AppendRow, CheckDim, SkipVector,
       PutText, PutVector, ClearVectors, Gather, EndReembed, Shred, DeleteVector, EndPurge
<1>3. QED
  BY <1>1, <1>2

\* A command gets to the row by putting its text.
LEMMA RowComesAfterText ==
  ASSUME VaultTyped, TextOfTask, NEW p \in Writer, Working(p), command'[p].stage = "row"
  PROVE  PutText(p) /\ command'[p].text \subseteq stored'
<1>1. command'[p] # AtRest
  BY DEF AtRest
<1>2. ~SkipVector(p) /\ ~EndPurge(p) /\ ~EndReembed(p) /\ ~Kill(p)
  BY <1>1, TypedByRest, TypedByKill
<1>3. ~PutVector(p) /\ ~Shred(p) /\ ~MarkPurged(p) /\ ~DeleteVector(p)
      /\ ~ClearVectors(p) /\ ~Gather(p) /\ ~AppendRow(p) /\ ~CheckDim(p)
  BY <1>1, PutVectorIs, ShredIs, MarkPurgedIs, DeleteVectorIs, ClearVectorsIs, GatherIs,
     AppendRowIs, TypedByCheck
<1>4. ~SetModel(p) /\ ~SetDim(p)
  <2>1. SUFFICES ASSUME SetModel(p) \/ SetDim(p)
                 PROVE  FALSE
    OBVIOUS
  <2>2. PICK stage \in {"dim", "put", "next"} : Proceed(p, stage)
    BY <2>1 DEF SetModel, SetDim
  <2>3. ~Stands(p, "idle")
    BY <2>1 DEF SetModel, SetDim, Stands
  <2>4. QED
    BY <2>2, <2>3, Proceeds
<1>5. PutText(p)
  BY <1>2, <1>3, <1>4 DEF Working
<1>6. Same(command[p], command'[p])
  BY <1>5, Proceeds DEF PutText, Stands
<1>7. QED
  BY <1>5, <1>6 DEF PutText, Same

\* A command that shreds, puts or appends is of the kinds that do.
LEMMA KindsOfSteps ==
  ASSUME VaultTyped, NEW p \in Writer
  PROVE  /\ Shred(p) \/ MarkPurged(p) \/ DeleteVector(p) => Kind(p) = "purge"
         /\ PutText(p) \/ AppendRow(p) => Kind(p) \in {"observe", "ingest", "diff"}
         /\ command[p].stage = "row" => Kind(p) \in {"observe", "ingest", "diff"}
<1>1. command[p].stage \in {"shred", "mark"} => Kind(p) = "purge"
  BY ShapeOfCommand DEF PurgeAt, Kind
<1>2. command[p].stage \in {"put", "row"} => Kind(p) \in {"observe", "ingest", "diff"}
  BY ShapeOfCommand DEF Observing, Ingesting, Kind
<1>3. QED
  BY <1>1, <1>2 DEF Shred, MarkPurged, DeleteVector, PutText, AppendRow, Stands

\* Rows stay explained as a command starts.
LEMMA RowsByLaunch ==
  ASSUME VaultTyped, RowsExplained, NEW p \in Writer, NEW cmd \in Commands,
         Launch(p, cmd), Starts(cmd)
  PROVE  RowsExplained'
<1>1. SUFFICES ASSUME ~Beside(Rowers)'
               PROVE  RowsExplained'
  BY DEF RowsExplained
<1>2. ~Beside(Rowers)
  BY <1>1, LaunchIs, BesideGrows
<1>3. /\ \A t, c : RefOf(t, c)' = RefOf(t, c)
      /\ \A c : PurgedEverywhere(c)' = PurgedEverywhere(c)
  BY LaunchIs DEF RefOf, PurgedEverywhere
<1>4. \A q \in Writer : Stands(q, "row")' => command'[q].text \subseteq stored'
  <2>1. cmd.stage # "row"
    BY DEF Starts
  <2>2. QED
    BY <1>2, <2>1, LaunchIs DEF RowsExplained, Stands
<1>5. ASSUME NEW q \in Writer, Kind(q)' = "purge",
             NEW t \in command'[q].named, NEW c \in Content, RefOf(t, c)
      PROVE  <<t, c>> \in command'[q].targets \/ c \in command'[q].text \/ PurgedEverywhere(c)
  <2>1. CASE q = p
    <3>1. command'[q] = cmd /\ cmd.kind = "purge"
      BY <1>5, <2>1, LaunchIs DEF Kind
    <3>2. c \in RefsOfTask(t)
      BY <1>5, RefsOfTaskAre
    <3>3. <<t, c>> \in {t} \X RefsOfTask(t)
      BY <3>2
    <3>4. {t} \X RefsOfTask(t) \subseteq cmd.targets
      BY <1>5, <3>1 DEF Starts
    <3>5. QED
      BY <3>1, <3>3, <3>4
  <2>2. CASE q # p
    BY <1>2, <1>5, <2>2, LaunchIs DEF RowsExplained, Kind
  <2>3. QED
    BY <2>1, <2>2
<1>6. ASSUME NEW q \in Writer, NEW c, Purging(q, c)
      PROVE  Purging(q, c)'
  BY <1>6, LaunchIs DEF Purging, AtRest
<1>7. UNCHANGED <<rows, stored, torn>>
  BY LaunchIs
<1>8. ASSUME NEW i \in DOMAIN rows'
      PROVE  \/ rows'[i].ref \in stored' \/ rows'[i].purged
             \/ \E q \in Writer : Purging(q, rows[i].ref)'
             \/ \E t \in torn' : RefOf(t, rows[i].ref)'
  <2>1. PICK c : c = rows[i].ref
    OBVIOUS
  <2>2. \/ c \in stored \/ rows[i].purged
        \/ \E q \in Writer : Purging(q, c)
        \/ \E t \in torn : RefOf(t, c)
    BY <1>2, <1>7, <1>8, <2>1 DEF RowsExplained
  <2>3. c = rows'[i].ref
    BY <1>7, <2>1
  <2>4. \/ c \in stored' \/ rows'[i].purged
        \/ \E q \in Writer : Purging(q, c)'
        \/ \E t \in torn' : RefOf(t, c)'
    BY <1>3, <1>6, <1>7, <2>2
  <2>5. QED
    BY <2>3, <2>4
<1>9. QED
  BY <1>3, <1>4, <1>5, <1>7, <1>8 DEF RowsExplained

\* Unless a purge came beside it, a text that was put is there when its row is written.
LEMMA TextStaysStored ==
  ASSUME VaultTyped, TextOfTask, MetTells, RowsExplained, NEW p \in Writer, Working(p),
         ~Beside(Rowers), NEW q \in Writer, command'[q].stage = "row"
  PROVE  command'[q].text \subseteq stored'
<1>1. CASE q = p
  BY <1>1, RowComesAfterText
<1>2. CASE q # p
  <2>1. command'[q] = command[q]
    BY <1>2, KindsStay
  <2>2. command[q].text \subseteq stored /\ Kind(q) \in Rowers
    BY <2>1, KindsOfSteps DEF RowsExplained, Stands, Rowers
  <2>3. ~Shred(p)
    BY <1>2, <2>2, KindsOfSteps DEF MetTells
  <2>4. stored \subseteq stored'
    BY <2>3, StoredStands DEF PutText
  <2>5. QED
    BY <2>1, <2>2, <2>4
<1>3. QED
  BY <1>1, <1>2

\* Unless a row was written beside it, a purge knows all rows of its tasks.
LEMMA PurgeKnowsItsRows ==
  ASSUME VaultTyped, TextOfTask, TargetsOfTasks, MetTells, RowsExplained,
         NEW p \in Writer, Working(p), ~Beside(Rowers),
         NEW q \in Writer, Kind(q)' = "purge", NEW t \in command'[q].named, NEW c \in Content,
         RefOf(t, c)'
  PROVE  <<t, c>> \in command'[q].targets \/ c \in command'[q].text \/ PurgedEverywhere(c)'
<1>1. ~AppendRow(p)
  <2>1. SUFFICES ASSUME AppendRow(p)
                 PROVE  FALSE
    OBVIOUS
  <2>2. Kind(p) \in Rowers \ {"purge"}
    BY <2>1, KindsOfSteps DEF Rowers
  <2>3. q # p
    BY <2>1, <2>2, AppendRowIs DEF Kind, AtRest, Same
  <2>4. Kind(q) = "purge"
    BY <2>3, KindsStay DEF Kind
  <2>5. QED
    BY <2>2, <2>3, <2>4 DEF MetTells
<1>2. RefOf(t, c)
  <2>1. CASE rows' = rows
    BY <2>1 DEF RefOf
  <2>2. CASE MarkPurged(p)
    BY <2>2, MarkPurgedIs DEF RefOf
  <2>3. QED
    BY <1>1, <2>1, <2>2, RowsStand
<1>3. PurgedEverywhere(c) => PurgedEverywhere(c)'
  <2>1. CASE rows' = rows
    BY <2>1 DEF PurgedEverywhere
  <2>2. CASE MarkPurged(p)
    BY <2>2, MarkPurgedIs DEF PurgedEverywhere
  <2>3. QED
    BY <1>1, <2>1, <2>2, RowsStand
<1>4. CASE q # p
  <2>1. command'[q] = command[q]
    BY <1>4, KindsStay
  <2>2. QED
    BY <1>2, <1>3, <2>1 DEF RowsExplained, Kind
<1>5. CASE q = p
  <2>1. /\ command[p] \in PurgeAt /\ Kind(p) = "purge"
        /\ Shred(p) \/ MarkPurged(p) \/ DeleteVector(p)
    BY <1>5, PurgeAfter DEF PurgeAt, Kind
  <2>2. command'[p].named = command[p].named
    BY <2>1, ShredIs, MarkPurgedIs, DeleteVectorIs
  <2>3. <<t, c>> \in command[p].targets \/ c \in command[p].text \/ PurgedEverywhere(c)
    BY <1>2, <1>5, <2>1, <2>2 DEF RowsExplained
  <2>4. CASE Shred(p)
    <3>1. command[p].text = {}
      BY <2>1, <2>4 DEF TargetsOfTasks, Shred
    <3>2. PICK x \in command[p].targets :
            command'[p].text = {x[2]} /\ command'[p].targets = command[p].targets \ {x}
      BY <2>4, ShredIs
    <3>3. QED
      BY <1>3, <1>5, <2>3, <3>1, <3>2
  <2>5. CASE MarkPurged(p)
    <3>1. ASSUME c \in command[p].text, NEW i \in DOMAIN rows', rows'[i].ref = c
          PROVE  rows'[i].purged
      BY <2>5, <3>1, MarkPurgedIs
    <3>2. QED
      BY <1>3, <1>5, <2>3, <2>5, <3>1, MarkPurgedIs DEF PurgedEverywhere
  <2>6. CASE DeleteVector(p)
    BY <1>3, <1>5, <2>3, <2>6, DeleteVectorIs
  <2>7. QED
    BY <2>1, <2>4, <2>5, <2>6
<1>6. QED
  BY <1>4, <1>5

\* What explains that the content of an unmarked row is not in the store.
LEMMA ExplanationStays ==
  ASSUME VaultTyped, TextOfTask, TargetsOfTasks, RowsExplained, ~Beside(Rowers),
         NEW p \in Writer, Working(p),
         NEW i \in DOMAIN rows, NEW c \in Content, rows[i].ref = c
  PROVE  \/ c \in stored'
         \/ rows'[i].purged
         \/ \E q \in Writer : Purging(q, c)'
         \/ \E t \in torn' : RefOf(t, c)'
<1>1. /\ \A t : RefOf(t, c) => RefOf(t, c)'
      /\ rows[i].purged => rows'[i].purged
  BY RefsStay, RowsStand, RowsGrow, MarkPurgedIs
<1>2. \/ c \in stored \/ rows[i].purged
      \/ \E q \in Writer : Purging(q, c)
      \/ \E t \in torn : RefOf(t, c)
  BY DEF RowsExplained
<1>3. MarkPurged(p) /\ c \in command[p].text => rows'[i].purged
  BY MarkPurgedIs
<1>4. CASE c \in stored
  <2>1. CASE Shred(p)
    <3>1. command'[p].kind = "purge"
      BY <2>1, ShredIs DEF PurgeAt
    <3>2. QED
      BY <1>4, <2>1, <3>1, ShredIs DEF Purging
  <2>2. CASE ~Shred(p)
    BY <1>4, <2>2, StoredStands DEF PutText
  <2>3. QED
    BY <2>1, <2>2
<1>5. CASE rows[i].purged
  BY <1>1, <1>5
<1>6. ASSUME NEW q \in Writer, Purging(q, c)
      PROVE  \/ rows'[i].purged
             \/ Purging(q, c)'
             \/ \E t \in torn' : RefOf(t, c)'
  <2>1. CASE Purging(q, c)'
    BY <2>1
  <2>2. CASE q = p /\ MarkPurged(p)
    BY <1>3, <1>6, <2>2 DEF Purging
  <2>3. CASE q = p /\ Kill(p)
    <3>1. \E t \in command[p].tasks : RefOf(t, c)
      BY <1>6, <2>3 DEF Purging, TargetsOfTasks, Kind
    <3>2. torn' = torn \cup command[p].tasks
      BY <1>6, <2>3 DEF Purging, Kill
    <3>3. QED
      BY <1>1, <3>1, <3>2
  <2>4. QED
    BY <1>6, <2>1, <2>2, <2>3, PurgingStays
<1>7. ASSUME NEW t \in torn, RefOf(t, c)
      PROVE  rows'[i].purged \/ \E u \in torn' : RefOf(u, c)'
  <2>1. CASE t \in torn'
    BY <1>1, <1>7, <2>1
  <2>2. CASE t \notin torn'
    <3>1. DeleteVector(p)
      BY <2>2, TornStands DEF Kill
    <3>2. t \in command[p].named /\ command[p].targets = {}
      BY <2>2, <3>1, DeleteVectorIs
    <3>3. Kind(p) = "purge" /\ Stands(p, "shred")
      BY <3>1, KindsOfSteps DEF DeleteVector
    <3>4. command[p].text = {}
      BY <3>3 DEF TargetsOfTasks
    <3>5. PurgedEverywhere(c)
      BY <1>7, <3>2, <3>3, <3>4 DEF RowsExplained
    <3>6. QED
      BY <1>1, <3>5 DEF PurgedEverywhere
  <2>3. QED
    BY <2>1, <2>2
<1>8. QED
  BY <1>2, <1>4, <1>5, <1>6, <1>7

\* So rows stay explained.
LEMMA RowsByWork ==
  ASSUME VaultTyped, TextOfTask, TargetsOfTasks, MetTells, RowsExplained,
         NEW p \in Writer, Working(p)
  PROVE  RowsExplained'
<1>1. SUFFICES ASSUME ~Beside(Rowers)
               PROVE  RowsExplained'
  <2>1. met' = met
    BY KindsStay
  <2>2. QED
    BY <2>1 DEF RowsExplained, Beside
<1>2. ASSUME NEW i \in DOMAIN rows'
      PROVE  \/ rows'[i].ref \in stored'
             \/ rows'[i].purged
             \/ \E q \in Writer : Purging(q, rows[i].ref)'
             \/ \E t \in torn' : RefOf(t, rows[i].ref)'
  <2>1. CASE i \in DOMAIN rows
    <3>1. PICK c \in Content : rows[i].ref = c
      BY <2>1, RowsAre
    <3>2. rows'[i].ref = c
      BY <2>1, <3>1, RowsStand, RowsGrow, MarkPurgedIs
    <3>3. \/ c \in stored'
          \/ rows'[i].purged
          \/ \E q \in Writer : Purging(q, c)'
          \/ \E t \in torn' : RefOf(t, c)'
      BY <1>1, <2>1, <3>1, ExplanationStays
    <3>4. QED
      BY <3>2, <3>3
  <2>2. CASE i \notin DOMAIN rows
    <3>1. AppendRow(p) /\ rows'[i] = Row(command[p])
      BY <1>2, <2>2, RowsStand, RowsGrow, MarkPurgedIs
    <3>2. command[p].text \subseteq stored /\ stored' = stored
      BY <1>1, <3>1 DEF AppendRow, RowsExplained
    <3>3. Row(command[p]).ref \in command[p].text
      BY <3>1, RowOfCommand DEF AppendRow
    <3>4. QED
      BY <3>1, <3>2, <3>3
  <2>3. QED
    BY <2>1, <2>2
<1>3. \A q \in Writer : Stands(q, "row")' => command'[q].text \subseteq stored'
  BY <1>1, TextStaysStored DEF Stands
<1>4. ASSUME NEW q \in Writer, Kind(q)' = "purge", NEW t \in command'[q].named,
             NEW c \in Content, RefOf(t, c)'
      PROVE  <<t, c>> \in command'[q].targets \/ c \in command'[q].text \/ PurgedEverywhere(c)'
  BY <1>1, <1>4, PurgeKnowsItsRows
<1>5. QED
  BY <1>2, <1>3, <1>4 DEF RowsExplained
-----------------------------------------------------------------------------
\* A content of two tasks stays one.
LEMMA TwoTasksStay ==
  ASSUME VaultTyped, NEW p \in Writer, Working(p), NEW c, InTwoTasks(c)
  PROVE  InTwoTasks(c)'
<1>1. CASE rows' = rows
  BY <1>1 DEF InTwoTasks
<1>2. CASE AppendRow(p)
  BY <1>2, RowsGrow DEF InTwoTasks
<1>3. CASE MarkPurged(p)
  BY <1>3, MarkPurgedIs DEF InTwoTasks
<1>4. QED
  BY <1>1, <1>2, <1>3, RowsStand

\* A task that is being purged is, until its vector is gone or the command is torn.
LEMMA PurgesStay ==
  ASSUME VaultTyped, TextOfTask, NEW p \in Writer, Working(p),
         NEW q \in Writer, NEW t, Purges(q, t)
  PROVE  Purges(q, t)' \/ t \in torn' \/ t \notin DOMAIN vectors'
<1>1. CASE q # p
  BY <1>1, KindsStay DEF Purges
<1>2. CASE q = p
  <2>1. command[p] \in PurgeAt /\ t \in command[p].tasks
    BY <1>2, ShapeOfCommand DEF Purges, Kind
  <2>2. command[p].stage \in {"shred", "mark"}
    BY <2>1 DEF PurgeAt
  <2>3. Shred(p) \/ MarkPurged(p) \/ DeleteVector(p) \/ Kill(p)
    BY <2>1, <2>2 DEF Working, Stands, SetModel, SetDim, AppendRow, CheckDim, SkipVector,
       PutText, PutVector, ClearVectors, Gather, EndReembed, EndPurge
  <2>4. CASE Shred(p) \/ MarkPurged(p)
    BY <1>2, <2>1, <2>4, ShredIs, MarkPurgedIs DEF Purges, PurgeAt
  <2>5. CASE DeleteVector(p)
    <3>1. command'[p].kind = "purge"
      BY <2>5, DeleteVectorIs DEF PurgeAt
    <3>2. PICK u \in command[p].tasks : /\ DOMAIN vectors' = DOMAIN vectors \ {u}
                                        /\ command'[p].tasks = command[p].tasks \ {u}
      BY <2>5, DeleteVectorIs
    <3>3. t \in command'[p].tasks \/ t \notin DOMAIN vectors'
      BY <2>1, <3>2
    <3>4. QED
      BY <1>2, <3>1, <3>3 DEF Purges
  <2>6. CASE Kill(p)
    BY <1>2, <2>1, <2>6 DEF Kill, Purges
  <2>7. QED
    BY <2>3, <2>4, <2>5, <2>6
<1>3. QED
  BY <1>1, <1>2

\* Vectors stay covered as a command starts.
LEMMA VectorsByLaunch ==
  ASSUME VaultTyped, VectorsCovered, NEW p \in Writer, NEW cmd \in Commands,
         Launch(p, cmd), Starts(cmd)
  PROVE  VectorsCovered'
<1>1. SUFFICES ASSUME ~Beside(Embedding)'
               PROVE  VectorsCovered'
  BY DEF VectorsCovered
<1>2. ~Beside(Embedding)
  BY <1>1, LaunchIs, BesideGrows
<1>3. \A q \in Writer : Kind(q)' \in {"observe", "reembed"}
                          /\ command'[q].stage \in {"row", "check", "vector"}
        => command'[q].text \subseteq stored'
  <2>1. cmd.stage \notin {"row", "check", "vector"}
    BY DEF Starts
  <2>2. QED
    BY <1>2, <2>1, LaunchIs DEF VectorsCovered, Kind
<1>4. \A q \in Writer : \A t : Purges(q, t) => Purges(q, t)'
  BY LaunchIs DEF Purges, AtRest
<1>5. \A c : InTwoTasks(c)' = InTwoTasks(c)
  BY LaunchIs DEF InTwoTasks
<1>6. \A t \in DOMAIN vectors \ torn : \A c \in vectors[t].of :
         c \in stored \/ InTwoTasks(c)' \/ \E q \in Writer : Purges(q, t)'
  BY <1>2, <1>4, <1>5 DEF VectorsCovered
<1>7. \A t \in DOMAIN vectors' \ torn' : \A c \in vectors'[t].of :
         c \in stored' \/ InTwoTasks(c)' \/ \E q \in Writer : Purges(q, t)'
  BY <1>6, LaunchIs
<1>8. QED
  BY <1>3, <1>7 DEF VectorsCovered

\* Unless a purge came beside it, a text that is embedded is there.
LEMMA EmbeddedTextIsStored ==
  ASSUME VaultTyped, TextOfTask, MetTells, VectorsCovered, NEW p \in Writer, Working(p),
         ~Beside(Embedding), NEW q \in Writer, Kind(q)' \in {"observe", "reembed"},
         command'[q].stage \in {"row", "check", "vector"}
  PROVE  command'[q].text \subseteq stored'
<1>1. CASE q # p
  <2>1. command'[q] = command[q]
    BY <1>1, KindsStay
  <2>2. command[q].text \subseteq stored /\ Kind(q) \in Embedding
    BY <2>1 DEF VectorsCovered, Kind, Embedding
  <2>3. ~Shred(p)
    BY <1>1, <2>2, KindsOfSteps DEF MetTells
  <2>4. stored \subseteq stored'
    BY <2>3, StoredStands DEF PutText
  <2>5. QED
    BY <2>1, <2>2, <2>4
<1>2. CASE q = p
  <2>1. command'[p] # AtRest
    BY <1>2 DEF AtRest
  <2>2. CASE command'[p].stage = "row"
    BY <1>2, <2>2, RowComesAfterText
  <2>3. CASE command'[p].stage \in {"check", "vector"}
    <3>1. AppendRow(p) \/ CheckDim(p) \/ Gather(p)
      BY <2>1, <2>3, ReachesCheck
    <3>2. CASE AppendRow(p)
      <4>1. Kind(p) = "observe" /\ Same(command[p], command'[p])
        BY <2>1, <2>3, <3>2, AppendRowIs
      <4>2. command[p].text \subseteq stored /\ stored' = stored
        BY <3>2, <4>1 DEF AppendRow, VectorsCovered, Stands
      <4>3. QED
        BY <1>2, <4>1, <4>2 DEF Same
    <3>3. CASE CheckDim(p)
      <4>1. Same(command[p], command'[p])
        BY <2>1, <3>3, TypedByCheck
      <4>2. command[p].text \subseteq stored /\ stored' = stored
        BY <1>2, <3>3, <4>1 DEF CheckDim, VectorsCovered, Stands, Same, Kind, vaultTables
      <4>3. QED
        BY <1>2, <4>1, <4>2 DEF Same
    <3>4. CASE Gather(p)
      <4>1. command'[p].text \subseteq stored
        BY <2>3, <3>4, GatherIs
      <4>2. QED
        BY <1>2, <3>4, <4>1 DEF Gather, vaultTables
    <3>5. QED
      BY <3>1, <3>2, <3>3, <3>4
  <2>4. QED
    BY <1>2, <2>2, <2>3
<1>3. QED
  BY <1>1, <1>2

\* What accounts for a vector that is there before and after the step.
LEMMA CoverStays ==
  ASSUME VaultTyped, TextOfTask, TargetsOfTasks, VectorsCovered, ~Beside(Embedding),
         NEW p \in Writer, Working(p),
         NEW t \in DOMAIN vectors \ torn, NEW c \in vectors[t].of
  PROVE  \/ c \in stored' \/ InTwoTasks(c)' \/ \E q \in Writer : Purges(q, t)'
         \/ t \in torn' \/ t \notin DOMAIN vectors'
<1>1. CASE c \in stored
  <2>1. CASE ~Shred(p)
    BY <1>1, <2>1, StoredStands DEF PutText
  <2>2. CASE Shred(p)
    <3>1. PICK x \in command[p].targets :
            /\ x \in VaultTask \X Content
            /\ stored' = stored \ {x[2]} /\ command'[p].tasks = command[p].tasks
      BY <2>2, ShredIs
    <3>2. Kind(p) = "purge" /\ command'[p].kind = "purge"
      BY <2>2, KindsOfSteps, ShredIs DEF PurgeAt
    <3>3. x[1] \in command[p].tasks /\ RefOf(x[1], x[2])
      BY <3>1, <3>2 DEF TargetsOfTasks
    <3>4. RefOf(t, c)
      BY DEF TextOfTask
    <3>5. CASE c # x[2]
      BY <1>1, <3>1, <3>5
    <3>6. CASE c = x[2] /\ t = x[1]
      BY <3>1, <3>2, <3>3, <3>6 DEF Purges
    <3>7. CASE c = x[2] /\ t # x[1]
      <4>1. InTwoTasks(c)
        BY <3>3, <3>4, <3>7 DEF RefOf, InTwoTasks
      <4>2. QED
        BY <4>1, TwoTasksStay
    <3>8. QED
      BY <3>5, <3>6, <3>7
  <2>3. QED
    BY <2>1, <2>2
<1>2. CASE InTwoTasks(c)
  BY <1>2, TwoTasksStay
<1>3. ASSUME NEW q \in Writer, Purges(q, t)
      PROVE  Purges(q, t)' \/ t \in torn' \/ t \notin DOMAIN vectors'
  BY <1>3, PurgesStay
<1>4. QED
  BY <1>1, <1>2, <1>3 DEF VectorsCovered

\* So vectors stay covered.
LEMMA VectorsByWork ==
  ASSUME VaultTyped, TextOfTask, TargetsOfTasks, MetTells, VectorsCovered,
         NEW p \in Writer, Working(p)
  PROVE  VectorsCovered'
<1>1. SUFFICES ASSUME ~Beside(Embedding)
               PROVE  VectorsCovered'
  <2>1. met' = met
    BY KindsStay
  <2>2. QED
    BY <2>1 DEF VectorsCovered, Beside
<1>2. \A q \in Writer : Kind(q)' \in {"observe", "reembed"}
                          /\ command'[q].stage \in {"row", "check", "vector"}
        => command'[q].text \subseteq stored'
  BY <1>1, EmbeddedTextIsStored
<1>3. ASSUME NEW t \in DOMAIN vectors' \ torn', NEW c \in vectors'[t].of
      PROVE  c \in stored' \/ InTwoTasks(c)' \/ \E q \in Writer : Purges(q, t)'
  <2>1. CASE t \in DOMAIN vectors \ torn /\ vectors'[t] = vectors[t]
    BY <1>1, <1>3, <2>1, CoverStays
  <2>2. CASE PutVector(p) /\ command[p].task = {t}
    <3>1. vectors'[t].of = command[p].text
      <4>1. PICK u \in VaultTask : command[p].task = {u} /\ vectors'[u].of = command[p].text
        BY <2>2, PutVectorIs
      <4>2. u = t
        BY <2>2, <4>1
      <4>3. QED
        BY <4>1, <4>2
    <3>2. command[p].text \subseteq stored /\ stored' = stored
      BY <1>1, <2>2, ShapeOfCommand
         DEF PutVector, VectorsCovered, Observing, Reembedding, Stands, Kind
    <3>3. QED
      BY <1>3, <3>1, <3>2
  <2>3. \/ vectors'[t] = vectors[t] /\ t \in DOMAIN vectors
        \/ PutVector(p) /\ command[p].task = {t}
    <3>1. CASE vectors' = vectors
      BY <1>3, <3>1
    <3>2. CASE PutVector(p)
      BY <1>3, <3>2, PutVectorIs
    <3>3. CASE DeleteVector(p)
      BY <1>3, <3>3, DeleteVectorIs
    <3>4. CASE ClearVectors(p)
      BY <1>3, <3>4, ClearVectorsIs
    <3>5. QED
      BY <3>1, <3>2, <3>3, <3>4, VectorsStand
  <2>4. t \in torn => FALSE
    BY <1>3, TornStands, DeleteVectorIs DEF Kill
  <2>5. QED
    BY <1>3, <2>1, <2>2, <2>3, <2>4
<1>4. QED
  BY <1>2, <1>3 DEF VectorsCovered
-----------------------------------------------------------------------------
\* Only one command at a time declares or embeds.
LEMMA OthersDoNotDeclare ==
  ASSUME VaultTyped, MetTells, Alone, NEW p \in Writer, Kind(p) \in {"observe", "reembed"},
         NEW q \in Writer \ {p}
  PROVE  /\ Kind(q) \notin {"observe", "reembed"}
         /\ command[q].stage \notin {"model", "dim", "check", "vector", "next", "clear"}
<1>1. Kind(q) \notin {"observe", "reembed"}
  <2>1. SUFFICES ASSUME Kind(q) \in {"observe", "reembed"}
                 PROVE  {Kind(p), Kind(q)} \in Declaring
    BY DEF MetTells, Alone
  <2>2. {Kind(p), Kind(q)} \in {{"observe"}, {"reembed"}, {"observe", "reembed"}}
    BY <2>1
  <2>3. QED
    BY <2>2 DEF Declaring
<1>2. QED
  BY <1>1, ShapeOfCommand DEF Observing, Reembedding, Kind

\* The declared dimension over the start of a command, the declarations, the vectors.
LEMMA DimensionByLaunch ==
  ASSUME VaultTyped, DimensionHeld, NEW p \in Writer, NEW cmd \in Commands,
         Launch(p, cmd), Starts(cmd)
  PROVE  DimensionHeld'
<1>1. SUFFICES ASSUME Alone'
               PROVE  DimensionHeld'
  BY DEF DimensionHeld
<1>2. Alone
  BY <1>1, LaunchIs DEF Alone
<1>3. UNCHANGED <<vectors, metaModel, metaDim>> /\ (Declared' <=> Declared)
  BY LaunchIs DEF Declared
<1>4. ASSUME NEW q \in Writer
      PROVE  DimensionOf(q)'
  <2>1. CASE q = p
    BY <1>2, <1>3, <2>1, LaunchIs DEF DimensionHeld, DimensionOf, Starts, Kind
  <2>2. CASE q # p
    BY <1>2, <1>3, <2>2, LaunchIs DEF DimensionHeld, DimensionOf, Kind
  <2>3. QED
    BY <2>1, <2>2
<1>5. QED
  BY <1>2, <1>3, <1>4 DEF DimensionHeld

\* Steps that neither declare nor embed.
LEMMA DimensionElsewhere ==
  ASSUME VaultTyped, TextOfTask, DimensionHeld, Alone, NEW p \in Writer, Working(p),
         UNCHANGED <<vectors, metaModel, metaDim>>, DimensionOf(p)'
  PROVE  DimensionHeld'
<1>1. Declared' <=> Declared
  BY DEF Declared
<1>2. ASSUME NEW q \in Writer \ {p}
      PROVE  DimensionOf(q)'
  BY <1>1, KindsStay DEF DimensionHeld, DimensionOf, Kind
<1>3. QED
  BY <1>1, <1>2 DEF DimensionHeld

LEMMA DimensionByModel ==
  ASSUME VaultTyped, TextOfTask, MetTells, DimensionHeld, Alone, NEW p \in Writer,
         SetModel(p) \/ SetDim(p)
  PROVE  DimensionHeld'
<1>1. command[p] \in Observing \cup Reembedding /\ command[p].stage \in {"model", "dim"}
  BY ShapeOfCommand DEF SetModel, SetDim, Stands
<1>2. /\ Kind(p) \in {"observe", "reembed"} /\ command[p].by \in Embedder
      /\ command[p].by # Nothing /\ DimOf[command[p].by] # 0
  BY <1>1, VaultAssumption DEF Observing, Reembedding, Kind, Embedder, Nothing
<1>3. DOMAIN vectors = {} /\ vectors' = vectors /\ (SetDim(p) => metaModel # Nothing)
  BY <1>1 DEF DimensionHeld, DimensionOf, SetModel, SetDim, Stands
<1>4. ASSUME NEW q \in Writer \ {p}
      PROVE  DimensionOf(q)'
  <2>1. command'[q] = command[q]
    BY KindsStay DEF Working
  <2>2. QED
    BY <1>2, <2>1, OthersDoNotDeclare DEF DimensionOf, Kind
<1>5. DimensionOf(p)'
  <2>1. PICK stage \in {"dim", "put", "next"} :
          /\ Proceed(p, stage)
          /\ SetModel(p) => stage = "dim" /\ metaModel' # Nothing
          /\ SetDim(p) => Declared'
    BY <1>2, <1>3 DEF SetModel, SetDim, Declared
  <2>2. command'[p].stage = stage
    BY <1>1, <2>1, Proceeds DEF Stands
  <2>3. QED
    BY <1>3, <2>1, <2>2 DEF DimensionOf, Declared
<1>6. QED
  BY <1>3, <1>4, <1>5 DEF DimensionHeld

LEMMA DimensionByVector ==
  ASSUME VaultTyped, TextOfTask, MetTells, DimensionHeld, Alone, NEW p \in Writer, PutVector(p)
  PROVE  DimensionHeld'
<1>1. command[p] \in Observing \cup Reembedding /\ command[p].stage = "vector"
  BY ShapeOfCommand DEF PutVector, Stands
<1>2. Kind(p) \in {"observe", "reembed"}
  BY <1>1 DEF Observing, Reembedding, Kind
<1>3. Declared /\ metaDim = DimOf[command[p].by]
  BY <1>1, <1>2 DEF DimensionHeld, DimensionOf
<1>4. UNCHANGED <<metaModel, metaDim>> /\ Declared'
  BY <1>3 DEF PutVector, Declared
<1>5. \A t \in DOMAIN vectors' : DimOf[vectors'[t].by] = metaDim'
  <2>1. PICK t \in VaultTask :
          /\ DOMAIN vectors' = DOMAIN vectors \cup {t} /\ vectors'[t].by = command[p].by
          /\ \A u \in DOMAIN vectors \ {t} : vectors'[u] = vectors[u]
    BY PutVectorIs
  <2>2. \A u \in DOMAIN vectors : DimOf[vectors[u].by] = metaDim
    BY DEF DimensionHeld
  <2>3. QED
    BY <1>3, <1>4, <2>1, <2>2
<1>6. ASSUME NEW q \in Writer \ {p}
      PROVE  DimensionOf(q)'
  <2>1. command'[q] = command[q]
    BY KindsStay DEF Working
  <2>2. QED
    BY <1>2, <2>1, OthersDoNotDeclare DEF DimensionOf, Kind
<1>7. DimensionOf(p)'
  <2>1. command'[p] = AtRest \/ (command'[p].stage = "next" /\ command'[p].kind = "reembed")
    BY PutVectorIs DEF Reembedding
  <2>2. QED
    BY <1>4, <2>1 DEF DimensionOf, AtRest, Kind
<1>8. QED
  BY <1>4, <1>5, <1>6, <1>7 DEF DimensionHeld

LEMMA DimensionByWork ==
  ASSUME VaultTyped, TextOfTask, MetTells, DimensionHeld, NEW p \in Writer, Working(p)
  PROVE  DimensionHeld'
<1>1. SUFFICES ASSUME Alone
               PROVE  DimensionHeld'
  <2>1. met' = met
    BY KindsStay
  <2>2. QED
    BY <2>1 DEF DimensionHeld, Alone
<1>2. CASE command'[p] = AtRest /\ UNCHANGED <<vectors, metaModel, metaDim>>
  <2>1. DimensionOf(p)'
    BY <1>2 DEF DimensionOf, AtRest, Kind
  <2>2. QED
    BY <1>1, <1>2, <2>1, DimensionElsewhere
<1>3. CASE SkipVector(p) \/ EndPurge(p) \/ EndReembed(p) \/ Kill(p)
  BY <1>2, <1>3, TypedByRest, TypedByKill DEF SkipVector, EndPurge, EndReembed, Kill, vaultTables
<1>4. CASE PutText(p)
  <2>1. Same(command[p], command'[p]) /\ command'[p].stage = "row"
    BY <1>4, Proceeds DEF PutText, Stands
  <2>2. UNCHANGED <<vectors, metaModel, metaDim>> /\ (Declared' <=> Declared)
    BY <1>4 DEF PutText, Declared
  <2>3. command[p].stage = "put"
    BY <1>4 DEF PutText, Stands
  <2>4. Kind(p) # "reembed"
    BY <1>4, KindsOfSteps
  <2>5. DimensionOf(p)'
    BY <1>1, <2>1, <2>2, <2>3, <2>4 DEF DimensionHeld, DimensionOf, Same, Kind
  <2>6. QED
    BY <1>1, <2>2, <2>5, DimensionElsewhere
<1>5. CASE AppendRow(p)
  <2>1. UNCHANGED <<vectors, metaModel, metaDim>> /\ (Declared' <=> Declared)
    BY <1>5 DEF AppendRow, Declared
  <2>2. CASE command'[p] = AtRest
    BY <1>2, <2>1, <2>2
  <2>3. CASE Kind(p)' = "diff" /\ command'[p].stage = "put"
    <3>1. DimensionOf(p)'
      BY <2>3 DEF DimensionOf, Kind
    <3>2. QED
      BY <1>1, <2>1, <3>1, DimensionElsewhere
  <2>4. CASE Kind(p) = "observe" /\ Same(command[p], command'[p]) /\ command'[p].stage = "check"
    <3>1. DimensionOf(p)'
      BY <1>1, <1>5, <2>1, <2>4
         DEF DimensionHeld, DimensionOf, Same, Kind, AppendRow, Stands
    <3>2. QED
      BY <1>1, <2>1, <3>1, DimensionElsewhere
  <2>5. QED
    BY <1>5, <2>2, <2>3, <2>4, AppendRowIs DEF Kind
<1>6. CASE CheckDim(p)
  <2>1. UNCHANGED <<vectors, metaModel, metaDim>> /\ (Declared' <=> Declared)
    BY <1>6 DEF CheckDim, Declared, vaultTables
  <2>2. CASE command'[p] = AtRest
    BY <1>2, <2>1, <2>2
  <2>3. CASE command'[p] # AtRest
    <3>1. Same(command[p], command'[p]) /\ command'[p].stage = "vector"
      BY <1>6, <2>3, TypedByCheck
    <3>2. command[p].stage = "check" /\ Kind(p) \in {"observe", "reembed"}
      BY <1>6, ShapeOfCommand DEF CheckDim, Stands, Observing, Reembedding, Kind
    <3>3. Declared
      BY <1>1, <3>2 DEF DimensionHeld, DimensionOf
    <3>4. metaModel = Nothing \/ metaDim \in {0, DimOf[command[p].by]}
      BY <1>6, <2>3, OneCommand DEF CheckDim
    <3>5. metaDim' = DimOf[command'[p].by]
      BY <2>1, <3>1, <3>3, <3>4 DEF Declared, Same
    <3>6. DimensionOf(p)'
      BY <2>1, <3>1, <3>3, <3>5 DEF DimensionOf
    <3>7. QED
      BY <1>1, <2>1, <3>6, DimensionElsewhere
  <2>4. QED
    BY <2>2, <2>3
<1>7. CASE Shred(p) \/ MarkPurged(p)
  <2>1. UNCHANGED <<vectors, metaModel, metaDim>>
    BY <1>7 DEF Shred, MarkPurged
  <2>2. command'[p] \in PurgeAt
    BY <1>7, ShredIs, MarkPurgedIs
  <2>3. DimensionOf(p)'
    BY <2>2 DEF DimensionOf, PurgeAt, Kind
  <2>4. QED
    BY <1>1, <2>1, <2>3, DimensionElsewhere
<1>8. CASE Gather(p)
  <2>1. UNCHANGED <<vectors, metaModel, metaDim>> /\ (Declared' <=> Declared)
    BY <1>8, SMTT(30) DEF Gather, Declared, vaultTables
  <2>2. /\ Kind(p) = "reembed" /\ Kind(p)' = "reembed" /\ command[p].stage = "next"
        /\ command'[p].stage \in {"next", "check"}
    BY <1>8, GatherIs DEF Gather, Stands, Reembedding, Kind
  <2>3. DimensionOf(p)'
    BY <1>1, <2>1, <2>2 DEF DimensionHeld, DimensionOf
  <2>4. QED
    BY <1>1, <2>1, <2>3, DimensionElsewhere
<1>9. CASE DeleteVector(p) \/ ClearVectors(p)
  <2>1. UNCHANGED <<metaModel, metaDim>> /\ (Declared' <=> Declared)
    BY <1>9 DEF DeleteVector, ClearVectors, Declared
  <2>2. /\ DOMAIN vectors' \subseteq DOMAIN vectors
        /\ \A t \in DOMAIN vectors' : vectors'[t] = vectors[t]
    BY <1>9, DeleteVectorIs, ClearVectorsIs
  <2>3. ASSUME NEW q \in Writer \ {p}
        PROVE  DimensionOf(q)'
    BY <1>1, <2>1, <2>2, KindsStay, ZenonT(40) DEF DimensionHeld, DimensionOf, Kind
  <2>4. CASE DeleteVector(p)
    <3>1. DimensionOf(p)'
      BY <2>4, DeleteVectorIs DEF DimensionOf, PurgeAt, Kind
    <3>2. QED
      BY <1>1, <2>1, <2>2, <2>3, <3>1 DEF DimensionHeld
  <2>5. CASE ClearVectors(p)
    <3>1. DimensionOf(p)'
      BY <2>5, ClearVectorsIs DEF DimensionOf, Reembedding, Kind
    <3>2. QED
      BY <1>1, <2>1, <2>2, <2>3, <3>1 DEF DimensionHeld
  <2>6. QED
    BY <1>9, <2>4, <2>5
<1>10. QED
  BY <1>1, <1>3, <1>4, <1>5, <1>6, <1>7, <1>8, <1>9, DimensionByModel, DimensionByVector
     DEF Working

-----------------------------------------------------------------------------
\* The invariant holds at the start.
LEMMA VaultInitially == VaultInit => VaultInv
<1> SUFFICES ASSUME VaultInit
             PROVE  VaultInv
  OBVIOUS
<1>1. /\ rows = <<>> /\ DOMAIN rows = {} /\ rows \in Seq(RowSet) /\ DOMAIN vectors = {}
      /\ vectors \in [{} -> [by : Embedder, of : SUBSET Content]]
  BY DEF VaultInit, EmptyTable
<1>2. /\ command \in [Writer -> Commands]
      /\ \A p \in Writer : command[p] = AtRest /\ Kind(p) = "none" /\ command[p].stage = "idle"
  BY RestIsCommand DEF VaultInit, AtRest, Kind
<1>3. VaultTyped
  BY <1>1, <1>2 DEF VaultTyped, VaultInit
<1>4. MetTells
  BY <1>2 DEF MetTells, Rowers, Embedding, Declaring
<1>5. TargetsOfTasks /\ TextOfTask /\ RowsExplained /\ VectorsCovered /\ DimensionHeld
  BY <1>1, <1>2 DEF TargetsOfTasks, TextOfTask, RowsExplained, VectorsCovered, DimensionHeld,
     DimensionOf, Stands
<1>6. QED
  BY <1>3, <1>4, <1>5 DEF VaultInv

\* Every step keeps it.
LEMMA VaultKeeps == VaultInv /\ [VaultNext]_vaultVars => VaultInv'
<1>1. SUFFICES ASSUME VaultInv, [VaultNext]_vaultVars
               PROVE  VaultInv'
  OBVIOUS
<1>2. CASE UNCHANGED vaultVars
  <2>1. UNCHANGED <<rows, stored, vectors, metaModel, metaDim, command, met, torn>>
    BY <1>2 DEF vaultVars, vaultTables
  <2>2. VaultTyped'
    BY <1>1, <2>1 DEF VaultInv, VaultTyped
  <2>3. MetTells'
    BY <1>1, <2>1 DEF VaultInv, MetTells, Kind, Beside
  <2>4. TargetsOfTasks' /\ TextOfTask'
    BY <1>1, <2>1 DEF VaultInv, TargetsOfTasks, TextOfTask, Kind, RefOf, Stands
  <2>5. RowsExplained'
    BY <1>1, <2>1 DEF VaultInv, RowsExplained, Kind, Beside, RefOf, Stands, PurgedEverywhere,
       Purging
  <2>6. VectorsCovered' /\ DimensionHeld'
    BY <1>1, <2>1 DEF VaultInv, VectorsCovered, DimensionHeld, DimensionOf, Kind, Beside, Purges,
       InTwoTasks, Declared, Alone
  <2>7. QED
    BY <2>2, <2>3, <2>4, <2>5, <2>6 DEF VaultInv
<1>3. ASSUME NEW p \in Writer, Observe(p) \/ Ingest(p) \/ Purge(p) \/ Reembed(p)
      PROVE  VaultInv'
  <2>1. PICK cmd \in Commands : Launch(p, cmd) /\ Starts(cmd)
    BY <1>1, <1>3, Launches DEF VaultInv
  <2>2. QED
    BY <1>1, <1>3, <2>1, TypedByLaunch, MetByLaunch, TargetsByLaunch, TextByLaunch, RowsByLaunch,
       VectorsByLaunch, DimensionByLaunch DEF VaultInv
<1>4. ASSUME NEW p \in Writer, Working(p)
      PROVE  VaultInv'
  BY <1>1, <1>4, KindsStay, MetByWork, TargetsByWork, TextByWork, RowsByWork, VectorsByWork,
     DimensionByWork DEF VaultInv
<1>5. QED
  BY <1>1, <1>2, <1>3, <1>4 DEF VaultNext, Working

\* And it holds always.
LEMMA VaultInvariant == VaultSpec => []VaultInv
BY VaultInitially, VaultKeeps, PTL DEF VaultSpec

\* A content of two tasks is shared.
LEMMA TwoTasksShare ==
  ASSUME VaultTyped, NEW c, InTwoTasks(c)
  PROVE  Shared(c)
<1> DEFINE having == {k \in DOMAIN rows : rows[k].ref = c}
           tasks == {rows[i].task : i \in having}
           task == [i \in having |-> rows[i].task]
<1>1. IsFiniteSet(DOMAIN rows)
  <2>1. DOMAIN rows = 1..Len(rows) /\ Len(rows) \in Nat
    BY DEF VaultTyped
  <2>2. QED
    BY <2>1, FS_Interval
<1>2. IsFiniteSet(having)
  BY <1>1, FS_Subset
<1>3. task \in Surjection(having, tasks)
  BY DEF Surjection
<1>4. IsFiniteSet(tasks)
  BY <1>2, <1>3, FS_Surjection
<1>5. PICK i, k \in having : rows[i].task # rows[k].task
  BY DEF InTwoTasks
<1>6. {rows[i].task, rows[k].task} \subseteq tasks
  OBVIOUS
<1>7. Cardinality({rows[i].task, rows[k].task}) = 2
  <2>1. IsFiniteSet({rows[i].task}) /\ Cardinality({rows[i].task}) = 1
    BY FS_Singleton
  <2>2. {rows[i].task} \cup {rows[k].task} = {rows[i].task, rows[k].task}
    OBVIOUS
  <2>3. QED
    BY <1>5, <2>1, <2>2, FS_AddElement
<1>8. Cardinality(tasks) \in Nat /\ 2 <= Cardinality(tasks)
  BY <1>4, <1>6, <1>7, FS_Subset, FS_CardinalityType
<1>9. QED
  BY <1>8 DEF Shared

\* "missing/purged" of brain0 verify: a row that is not marked resolves, but for the
\* content a purge is at, or one that crashed there (purge.rs, mark_payload_purged).
THEOREM MissingWasPurged == VaultSpec => []MissingIsPurged
<1>1. VaultInv => MissingIsPurged
  <2>1. SUFFICES ASSUME VaultInv, ~Beside(Rowers), torn = {},
                        NEW i \in DOMAIN rows, rows[i].ref \in Missing
                 PROVE  rows[i].purged \/ \E p \in Writer : Purging(p, rows[i].ref)
    BY DEF MissingIsPurged, Rowers
  <2>2. rows[i].ref \notin stored
    BY <2>1 DEF Missing
  <2>3. QED
    BY <2>1, <2>2 DEF VaultInv, RowsExplained
<1>2. QED
  BY <1>1, VaultInvariant, PTL

\* No secret survives in a vector, with the three exceptions of the property.
THEOREM VectorsDoNotSurvive == VaultSpec => []NoVectorSurvives
<1>1. VaultInv => NoVectorSurvives
  <2>1. SUFFICES ASSUME VaultInv, ~Beside(Embedding),
                        NEW t \in DOMAIN vectors \ torn, NEW c \in vectors[t].of
                 PROVE  c \in stored \/ Shared(c) \/ \E p \in Writer : Purges(p, t)
    BY DEF NoVectorSurvives, Embedding
  <2>2. c \in stored \/ InTwoTasks(c) \/ \E p \in Writer : Purges(p, t)
    BY <2>1 DEF VaultInv, VectorsCovered
  <2>3. QED
    BY <2>1, <2>2, TwoTasksShare DEF VaultInv
<1>2. QED
  BY <1>1, VaultInvariant, PTL

\* All vectors have the declared dimension, whatever crashes (set_embedding_meta,
\* put_task_embedding, reembed).
THEOREM OneDimensionHolds == VaultSpec => []OneDimension
<1>1. VaultInv => OneDimension
  BY DEF VaultInv, DimensionHeld, OneDimension, Alone, Declaring
<1>2. QED
  BY <1>1, VaultInvariant, PTL

-----------------------------------------------------------------------------
(***************************************************************************)
(* The files of payloads and of keys.                                      *)
(***************************************************************************)
Stages ==
  {"idle", "locate", "move", "copy", "compare", "unlink", "put", "get", "shred", "kek", "mint",
   "fill", "create", "write", "rename", "open"}

Openers ==
  [stage : Stages, op : {"none", "put", "get", "shred"}, mode : Mode \cup {"none"},
   place : Place \cup {"none"}, key : Nat, id : Nat, fd : Nat, seal : Nat]

Files == [seal : Nat, whole : BOOLEAN]

BlobsTyped ==
  /\ keyAt \in [KeyPaths -> Nat]
  /\ DOMAIN inodes \subseteq Nat \ {0}
  /\ inodes \in [DOMAIN inodes -> Files]
  /\ names \in [tmp : {0} \cup DOMAIN inodes, final : [Mode -> {0} \cup DOMAIN inodes]]
  /\ opener \in [Opener -> Openers]
  /\ opens \in Nat /\ falls \in Nat /\ raced \in BOOLEAN /\ mixed \in BOOLEAN

IsKey(key) == key \notin {Absent, Short}

Minting(p) == opener[p].stage \in {"mint", "fill"}

\* What the stages tell of a process.
Tells(p) ==
  ~InStage(p, "idle") =>
    /\ opener[p].mode \in Mode /\ opener[p].place \in Place /\ opener[p].op # "none"
    /\ opener[p].stage \in {"kek", "mint", "fill"} =>
         opener[p].op = "get" \/ (opener[p].op = "put" /\ opener[p].mode = "sealed")
    /\ InStage(p, "put") => opener[p].op = "put"
    /\ opener[p].stage \in {"get", "open"} => opener[p].op = "get"
    /\ InStage(p, "open") => IsKey(opener[p].key)
    /\ InStage(p, "write") => opener[p].fd \in DOMAIN inodes
    /\ opener[p].stage \notin {"copy", "create", "write", "rename", "open"} =>
         opener[p].key = Absent
    /\ opener[p].stage \in {"create", "write"} =>
         (opener[p].key = Absent <=> opener[p].mode = "clear")

StagesTell == \A p \in Opener : Tells(p)

\* An operation has a number of its own, which is a new file until it makes one.
NumbersAreFresh ==
  /\ \A i \in DOMAIN inodes : i < opens + 3
  /\ \A p \in Opener : ~InStage(p, "idle") =>
       /\ 2 < opener[p].id /\ opener[p].id < opens + 3
       /\ opener[p].stage \notin {"write", "rename"} => opener[p].id \notin DOMAIN inodes
       /\ \A q \in Opener \ {p} : ~InStage(q, "idle") => opener[q].id # opener[p].id

\* The temporary path is not a name of the store.
TmpApart == names.tmp # 0 => \A m \in Mode : names.final[m] # names.tmp

Writes(p, i) == InStage(p, "write") /\ opener[p].fd = i

\* A file is what a store of this mode reads, or is being written.
Fits(i, m) ==
  \/ inodes[i].whole /\ (inodes[i].seal # Absent <=> m = "sealed")
  \/ \E p \in Opener : Writes(p, i)

\* Who has the temporary file, and what is in it, is of one mode - where the modes
\* have not mixed there and no process has fallen.
OneMode ==
  falls = 0 /\ ~mixed =>
    /\ \A p, q \in Opener :
         opener[p].stage \in AtTmp /\ opener[q].stage \in AtTmp =>
           opener[p].mode = opener[q].mode
    /\ \A p \in Opener :
         opener[p].stage \in AtTmp /\ names.tmp # 0 => Fits(names.tmp, opener[p].mode)
    /\ \A m \in Stored : Fits(names.final[m], m)
    /\ \A p \in Opener : InStage(p, "write") =>
         /\ \A m \in Stored : Writes(p, names.final[m]) => opener[p].mode = m
         /\ opener[p].mode # "sealed" => inodes[opener[p].fd].seal = Absent

Kept(key) == \E k \in KeyPaths : keyAt[k] = key

\* The key of an old index is moved before any other is made for the default place.
OldKeyFirst ==
  /\ keyAt["sibling"] \in {Absent, LegacyKey}
  /\ \A p \in Opener : InStage(p, "copy") => opener[p].key = LegacyKey
  /\ \A p \in Opener :
       opener[p].stage \notin {"idle", "locate", "move", "copy", "compare", "unlink"} =>
         keyAt["default"] # Absent \/ keyAt["sibling"] = Absent

\* What the steps of a move and of a making of the key rely on.
KeyAlone ==
  ~raced =>
    /\ keyAt["sibling"] # Absent => keyAt["default"] \in {Absent, Short, LegacyKey}
    /\ \A p \in Opener :
         /\ InStage(p, "copy") => keyAt["default"] \in {Short, LegacyKey}
         /\ InStage(p, "unlink") => keyAt["default"] = LegacyKey
         /\ InStage(p, "mint") => keyAt[opener[p].place] = Absent
         /\ InStage(p, "fill") => keyAt[opener[p].place] = Short
         /\ Minting(p) =>
              /\ opener[p].place = "default" =>
                   /\ keyAt["sibling"] = Absent
                   /\ \A q \in Opener : ~InStage(q, "copy")
              /\ \A q \in Opener \ {p} : ~Minting(q)
              /\ \A q \in Opener :
                   InStage(q, "open") => opener[q].place # opener[p].place
         /\ InStage(p, "open") =>
              \/ keyAt[opener[p].place] = opener[p].key
              \/ keyAt[opener[p].place] = Short /\ opener[p].key = LegacyKey

\* The keys that are in use are on disk.
KeysKept ==
  ~raced =>
    /\ \A i \in DOMAIN inodes :
         inodes[i].whole /\ inodes[i].seal # Absent =>
           IsKey(inodes[i].seal) /\ Kept(inodes[i].seal)
    /\ \A p \in Opener :
         /\ opener[p].stage \in {"create", "write"} /\ opener[p].mode = "sealed" =>
              IsKey(opener[p].key) /\ Kept(opener[p].key)
         /\ opener[p].stage \in {"kek", "mint", "fill", "open"} /\ opener[p].op = "get" =>
              IsKey(opener[p].seal) /\ Kept(opener[p].seal)

BlobsInv ==
  /\ BlobsTyped /\ StagesTell /\ NumbersAreFresh /\ TmpApart /\ OneMode
  /\ OldKeyFirst /\ KeyAlone /\ KeysKept

-----------------------------------------------------------------------------
Others(p) == \A q \in Opener \ {p} : opener'[q] = opener[q]

\* A process goes on to a stage and keeps what it has.
Goes(p, stage) ==
  /\ opener' \in [Opener -> Openers] /\ Others(p)
  /\ opener'[p].stage = stage
  /\ opener'[p].op = opener[p].op /\ opener'[p].mode = opener[p].mode
  /\ opener'[p].place = opener[p].place /\ opener'[p].id = opener[p].id

\* A step of one process changes its record alone.
LEMMA OneOpener ==
  ASSUME BlobsTyped, NEW p \in Opener, NEW r \in Openers, opener' = [opener EXCEPT ![p] = r]
  PROVE  opener' \in [Opener -> Openers] /\ Others(p) /\ opener'[p] = r
BY DEF BlobsTyped, Others

\* Going on leaves key, file and seal in hand.
LEMMA Goings ==
  ASSUME BlobsTyped, NEW p \in Opener, NEW stage \in Stages, GoOn(p, stage)
  PROVE  /\ Goes(p, stage)
         /\ opener'[p].key = opener[p].key /\ opener'[p].fd = opener[p].fd
         /\ opener'[p].seal = opener[p].seal
<1> DEFINE r == [opener[p] EXCEPT !.stage = stage]
<1>1. opener' = [opener EXCEPT ![p] = r]
  BY DEF GoOn, BlobsTyped
<1>2. opener[p] \in Openers
  BY DEF BlobsTyped
<1>3. /\ r \in Openers /\ r.stage = stage /\ r.op = opener[p].op /\ r.mode = opener[p].mode
      /\ r.place = opener[p].place /\ r.id = opener[p].id /\ r.key = opener[p].key
      /\ r.fd = opener[p].fd /\ r.seal = opener[p].seal
  BY <1>2 DEF Openers
<1> HIDE DEF r
<1>4. QED
  BY <1>1, <1>3, OneOpener DEF Goes

\* A process that quits is idle.
LEMMA Quits ==
  ASSUME BlobsTyped, NEW p \in Opener, Quit(p)
  PROVE  opener' \in [Opener -> Openers] /\ Others(p) /\ opener'[p].stage = "idle"
<1>1. OpenerIdle \in Openers /\ OpenerIdle.stage = "idle"
  BY DEF OpenerIdle, Openers, Stages, Absent
<1>2. QED
  BY <1>1, OneOpener DEF Quit

\* A step that goes on with a key, as KeyRead and KeyFill do.
LEMMA KeyGoings ==
  ASSUME BlobsTyped, NEW p \in Opener, NEW key \in Nat, WithKey(p, key)
  PROVE  /\ Goes(p, IF opener[p].op = "get" THEN "open" ELSE "create")
         /\ opener'[p].key = key /\ opener'[p].fd = opener[p].fd
         /\ opener'[p].seal = opener[p].seal
<1> DEFINE stage == IF opener[p].op = "get" THEN "open" ELSE "create"
           r == [opener[p] EXCEPT !.stage = stage, !.key = key]
<1>1. opener' = [opener EXCEPT ![p] = r]
  BY DEF WithKey, BlobsTyped
<1>2. opener[p] \in Openers /\ stage \in Stages
  BY DEF BlobsTyped, Stages
<1> HIDE DEF stage
<1>3. /\ r \in Openers /\ r.stage = stage /\ r.op = opener[p].op /\ r.mode = opener[p].mode
      /\ r.place = opener[p].place /\ r.id = opener[p].id /\ r.key = key
      /\ r.fd = opener[p].fd /\ r.seal = opener[p].seal
  BY <1>2 DEF Openers
<1> HIDE DEF r
<1>4. QED
  BY <1>1, <1>3, OneOpener DEF Goes, stage

\* The fields of a process.
LEMMA FieldsAre ==
  ASSUME BlobsTyped, NEW p \in Opener
  PROVE  /\ opener[p] \in Openers
         /\ opener[p].stage \in Stages /\ opener[p].op \in {"none", "put", "get", "shred"}
         /\ opener[p].mode \in Mode \cup {"none"} /\ opener[p].place \in Place \cup {"none"}
         /\ opener[p].key \in Nat /\ opener[p].id \in Nat /\ opener[p].fd \in Nat
         /\ opener[p].seal \in Nat
BY DEF BlobsTyped, Openers

\* What is at the places of the key.
LEMMA KeysAre ==
  ASSUME BlobsTyped
  PROVE  /\ keyAt["default"] \in Nat /\ keyAt["explicit"] \in Nat /\ keyAt["sibling"] \in Nat
         /\ \A k \in KeyPaths : keyAt[k] \in Nat
BY DEF BlobsTyped, KeyPaths

\* A process is told a place, never the old one.
LEMMA PlacesAre == Place \subseteq {"default", "explicit"} /\ Place \subseteq KeyPaths
BY BlobsAssumption DEF KeyPaths

\* A key file is written: the others stay as they are.
LEMMA KeyWritten ==
  ASSUME BlobsTyped, NEW k \in KeyPaths, NEW key \in Nat, keyAt' = [keyAt EXCEPT ![k] = key]
  PROVE  keyAt' \in [KeyPaths -> Nat] /\ keyAt'[k] = key
         /\ \A l \in KeyPaths \ {k} : keyAt'[l] = keyAt[l]
BY DEF BlobsTyped

-----------------------------------------------------------------------------
\* One lemma for each action: what it does to its process and to the files.
LEMMA OpenIs ==
  ASSUME BlobsTyped, NEW p \in Opener, Open(p)
  PROVE  /\ opener' \in [Opener -> Openers] /\ Others(p) /\ opens' = opens + 1
         /\ opener'[p].stage = "locate" /\ opener'[p].id = opens + 3
         /\ opener'[p].key = Absent
         /\ opener'[p].mode \in Mode /\ opener'[p].place \in Place /\ opener'[p].op # "none"
         /\ UNCHANGED <<keyAt, inodes, names, falls, raced, mixed>> /\ InStage(p, "idle")
<1>1. PICK op \in {"put", "get", "shred"}, m \in Mode, place \in Place :
       opener' = [opener EXCEPT ![p] =
         [OpenerIdle EXCEPT !.stage = "locate", !.op = op, !.mode = m, !.place = place,
                            !.id = opens + 3]]
  BY DEF Open
<1> DEFINE r == [OpenerIdle EXCEPT !.stage = "locate", !.op = op, !.mode = m, !.place = place,
                                   !.id = opens + 3]
<1>2. opens + 3 \in Nat
  BY DEF BlobsTyped
<1>3. /\ r \in Openers /\ r.stage = "locate" /\ r.id = opens + 3 /\ r.key = Absent
      /\ r.mode = m /\ r.place = place /\ r.op = op
  BY <1>2 DEF OpenerIdle, Openers, Stages, Absent
<1> HIDE DEF r
<1>4. opener' = [opener EXCEPT ![p] = r]
  BY <1>1 DEF r
<1>5. /\ opens' = opens + 1 /\ UNCHANGED <<keyAt, inodes, names, falls, raced, mixed>>
      /\ InStage(p, "idle")
  BY DEF Open
<1>6. QED
  BY <1>3, <1>4, <1>5, OneOpener

LEMMA LocateIs ==
  ASSUME BlobsTyped, StagesTell, NEW p \in Opener, Locate(p)
  PROVE  /\ opener' \in [Opener -> Openers] /\ Others(p)
         /\ \/ opener'[p].stage = "idle"
            \/ /\ Goes(p, opener[p].op) /\ opener'[p].key = opener[p].key
               /\ keyAt["default"] # Absent \/ keyAt["sibling"] = Absent
            \/ /\ Goes(p, "move") /\ opener'[p].key = opener[p].key
               /\ keyAt["default"] = Absent /\ keyAt["sibling"] # Absent
<1>1. CASE GoOn(p, "move") /\ keyAt["default"] = Absent /\ keyAt["sibling"] # Absent
  BY <1>1, Goings DEF Stages, Goes
<1>2. CASE Quit(p)
  BY <1>2, Quits
<1>3. CASE GoOn(p, opener[p].op) /\ (keyAt["default"] # Absent \/ keyAt["sibling"] = Absent)
  <2>1. opener[p].op \in {"put", "get", "shred"}
    BY FieldsAre DEF StagesTell, Tells, Locate, InStage
  <2>2. opener[p].op \in Stages
    BY <2>1 DEF Stages
  <2>3. QED
    BY <1>3, <2>2, Goings DEF Goes
<1>4. QED
  BY <1>1, <1>2, <1>3 DEF Locate

LEMMA MoveKeyIs ==
  ASSUME BlobsTyped, NEW p \in Opener, MoveKey(p)
  PROVE  /\ Goes(p, "locate") /\ opener'[p].key = opener[p].key
         /\ keyAt' \in [KeyPaths -> Nat]
         /\ keyAt'["explicit"] = keyAt["explicit"] /\ keyAt'["sibling"] = Absent
         /\ keyAt'["default"] = IF keyAt["sibling"] = Absent THEN keyAt["default"]
                                ELSE keyAt["sibling"]
<1>1. Goes(p, "locate") /\ opener'[p].key = opener[p].key
  BY Goings DEF MoveKey, Stages
<1>2. QED
  BY <1>1 DEF MoveKey, BlobsTyped, KeyPaths, Absent

LEMMA CopyOpenIs ==
  ASSUME BlobsTyped, NEW p \in Opener, CopyOpen(p)
  PROVE  /\ keyAt' \in [KeyPaths -> Nat]
         /\ raced' \in BOOLEAN /\ (raced => raced')
         /\ \/ /\ Goes(p, "locate") /\ opener'[p].key = opener[p].key
               /\ keyAt' = keyAt /\ keyAt["sibling"] = Absent
            \/ /\ Goes(p, "copy") /\ opener'[p].key = keyAt["sibling"]
               /\ keyAt["sibling"] # Absent /\ keyAt'["default"] = Short
               /\ keyAt'["sibling"] = keyAt["sibling"]
               /\ keyAt'["explicit"] = keyAt["explicit"]
         /\ ~raced' => \A q \in Opener : opener[q].stage \notin {"copy", "compare", "unlink"}
<1>1. /\ raced' \in BOOLEAN /\ (raced => raced')
      /\ ~raced' => \A q \in Opener : opener[q].stage \notin {"copy", "compare", "unlink"}
  BY DEF CopyOpen, BlobsTyped
<1>2. CASE keyAt["sibling"] = Absent
  <2>1. GoOn(p, "locate") /\ keyAt' = keyAt
    BY <1>2 DEF CopyOpen
  <2>2. Goes(p, "locate") /\ opener'[p].key = opener[p].key
    BY <2>1, Goings DEF Stages
  <2>3. QED
    BY <1>1, <1>2, <2>1, <2>2 DEF BlobsTyped
<1>3. CASE keyAt["sibling"] # Absent
  <2> DEFINE r == [opener[p] EXCEPT !.stage = "copy", !.key = keyAt["sibling"]]
  <2>1. opener' = [opener EXCEPT ![p] = r] /\ keyAt' = [keyAt EXCEPT !["default"] = Short]
    BY <1>3 DEF CopyOpen, BlobsTyped
  <2>2. /\ r \in Openers /\ r.stage = "copy" /\ r.op = opener[p].op /\ r.mode = opener[p].mode
        /\ r.place = opener[p].place /\ r.id = opener[p].id /\ r.key = keyAt["sibling"]
    BY FieldsAre, KeysAre DEF Openers, Stages
  <2> HIDE DEF r
  <2>3. Goes(p, "copy") /\ opener'[p].key = keyAt["sibling"]
    BY <2>1, <2>2, OneOpener DEF Goes
  <2>4. QED
    BY <1>1, <1>3, <2>1, <2>3, KeyWritten DEF KeyPaths, Short
<1>4. QED
  BY <1>2, <1>3

LEMMA CopyFillIs ==
  ASSUME BlobsTyped, NEW p \in Opener, CopyFill(p)
  PROVE  /\ Goes(p, "compare") /\ opener'[p].key = Absent
         /\ keyAt' \in [KeyPaths -> Nat]
         /\ keyAt'["default"] = opener[p].key
         /\ keyAt'["sibling"] = keyAt["sibling"] /\ keyAt'["explicit"] = keyAt["explicit"]
<1> DEFINE r == [opener[p] EXCEPT !.stage = "compare", !.key = Absent]
<1>1. opener' = [opener EXCEPT ![p] = r]
  BY DEF CopyFill, BlobsTyped
<1>2. /\ r \in Openers /\ r.stage = "compare" /\ r.op = opener[p].op /\ r.mode = opener[p].mode
      /\ r.place = opener[p].place /\ r.id = opener[p].id /\ r.key = Absent
  BY FieldsAre DEF Openers, Stages, Absent
<1> HIDE DEF r
<1>3. Goes(p, "compare") /\ opener'[p].key = Absent
  BY <1>1, <1>2, OneOpener DEF Goes
<1>4. QED
  BY <1>3, KeyWritten, FieldsAre DEF CopyFill, KeyPaths

LEMMA CopyCompareIs ==
  ASSUME BlobsTyped, NEW p \in Opener, CopyCompare(p)
  PROVE  /\ Goes(p, "locate") \/ (Goes(p, "unlink") /\ CopyAgrees)
         /\ opener'[p].key = opener[p].key
BY Goings DEF CopyCompare, Stages

LEMMA CopyUnlinkIs ==
  ASSUME BlobsTyped, NEW p \in Opener, CopyUnlink(p)
  PROVE  /\ Goes(p, "locate") /\ opener'[p].key = opener[p].key
         /\ keyAt' \in [KeyPaths -> Nat]
         /\ keyAt'["default"] = keyAt["default"] /\ keyAt'["explicit"] = keyAt["explicit"]
         /\ keyAt'["sibling"] = Absent
<1>1. Goes(p, "locate") /\ opener'[p].key = opener[p].key
  BY Goings DEF CopyUnlink, Stages
<1>2. QED
  BY <1>1, KeyWritten DEF CopyUnlink, KeyPaths, Absent

LEMMA GetIs ==
  ASSUME BlobsTyped, StagesTell, NEW p \in Opener, Get(p)
  PROVE  /\ opener' \in [Opener -> Openers] /\ Others(p)
         /\ \/ opener'[p].stage = "idle"
            \/ /\ Goes(p, "kek") /\ opener'[p].key = opener[p].key
               /\ \E i \in DOMAIN inodes : WholeBox(i) /\ opener'[p].seal = inodes[i].seal
<1>1. CASE Quit(p)
  BY <1>1, Quits
<1>2. CASE ~Quit(p)
  <2> DEFINE i == Here(p)
             r == [opener[p] EXCEPT !.stage = "kek", !.seal = inodes[i].seal]
  <2>1. opener[p].mode \in Mode
    BY DEF StagesTell, Tells, Get, InStage
  <2>2. i # 0 /\ WholeBox(i)
    BY <1>2 DEF Get
  <2>3. i \in DOMAIN inodes
    BY <2>1, <2>2 DEF BlobsTyped, Here
  <2>4. opener' = [opener EXCEPT ![p] = r]
    BY <1>2 DEF Get, BlobsTyped
  <2>5. inodes[i].seal \in Nat
    BY <2>3 DEF BlobsTyped, Files
  <2>6. /\ r \in Openers /\ r.stage = "kek" /\ r.op = opener[p].op /\ r.mode = opener[p].mode
        /\ r.place = opener[p].place /\ r.id = opener[p].id /\ r.key = opener[p].key
        /\ r.seal = inodes[i].seal
    BY <2>5, FieldsAre DEF Openers, Stages
  <2> HIDE DEF r
  <2>7. Goes(p, "kek") /\ opener'[p].key = opener[p].key /\ opener'[p].seal = inodes[i].seal
    BY <2>4, <2>6, OneOpener DEF Goes
  <2>8. QED
    BY <2>2, <2>3, <2>7 DEF Goes
<1>3. QED
  BY <1>1, <1>2

LEMMA PutExistsIs ==
  ASSUME BlobsTyped, NEW p \in Opener, PutExists(p)
  PROVE  /\ opener' \in [Opener -> Openers] /\ Others(p)
         /\ \/ opener'[p].stage = "idle"
            \/ /\ Goes(p, "create") /\ opener[p].mode = "clear"
               /\ opener'[p].key = opener[p].key
            \/ /\ Goes(p, "kek") /\ opener[p].mode # "clear"
               /\ opener'[p].key = opener[p].key
<1>1. CASE Quit(p)
  BY <1>1, Quits
<1>2. CASE GoOn(p, "create") /\ opener[p].mode = "clear"
  BY <1>2, Goings DEF Stages, Goes
<1>3. CASE GoOn(p, "kek") /\ opener[p].mode # "clear"
  BY <1>3, Goings DEF Stages, Goes
<1>4. QED
  BY <1>1, <1>2, <1>3 DEF PutExists

LEMMA KeyReadIs ==
  ASSUME BlobsTyped, StagesTell, NEW p \in Opener, KeyRead(p)
  PROVE  /\ opener' \in [Opener -> Openers] /\ Others(p)
         /\ opener[p].place \in KeyPaths
         /\ raced' \in BOOLEAN /\ (raced => raced')
         /\ \/ opener'[p].stage = "idle"
            \/ /\ Goes(p, "mint") /\ keyAt[opener[p].place] = Absent
               /\ opener'[p].key = opener[p].key /\ opener'[p].seal = opener[p].seal
               /\ ~raced' => \A q \in Opener \ {p} :
                                opener[q].stage \notin {"mint", "fill", "move", "copy"}
            \/ /\ Goes(p, IF opener[p].op = "get" THEN "open" ELSE "create")
               /\ opener'[p].key = keyAt[opener[p].place]
               /\ opener'[p].seal = opener[p].seal
               /\ IsKey(keyAt[opener[p].place])
<1> DEFINE key == keyAt[opener[p].place]
<1>1. opener[p].place \in Place
  BY DEF StagesTell, Tells, KeyRead, InStage
<1>2. opener[p].place \in KeyPaths /\ key \in Nat
  BY <1>1, PlacesAre, KeysAre
<1>3. raced' \in BOOLEAN /\ (raced => raced')
  BY DEF KeyRead, BlobsTyped
<1>4. CASE key = Short
  <2>1. Quit(p)
    BY <1>4 DEF KeyRead, Absent, Short
  <2>2. QED
    BY <1>2, <1>3, <2>1, Quits
<1>5. CASE key = Absent
  <2>1. GoOn(p, "mint")
    BY <1>5 DEF KeyRead, Absent, Short
  <2>2. ~raced' => \A q \in Opener \ {p} :
                     opener[q].stage \notin {"mint", "fill", "move", "copy"}
    BY <1>5 DEF KeyRead, BlobsTyped
  <2>3. QED
    BY <1>2, <1>3, <1>5, <2>1, <2>2, Goings DEF Stages, Goes
<1>6. CASE IsKey(key)
  <2>1. WithKey(p, key)
    BY <1>6 DEF KeyRead, IsKey
  <2>2. QED
    BY <1>2, <1>3, <1>6, <2>1, KeyGoings DEF Goes
<1>7. QED
  BY <1>4, <1>5, <1>6 DEF IsKey

LEMMA KeyCreateIs ==
  ASSUME BlobsTyped, StagesTell, NEW p \in Opener, KeyCreate(p)
  PROVE  /\ Goes(p, "fill") /\ opener'[p].key = opener[p].key /\ opener'[p].seal = opener[p].seal
         /\ opener[p].place \in KeyPaths /\ opener[p].place # "sibling"
         /\ keyAt' \in [KeyPaths -> Nat] /\ keyAt'[opener[p].place] = Short
         /\ \A l \in KeyPaths \ {opener[p].place} : keyAt'[l] = keyAt[l]
<1>1. opener[p].place \in Place
  BY DEF StagesTell, Tells, KeyCreate, InStage
<1>2. QED
  BY <1>1, Goings, PlacesAre, KeyWritten DEF KeyCreate, Stages, Short

LEMMA KeyFillIs ==
  ASSUME BlobsTyped, StagesTell, NEW p \in Opener, KeyFill(p)
  PROVE  /\ Goes(p, IF opener[p].op = "get" THEN "open" ELSE "create")
         /\ opener'[p].key = opener[p].id /\ opener'[p].seal = opener[p].seal
         /\ opener[p].place \in KeyPaths /\ opener[p].place # "sibling"
         /\ keyAt' \in [KeyPaths -> Nat] /\ keyAt'[opener[p].place] = opener[p].id
         /\ \A l \in KeyPaths \ {opener[p].place} : keyAt'[l] = keyAt[l]
<1>1. opener[p].place \in Place
  BY DEF StagesTell, Tells, KeyFill, InStage
<1>2. opener[p].id \in Nat
  BY FieldsAre
<1>3. /\ WithKey(p, opener[p].id)
      /\ keyAt' = [keyAt EXCEPT ![opener[p].place] = opener[p].id]
  BY DEF KeyFill
<1>4. opener[p].place \in KeyPaths /\ opener[p].place # "sibling"
  BY <1>1, PlacesAre
<1>5. /\ Goes(p, IF opener[p].op = "get" THEN "open" ELSE "create")
      /\ opener'[p].key = opener[p].id /\ opener'[p].seal = opener[p].seal
  BY <1>2, <1>3, KeyGoings
<1>6. /\ keyAt' \in [KeyPaths -> Nat] /\ keyAt'[opener[p].place] = opener[p].id
      /\ \A l \in KeyPaths \ {opener[p].place} : keyAt'[l] = keyAt[l]
  BY <1>2, <1>3, <1>4, KeyWritten
<1>7. QED
  BY <1>4, <1>5, <1>6

LEMMA TmpCreateIs ==
  ASSUME BlobsTyped, StagesTell, NumbersAreFresh, NEW p \in Opener, TmpCreate(p)
  PROVE  LET i == TmpOf(p) IN
         /\ Goes(p, "write") /\ opener'[p].key = opener[p].key /\ opener'[p].fd = i
         /\ i \in Nat \ {0}
         /\ \/ i = opener[p].id /\ i \notin DOMAIN inodes
            \/ i \in DOMAIN inodes /\ i = names.tmp
         /\ DOMAIN inodes' = DOMAIN inodes \cup {i}
         /\ inodes'[i].seal = Absent /\ inodes'[i].whole = FALSE
         /\ \A k \in DOMAIN inodes \ {i} : inodes'[k] = inodes[k]
         /\ names'.tmp = i /\ names'.final = names.final
         /\ mixed => mixed'
         /\ ~mixed' => \A q \in Opener :
                       opener[q].stage \in AtTmp => opener[q].mode = opener[p].mode
         /\ BlobsTyped'
<1> DEFINE i == TmpOf(p)
           r == [opener[p] EXCEPT !.stage = "write", !.fd = i]
           f == [seal |-> Absent, whole |-> FALSE]
<1>1. 2 < opener[p].id /\ opener[p].id \in Nat /\ opener[p].id \notin DOMAIN inodes
  BY FieldsAre DEF NumbersAreFresh, TmpCreate, InStage
<1>2. names.tmp \in {0} \cup DOMAIN inodes
  BY DEF BlobsTyped
<1>3. /\ i \in Nat \ {0}
      /\ \/ i = opener[p].id /\ i \notin DOMAIN inodes
         \/ i \in DOMAIN inodes /\ i = names.tmp
  BY <1>1, <1>2 DEF TmpOf, BlobsTyped
<1>4. /\ inodes' = [k \in DOMAIN inodes \cup {i} |-> IF k = i THEN f ELSE inodes[k]]
      /\ names' = [names EXCEPT !.tmp = i]
      /\ opener' = [opener EXCEPT ![p] = r]
  BY DEF TmpCreate, BlobsTyped
<1>5. f \in Files /\ f.seal = Absent /\ f.whole = FALSE
  BY DEF Files, Absent
<1> HIDE DEF i, f
<1>6. /\ r \in Openers /\ r.stage = "write" /\ r.op = opener[p].op /\ r.mode = opener[p].mode
      /\ r.place = opener[p].place /\ r.id = opener[p].id /\ r.key = opener[p].key
      /\ r.fd = i
  BY <1>3, FieldsAre DEF Openers, Stages
<1> HIDE DEF r
<1>7. Goes(p, "write") /\ opener'[p].key = opener[p].key /\ opener'[p].fd = i
  BY <1>4, <1>6, OneOpener DEF Goes
<1>8. /\ DOMAIN inodes' = DOMAIN inodes \cup {i} /\ inodes'[i] = f
      /\ \A k \in DOMAIN inodes \ {i} : inodes'[k] = inodes[k]
  BY <1>4
<1>9. inodes' \in [DOMAIN inodes' -> Files] /\ DOMAIN inodes' \subseteq Nat \ {0}
  BY <1>3, <1>4, <1>5 DEF BlobsTyped
<1>10. /\ names'.tmp = i /\ names'.final = names.final
       /\ names' \in [tmp : {0} \cup DOMAIN inodes', final : [Mode -> {0} \cup DOMAIN inodes']]
  BY <1>4, <1>8 DEF BlobsTyped
<1>11. /\ mixed' \in BOOLEAN /\ (mixed => mixed')
       /\ ~mixed' => \A q \in Opener :
                     opener[q].stage \in AtTmp => opener[q].mode = opener[p].mode
  BY DEF TmpCreate, BlobsTyped
<1>12. BlobsTyped'
  BY <1>7, <1>9, <1>10, <1>11 DEF BlobsTyped, TmpCreate, Goes
<1>13. QED
  BY <1>3, <1>5, <1>7, <1>8, <1>10, <1>11, <1>12 DEF i

LEMMA TmpFillIs ==
  ASSUME BlobsTyped, StagesTell, NEW p \in Opener, TmpFill(p)
  PROVE  LET i == opener[p].fd IN
         /\ Goes(p, "rename") /\ BlobsTyped'
         /\ i \in DOMAIN inodes /\ DOMAIN inodes' = DOMAIN inodes
         /\ opener[p].mode = "sealed" =>
              inodes'[i].seal = opener[p].key /\ inodes'[i].whole = TRUE
         /\ opener[p].mode # "sealed" =>
              /\ inodes'[i].seal = inodes[i].seal
              /\ inodes'[i].whole = (inodes[i].seal = Absent)
         /\ \A k \in DOMAIN inodes \ {i} : inodes'[k] = inodes[k]
         /\ names' = names /\ mixed' = mixed
<1> DEFINE i == opener[p].fd
           f == Filled(inodes[i], p)
<1>1. i \in DOMAIN inodes
  BY DEF StagesTell, Tells, TmpFill, InStage
<1>2. Goes(p, "rename")
  BY Goings DEF TmpFill, Stages
<1>3. inodes[i] \in Files
  BY <1>1 DEF BlobsTyped
<1>4. /\ f \in Files
      /\ opener[p].mode = "sealed" => f.seal = opener[p].key /\ f.whole = TRUE
      /\ opener[p].mode # "sealed" =>
           f.seal = inodes[i].seal /\ f.whole = (inodes[i].seal = Absent)
  BY <1>3, FieldsAre DEF Files, Filled
<1>5. inodes' = [inodes EXCEPT ![i] = f]
  BY <1>1 DEF TmpFill
<1> HIDE DEF f
<1>6. /\ DOMAIN inodes' = DOMAIN inodes /\ inodes'[i] = f
      /\ \A k \in DOMAIN inodes \ {i} : inodes'[k] = inodes[k]
      /\ inodes' \in [DOMAIN inodes -> Files]
  BY <1>1, <1>4, <1>5 DEF BlobsTyped
<1>7. names' = names /\ mixed' = mixed
  BY DEF TmpFill
<1>8. BlobsTyped'
  BY <1>2, <1>6 DEF BlobsTyped, TmpFill, Goes
<1>9. QED
  BY <1>1, <1>2, <1>4, <1>6, <1>7, <1>8

\* The temporary file becomes that of the writer's mode, if it is still there.
LEMMA RenameIs ==
  ASSUME BlobsTyped, StagesTell, NEW p \in Opener, Rename(p)
  PROVE  /\ BlobsTyped' /\ Others(p) /\ opener'[p].stage = "idle"
         /\ InStage(p, "rename") /\ opener[p].mode \in Mode
         /\ inodes' = inodes /\ mixed' = mixed
         /\ \/ names' = names /\ names.tmp = 0
            \/ /\ names.tmp # 0 /\ names'.tmp = 0
               /\ names'.final[opener[p].mode] = names.tmp
               /\ \A m \in Mode \ {opener[p].mode} : names'.final[m] = names.final[m]
<1>1. opener' \in [Opener -> Openers] /\ Others(p) /\ opener'[p].stage = "idle"
  BY Quits DEF Rename
<1>2. opener[p].stage = "rename" /\ opener[p].mode \in Mode
  BY DEF StagesTell, Tells, Rename, InStage, RenameFrom
<1>3. inodes' = inodes /\ mixed' = mixed
  BY DEF Rename
<1>4. /\ names' \in [tmp : {0} \cup DOMAIN inodes, final : [Mode -> {0} \cup DOMAIN inodes]]
      /\ \/ names' = names /\ names.tmp = 0
         \/ /\ names.tmp # 0 /\ names'.tmp = 0
            /\ names'.final[opener[p].mode] = names.tmp
            /\ \A m \in Mode \ {opener[p].mode} : names'.final[m] = names.final[m]
  <2>1. names \in [tmp : {0} \cup DOMAIN inodes, final : [Mode -> {0} \cup DOMAIN inodes]]
    BY DEF BlobsTyped
  <2>2. CASE names.tmp = 0
    BY <2>1, <2>2 DEF Rename
  <2>3. CASE names.tmp # 0
    <3>1. names' = [tmp |-> 0, final |-> [names.final EXCEPT ![opener[p].mode] = names.tmp]]
      BY <2>1, <2>3 DEF Rename
    <3>2. QED
      BY <1>2, <2>1, <2>3, <3>1
  <2>4. QED
    BY <2>2, <2>3
<1>5. BlobsTyped'
  BY <1>1, <1>4 DEF BlobsTyped, Rename
<1>6. QED
  BY <1>1, <1>2, <1>3, <1>4, <1>5 DEF InStage

\* A name is given up.
LEMMA ShredFileIs ==
  ASSUME BlobsTyped, StagesTell, NEW p \in Opener, ShredFile(p)
  PROVE  /\ BlobsTyped' /\ Others(p) /\ opener'[p].stage = "idle" /\ InStage(p, "shred")
         /\ inodes' = inodes /\ mixed' = mixed /\ names'.tmp = names.tmp
         /\ \A m \in Mode : names'.final[m] \in {0, names.final[m]}
<1>1. opener' \in [Opener -> Openers] /\ Others(p) /\ opener'[p].stage = "idle"
  BY Quits DEF ShredFile
<1>2. opener[p].mode \in Mode
  BY DEF StagesTell, Tells, ShredFile, InStage
<1>3. /\ names' \in [tmp : {0} \cup DOMAIN inodes, final : [Mode -> {0} \cup DOMAIN inodes]]
      /\ names'.tmp = names.tmp
      /\ \A m \in Mode : names'.final[m] \in {0, names.final[m]}
  BY <1>2 DEF ShredFile, BlobsTyped
<1>4. BlobsTyped'
  BY <1>1, <1>3 DEF BlobsTyped, ShredFile
<1>5. QED
  BY <1>1, <1>3, <1>4 DEF ShredFile

-----------------------------------------------------------------------------
\* The steps that leave the files alone.
FilesStay(p) ==
  \/ Open(p) \/ Fall(p)
  \/ Locate(p) \/ MoveKey(p) \/ CopyOpen(p) \/ CopyFill(p) \/ CopyCompare(p) \/ CopyUnlink(p)
  \/ Get(p) \/ Unseal(p) \/ PutExists(p) \/ KeyRead(p) \/ KeyCreate(p) \/ KeyFill(p)

\* Few actions write files.
LEMMA StepsAre ==
  ASSUME NEW p \in Opener, Open(p) \/ BlobsStep(p) \/ Fall(p)
  PROVE  FilesStay(p) \/ TmpCreate(p) \/ TmpFill(p) \/ Rename(p) \/ ShredFile(p)
BY DEF BlobsStep, FilesStay

\* The others leave them, and the types, as they are.
LEMMA FilesStayIs ==
  ASSUME BlobsTyped, StagesTell, NEW p \in Opener, FilesStay(p)
  PROVE  /\ BlobsTyped' /\ Others(p) /\ inodes' = inodes /\ names' = names
         /\ opener'[p].stage \notin {"write", "rename"}
         /\ InStage(p, "write") => falls' # 0
         /\ falls' = 0 => falls = 0
         /\ mixed' = mixed
         /\ \/ opens' = opens + 1 /\ opener'[p].stage = "locate" /\ opener'[p].id = opens + 3
            \/ opens' = opens /\ opener'[p].stage = "idle"
            \/ /\ opens' = opens /\ Goes(p, opener'[p].stage)
               /\ ~InStage(p, "idle") /\ opener[p].stage \notin {"write", "rename"}
<1> USE DEF InStage
<1>1. inodes' = inodes /\ names' = names /\ mixed' = mixed
  <2>1. CASE Open(p) \/ Fall(p) \/ Locate(p) \/ MoveKey(p) \/ CopyOpen(p)
    BY <2>1 DEF Open, Fall, Locate, MoveKey, CopyOpen
  <2>2. CASE CopyFill(p) \/ CopyCompare(p) \/ CopyUnlink(p) \/ Get(p) \/ Unseal(p)
    BY <2>2 DEF CopyFill, CopyCompare, CopyUnlink, Get, Unseal
  <2>3. CASE PutExists(p) \/ KeyRead(p) \/ KeyCreate(p) \/ KeyFill(p)
    BY <2>3 DEF PutExists, KeyRead, KeyCreate, KeyFill
  <2>4. QED
    BY <2>1, <2>2, <2>3 DEF FilesStay
<1>2. CASE Open(p)
  <2>1. BlobsTyped'
    BY <1>1, <1>2, OpenIs DEF BlobsTyped
  <2>2. QED
    BY <1>1, <1>2, <2>1, OpenIs
<1>3. CASE Fall(p)
  <2>1. opener' \in [Opener -> Openers] /\ Others(p) /\ opener'[p].stage = "idle"
    BY <1>3, Quits DEF Fall
  <2>2. falls' = falls + 1 /\ falls \in Nat
    BY <1>3 DEF Fall, BlobsTyped
  <2>3. BlobsTyped'
    BY <1>1, <1>3, <2>1, <2>2 DEF BlobsTyped, Fall
  <2>4. QED
    BY <1>1, <1>3, <2>1, <2>2, <2>3 DEF Fall
<1>4. CASE Locate(p)
  <2>1. opener[p].op \in {"none", "put", "get", "shred"}
    BY FieldsAre
  <2>2. BlobsTyped'
    BY <1>1, <1>4, LocateIs DEF BlobsTyped, Locate
  <2>3. QED
    BY <1>1, <1>4, <2>1, <2>2, LocateIs DEF Locate, Goes
<1>5. CASE MoveKey(p)
  <2>1. BlobsTyped'
    BY <1>1, <1>5, MoveKeyIs DEF BlobsTyped, MoveKey, Goes
  <2>2. QED
    BY <1>1, <1>5, <2>1, MoveKeyIs DEF MoveKey, Goes
<1>6. CASE CopyOpen(p)
  <2>1. keyAt' \in [KeyPaths -> Nat] /\ raced' \in BOOLEAN
        /\ (Goes(p, "locate") \/ Goes(p, "copy"))
    BY <1>6, CopyOpenIs
  <2>2. BlobsTyped'
    BY <1>1, <1>6, <2>1 DEF BlobsTyped, CopyOpen, Goes
  <2>3. QED
    BY <1>1, <1>6, <2>1, <2>2 DEF CopyOpen, Goes
<1>7. CASE CopyFill(p)
  <2>1. BlobsTyped'
    BY <1>1, <1>7, CopyFillIs DEF BlobsTyped, CopyFill, Goes
  <2>2. QED
    BY <1>1, <1>7, <2>1, CopyFillIs DEF CopyFill, Goes
<1>8. CASE CopyCompare(p)
  <2>1. BlobsTyped'
    BY <1>1, <1>8, CopyCompareIs DEF BlobsTyped, CopyCompare, Goes
  <2>2. QED
    BY <1>1, <1>8, <2>1, CopyCompareIs DEF CopyCompare, Goes
<1>9. CASE CopyUnlink(p)
  <2>1. BlobsTyped'
    BY <1>1, <1>9, CopyUnlinkIs DEF BlobsTyped, CopyUnlink, Goes
  <2>2. QED
    BY <1>1, <1>9, <2>1, CopyUnlinkIs DEF CopyUnlink, Goes
<1>10. CASE Get(p)
  <2>1. BlobsTyped'
    BY <1>1, <1>10, GetIs DEF BlobsTyped, Get
  <2>2. QED
    BY <1>1, <1>10, <2>1, GetIs DEF Get, Goes
<1>11. CASE Unseal(p)
  <2>1. opener' \in [Opener -> Openers] /\ Others(p) /\ opener'[p].stage = "idle"
    BY <1>11, Quits DEF Unseal
  <2>2. BlobsTyped'
    BY <1>1, <1>11, <2>1 DEF BlobsTyped, Unseal
  <2>3. QED
    BY <1>1, <1>11, <2>1, <2>2 DEF Unseal
<1>12. CASE PutExists(p)
  <2>1. BlobsTyped'
    BY <1>1, <1>12, PutExistsIs DEF BlobsTyped, PutExists
  <2>2. QED
    BY <1>1, <1>12, <2>1, PutExistsIs DEF PutExists, Goes
<1>13. CASE KeyRead(p)
  <2>1. opener' \in [Opener -> Openers] /\ Others(p) /\ raced' \in BOOLEAN
        /\ (opener'[p].stage = "idle" \/ Goes(p, "mint") \/ Goes(p, "open")
              \/ Goes(p, "create"))
    BY <1>13, KeyReadIs
  <2>2. BlobsTyped'
    BY <1>1, <1>13, <2>1 DEF BlobsTyped, KeyRead
  <2>3. QED
    BY <1>1, <1>13, <2>1, <2>2 DEF KeyRead, Goes
<1>14. CASE KeyCreate(p)
  <2>1. BlobsTyped'
    BY <1>1, <1>14, KeyCreateIs DEF BlobsTyped, KeyCreate, Goes
  <2>2. QED
    BY <1>1, <1>14, <2>1, KeyCreateIs DEF KeyCreate, Goes
<1>15. CASE KeyFill(p)
  <2>1. keyAt' \in [KeyPaths -> Nat] /\ (Goes(p, "open") \/ Goes(p, "create"))
    BY <1>15, KeyFillIs
  <2>2. BlobsTyped'
    BY <1>1, <1>15, <2>1 DEF BlobsTyped, KeyFill, Goes
  <2>3. QED
    BY <1>1, <1>15, <2>1, <2>2 DEF KeyFill, Goes
<1>16. QED
  BY <1>2, <1>3, <1>4, <1>5, <1>6, <1>7, <1>8, <1>9, <1>10, <1>11, <1>12, <1>13, <1>14, <1>15
  DEF FilesStay

\* So all steps keep the types.
LEMMA TypedKept ==
  ASSUME BlobsTyped, StagesTell, NumbersAreFresh, NEW p \in Opener,
         Open(p) \/ BlobsStep(p) \/ Fall(p)
  PROVE  BlobsTyped' /\ Others(p)
BY StepsAre, FilesStayIs, TmpCreateIs, TmpFillIs, RenameIs, ShredFileIs DEF Goes

-----------------------------------------------------------------------------
\* Files grow in number only.
LEMMA InodesStay ==
  ASSUME BlobsTyped, StagesTell, NumbersAreFresh, NEW p \in Opener,
         Open(p) \/ BlobsStep(p) \/ Fall(p)
  PROVE  DOMAIN inodes \subseteq DOMAIN inodes'
BY StepsAre, FilesStayIs, TmpCreateIs, TmpFillIs DEF Rename, ShredFile

\* A process that goes from one stage to the next tells what it told before.
LEMMA TellsOn ==
  ASSUME BlobsTyped, StagesTell, NEW p \in Opener, ~InStage(p, "idle"),
         NEW stage \in Stages, Goes(p, stage),
         stage \in {"kek", "mint", "fill"} =>
           opener[p].op = "get" \/ (opener[p].op = "put" /\ opener[p].mode = "sealed"),
         stage = "put" => opener[p].op = "put",
         stage \in {"get", "open"} => opener[p].op = "get",
         stage = "open" => IsKey(opener'[p].key),
         stage = "write" => opener'[p].fd \in DOMAIN inodes',
         stage \notin {"copy", "create", "write", "rename", "open"} =>
           opener'[p].key = Absent,
         stage \in {"create", "write"} =>
           (opener'[p].key = Absent <=> opener[p].mode = "clear")
  PROVE  Tells(p)'
BY DEF StagesTell, Tells, Goes, InStage

\* A process at rest promises nothing.
LEMMA TellsIdle ==
  ASSUME NEW p \in Opener, opener'[p].stage = "idle"
  PROVE  Tells(p)'
BY DEF Tells, InStage

\* Each conjunct of the invariant over a step.
LEMMA StagesTellKept ==
  ASSUME BlobsTyped, StagesTell, NumbersAreFresh, NEW p \in Opener,
         Open(p) \/ BlobsStep(p) \/ Fall(p)
  PROVE  StagesTell'
<1>1. Tells(p) /\ opener[p] \in Openers /\ Mode \subseteq {"sealed", "clear"}
  BY BlobsAssumption, FieldsAre DEF StagesTell
<1>2. Tells(p)'
  <2>1. CASE Open(p)
    BY <2>1, OpenIs DEF Tells, InStage
  <2>2. CASE Fall(p) \/ Unseal(p)
    BY <2>2, Quits, TellsIdle DEF Fall, Unseal
  <2>3. CASE Rename(p) \/ ShredFile(p)
    BY <2>3, RenameIs, ShredFileIs, TellsIdle
  <2>4. CASE Locate(p)
    <3>1. opener[p].op \in {"put", "get", "shred"} /\ opener[p].key = Absent
          /\ InStage(p, "locate")
      BY <1>1, <2>4, FieldsAre DEF Tells, Locate, InStage
    <3>2. CASE opener'[p].stage = "idle"
      BY <3>2, TellsIdle
    <3>3. CASE Goes(p, "move") /\ opener'[p].key = opener[p].key
      BY <3>1, <3>3, TellsOn DEF InStage, Stages
    <3>4. CASE Goes(p, opener[p].op) /\ opener'[p].key = opener[p].key
      BY <3>1, <3>4, TellsOn DEF InStage, Stages
    <3>5. QED
      BY <2>4, <3>2, <3>3, <3>4, LocateIs
  <2>5. CASE MoveKey(p) \/ CopyFill(p) \/ CopyCompare(p) \/ CopyUnlink(p)
    <3>1. ~InStage(p, "idle")
      BY <2>5 DEF MoveKey, CopyFill, CopyCompare, CopyUnlink, InStage
    <3>2. opener'[p].key = Absent
      BY <1>1, <2>5, MoveKeyIs, CopyFillIs, CopyCompareIs, CopyUnlinkIs
      DEF Tells, InStage, MoveKey, CopyCompare, CopyUnlink
    <3>3. PICK stage \in {"locate", "compare", "unlink"} : Goes(p, stage)
      BY <2>5, MoveKeyIs, CopyFillIs, CopyCompareIs, CopyUnlinkIs
    <3>4. QED
      BY <3>1, <3>2, <3>3, TellsOn DEF Stages
  <2>6. CASE CopyOpen(p)
    <3>1. InStage(p, "move") /\ opener[p].key = Absent
      BY <1>1, <2>6 DEF Tells, CopyOpen, InStage
    <3>2. CASE Goes(p, "locate") /\ opener'[p].key = opener[p].key
      BY <3>1, <3>2, TellsOn DEF InStage, Stages
    <3>3. CASE Goes(p, "copy")
      BY <3>1, <3>3, TellsOn DEF InStage, Stages
    <3>4. QED
      BY <2>6, <3>2, <3>3, CopyOpenIs
  <2>7. CASE Get(p)
    <3>1. InStage(p, "get") /\ opener[p].key = Absent /\ opener[p].op = "get"
      BY <1>1, <2>7 DEF Tells, Get, InStage
    <3>2. CASE opener'[p].stage = "idle"
      BY <3>2, TellsIdle
    <3>3. CASE Goes(p, "kek") /\ opener'[p].key = opener[p].key
      BY <3>1, <3>3, TellsOn DEF InStage, Stages
    <3>4. QED
      BY <2>7, <3>2, <3>3, GetIs
  <2>8. CASE PutExists(p)
    <3>1. InStage(p, "put") /\ opener[p].key = Absent /\ opener[p].op = "put"
          /\ opener[p].mode \in Mode
      BY <1>1, <2>8 DEF Tells, PutExists, InStage
    <3>2. CASE opener'[p].stage = "idle"
      BY <3>2, TellsIdle
    <3>3. CASE Goes(p, "kek") /\ opener[p].mode # "clear" /\ opener'[p].key = opener[p].key
      BY <1>1, <3>1, <3>3, TellsOn DEF InStage, Stages
    <3>4. CASE Goes(p, "create") /\ opener[p].mode = "clear"
               /\ opener'[p].key = opener[p].key
      BY <3>1, <3>4, TellsOn DEF InStage, Stages
    <3>5. QED
      BY <2>8, <3>2, <3>3, <3>4, PutExistsIs
  <2>9. CASE KeyRead(p) \/ KeyCreate(p) \/ KeyFill(p)
    <3>1. /\ opener[p].stage \in {"kek", "mint", "fill"} /\ opener[p].key = Absent
          /\ opener[p].op = "get" \/ (opener[p].op = "put" /\ opener[p].mode = "sealed")
      BY <1>1, <2>9 DEF Tells, KeyRead, KeyCreate, KeyFill, InStage
    <3>2. ~InStage(p, "idle")
      BY <3>1 DEF InStage
    <3>3. CASE opener'[p].stage = "idle"
      BY <3>3, TellsIdle
    <3>4. CASE (Goes(p, "mint") \/ Goes(p, "fill")) /\ opener'[p].key = opener[p].key
      BY <3>1, <3>2, <3>4, TellsOn DEF Stages
    <3>5. CASE Goes(p, IF opener[p].op = "get" THEN "open" ELSE "create")
               /\ IsKey(opener'[p].key)
      <4>0. opener'[p].key # Absent
        BY <3>5 DEF IsKey
      <4>1. CASE opener[p].op = "get"
        BY <3>2, <3>5, <4>0, <4>1, TellsOn DEF Stages
      <4>2. CASE opener[p].op # "get"
        BY <3>1, <3>2, <3>5, <4>0, <4>2, TellsOn DEF Stages
      <4>3. QED
        BY <4>1, <4>2
    <3>6. 2 < opener[p].id
      BY <3>2 DEF NumbersAreFresh
    <3>7. CASE KeyRead(p)
      BY <3>3, <3>4, <3>5, <3>7, KeyReadIs
    <3>8. CASE KeyCreate(p)
      BY <3>4, <3>8, KeyCreateIs
    <3>9. CASE KeyFill(p)
      BY <3>5, <3>6, <3>9, KeyFillIs, FieldsAre DEF IsKey, Absent, Short
    <3>10. QED
      BY <2>9, <3>7, <3>8, <3>9
  <2>10. CASE TmpCreate(p)
    <3>1. InStage(p, "create") /\ (opener[p].key = Absent <=> opener[p].mode = "clear")
      BY <1>1, <2>10 DEF Tells, TmpCreate, InStage
    <3>2. QED
      BY <2>10, <3>1, TmpCreateIs, TellsOn DEF InStage, Stages
  <2>11. CASE TmpFill(p)
    BY <2>11, TmpFillIs, TellsOn DEF InStage, Stages, TmpFill
  <2>12. QED
    BY <2>1, <2>2, <2>3, <2>4, <2>5, <2>6, <2>7, <2>8, <2>9, <2>10, <2>11 DEF BlobsStep
<1>3. ASSUME NEW q \in Opener \ {p} PROVE Tells(q)'
  <2>1. Tells(q) /\ opener'[q] = opener[q] /\ DOMAIN inodes \subseteq DOMAIN inodes'
    BY TypedKept, InodesStay DEF StagesTell, Others
  <2>2. QED
    BY <2>1 DEF Tells, InStage
<1>4. QED
  BY <1>2, <1>3 DEF StagesTell

-----------------------------------------------------------------------------
\* A process that is not idle has come from one of the same number, or has just begun.
LEMMA IdsStay ==
  ASSUME BlobsTyped, StagesTell, NumbersAreFresh, NEW p \in Opener,
         Open(p) \/ BlobsStep(p) \/ Fall(p), opener'[p].stage # "idle"
  PROVE  \/ opens' = opens + 1 /\ opener'[p].stage = "locate" /\ opener'[p].id = opens + 3
         \/ /\ opens' = opens /\ opener'[p].id = opener[p].id /\ ~InStage(p, "idle")
            /\ opener[p].stage = "rename" => opener'[p].stage = "rename"
            /\ opener[p].stage = "write" => opener'[p].stage \in {"write", "rename"}
<1>1. CASE FilesStay(p)
  BY <1>1, FilesStayIs DEF Goes
<1>2. CASE TmpCreate(p)
  BY <1>2, TmpCreateIs DEF TmpCreate, Goes, InStage
<1>3. CASE TmpFill(p)
  BY <1>3, TmpFillIs DEF TmpFill, Goes, InStage
<1>4. CASE Rename(p) \/ ShredFile(p)
  BY <1>4, RenameIs, ShredFileIs
<1>5. QED
  BY <1>1, <1>2, <1>3, <1>4, StepsAre

\* A file that a step makes has the number of its operation.
LEMMA NewFiles ==
  ASSUME BlobsTyped, StagesTell, NumbersAreFresh, NEW p \in Opener,
         Open(p) \/ BlobsStep(p) \/ Fall(p), NEW i \in DOMAIN inodes', i \notin DOMAIN inodes
  PROVE  i = opener[p].id /\ opener'[p].stage = "write" /\ ~InStage(p, "idle")
<1>1. CASE FilesStay(p)
  BY <1>1, FilesStayIs
<1>2. CASE TmpCreate(p)
  <2>1. Goes(p, "write") /\ (i = opener[p].id \/ i \in DOMAIN inodes)
    BY <1>2, TmpCreateIs
  <2>2. QED
    BY <1>2, <2>1 DEF TmpCreate, Goes, InStage
<1>3. CASE TmpFill(p)
  BY <1>3, TmpFillIs
<1>4. CASE Rename(p) \/ ShredFile(p)
  BY <1>4 DEF Rename, ShredFile
<1>5. QED
  BY <1>1, <1>2, <1>3, <1>4, StepsAre

LEMMA NumbersKept ==
  ASSUME BlobsTyped, StagesTell, NumbersAreFresh, NEW p \in Opener,
         Open(p) \/ BlobsStep(p) \/ Fall(p)
  PROVE  NumbersAreFresh'
<1>1. BlobsTyped' /\ Others(p)
  BY TypedKept
<1>2. opens \in Nat /\ opens' \in Nat /\ opens <= opens'
  <2>1. opens' = opens \/ opens' = opens + 1
    BY StepsAre, FilesStayIs DEF TmpCreate, TmpFill, Rename, ShredFile
  <2>2. QED
    BY <2>1 DEF BlobsTyped
<1>3. ASSUME NEW i \in DOMAIN inodes' PROVE i < opens' + 3
  <2>1. i \in Nat
    BY <1>1 DEF BlobsTyped
  <2>2. CASE i \in DOMAIN inodes
    BY <1>2, <2>1, <2>2 DEF NumbersAreFresh
  <2>3. CASE i \notin DOMAIN inodes
    <3>1. i = opener[p].id /\ ~InStage(p, "idle")
      BY <2>3, NewFiles
    <3>2. QED
      BY <1>2, <2>1, <3>1 DEF NumbersAreFresh
  <2>4. QED
    BY <2>2, <2>3
<1>4. ASSUME opener'[p].stage # "idle"
      PROVE  /\ 2 < opener'[p].id /\ opener'[p].id < opens' + 3
             /\ opener'[p].stage \notin {"write", "rename"} =>
                  opener'[p].id \notin DOMAIN inodes'
             /\ \A q \in Opener \ {p} : ~InStage(q, "idle") => opener[q].id # opener'[p].id
  <2>1. CASE opens' = opens + 1 /\ opener'[p].stage = "locate" /\ opener'[p].id = opens + 3
    <3>1. opener'[p].id \notin DOMAIN inodes
      BY <1>2, <2>1 DEF NumbersAreFresh, BlobsTyped
    <3>2. opener'[p].id \notin DOMAIN inodes'
      BY <2>1, <3>1, NewFiles
    <3>3. \A q \in Opener \ {p} : ~InStage(q, "idle") => opener[q].id # opener'[p].id
      BY <1>2, <2>1, FieldsAre DEF NumbersAreFresh
    <3>4. QED
      BY <1>2, <2>1, <3>2, <3>3
  <2>2. CASE /\ opens' = opens /\ opener'[p].id = opener[p].id /\ ~InStage(p, "idle")
             /\ opener[p].stage = "rename" => opener'[p].stage = "rename"
             /\ opener[p].stage = "write" => opener'[p].stage \in {"write", "rename"}
    <3>1. /\ 2 < opener[p].id /\ opener[p].id < opens + 3
          /\ opener[p].stage \notin {"write", "rename"} => opener[p].id \notin DOMAIN inodes
          /\ \A q \in Opener \ {p} : ~InStage(q, "idle") => opener[q].id # opener[p].id
      BY <2>2 DEF NumbersAreFresh
    <3>2. opener'[p].stage \notin {"write", "rename"} => opener'[p].id \notin DOMAIN inodes'
      BY <2>2, <3>1, NewFiles
    <3>3. QED
      BY <2>2, <3>1, <3>2
  <2>3. QED
    BY <1>4, <2>1, <2>2, IdsStay
<1>5. ASSUME NEW q \in Opener \ {p}, opener'[q].stage # "idle"
      PROVE  /\ 2 < opener'[q].id /\ opener'[q].id < opens' + 3
             /\ opener'[q].stage \notin {"write", "rename"} =>
                  opener'[q].id \notin DOMAIN inodes'
             /\ \A r \in Opener \ {q, p} :
                  opener'[r].stage # "idle" => opener'[r].id # opener'[q].id
             /\ ~InStage(q, "idle") /\ opener'[q].id = opener[q].id
  <2>1. opener'[q] = opener[q] /\ ~InStage(q, "idle")
    BY <1>1, <1>5 DEF Others, InStage
  <2>2. /\ 2 < opener[q].id /\ opener[q].id < opens + 3
        /\ opener[q].stage \notin {"write", "rename"} => opener[q].id \notin DOMAIN inodes
        /\ \A r \in Opener \ {q} : ~InStage(r, "idle") => opener[r].id # opener[q].id
    BY <2>1 DEF NumbersAreFresh
  <2>3. opener[q].id \notin DOMAIN inodes => opener[q].id \notin DOMAIN inodes'
    BY <2>2, NewFiles
  <2>4. \A r \in Opener \ {q, p} : opener'[r] = opener[r]
    BY <1>1 DEF Others
  <2>5. opener[q].id \in Nat
    BY FieldsAre
  <2>6. QED
    BY <1>2, <2>1, <2>2, <2>3, <2>4, <2>5 DEF InStage
<1>6. ASSUME NEW q \in Opener \ {p}, opener'[q].stage # "idle", opener'[p].stage # "idle"
      PROVE  opener'[p].id # opener'[q].id
  BY <1>4, <1>5, <1>6
<1>7. QED
  BY <1>3, <1>4, <1>5, <1>6 DEF NumbersAreFresh, InStage

-----------------------------------------------------------------------------
\* The temporary path leads to no file of the store.
LEMMA TmpApartKept ==
  ASSUME BlobsTyped, StagesTell, NumbersAreFresh, TmpApart, NEW p \in Opener,
         Open(p) \/ BlobsStep(p) \/ Fall(p)
  PROVE  TmpApart'
<1>1. CASE FilesStay(p)
  BY <1>1, FilesStayIs DEF TmpApart
<1>2. CASE TmpFill(p)
  BY <1>2, TmpFillIs DEF TmpApart
<1>3. CASE Rename(p)
  BY <1>3, RenameIs DEF TmpApart
<1>4. CASE ShredFile(p)
  BY <1>4, ShredFileIs DEF TmpApart
<1>5. CASE TmpCreate(p)
  <2>1. PICK i : i = TmpOf(p)
    OBVIOUS
  <2>2. /\ names'.tmp = i /\ names'.final = names.final /\ i # 0
        /\ i \notin DOMAIN inodes \/ i = names.tmp
    BY <1>5, <2>1, TmpCreateIs
  <2>3. \A m \in Mode : names.final[m] \in {0} \cup DOMAIN inodes
    BY DEF BlobsTyped
  <2>4. QED
    BY <2>2, <2>3 DEF TmpApart
<1>6. QED
  BY <1>1, <1>2, <1>3, <1>4, <1>5, StepsAre

\* What a step leaves of the temporary file and of the names is of one mode.
LEMMA OneModeKept ==
  ASSUME BlobsTyped, StagesTell, NumbersAreFresh, TmpApart, OneMode, NEW p \in Opener,
         Open(p) \/ BlobsStep(p) \/ Fall(p)
  PROVE  OneMode'
<1> DEFINE
      FitsThen(i, m) ==
        \/ inodes'[i].whole /\ (inodes'[i].seal # Absent <=> m = "sealed")
        \/ \E q \in Opener : opener'[q].stage = "write" /\ opener'[q].fd = i
      Agree == \A q, r \in Opener :
        opener'[q].stage \in AtTmp /\ opener'[r].stage \in AtTmp =>
          opener'[q].mode = opener'[r].mode
      TmpFits == \A q \in Opener :
        opener'[q].stage \in AtTmp /\ names'.tmp # 0 => FitsThen(names'.tmp, opener'[q].mode)
      NamesFit == \A m \in Mode : names'.final[m] # 0 => FitsThen(names'.final[m], m)
      OwnMode == \A q \in Opener, m \in Mode :
        /\ opener'[q].stage = "write" /\ names'.final[m] # 0
        /\ opener'[q].fd = names'.final[m]
        => opener'[q].mode = m
      NoBox == \A q \in Opener :
        opener'[q].stage = "write" /\ opener'[q].mode # "sealed" =>
          inodes'[opener'[q].fd].seal = Absent
<1> SUFFICES ASSUME falls' = 0, ~mixed'
             PROVE  Agree /\ TmpFits /\ NamesFit /\ OwnMode /\ NoBox
  BY DEF OneMode, Fits, Writes, InStage, Stored
<1>1. Others(p)
  BY TypedKept
<1>2. falls = 0 /\ ~mixed
  <2>1. CASE FilesStay(p)
    BY <2>1, FilesStayIs
  <2>2. CASE TmpCreate(p)
    BY <2>2, TmpCreateIs DEF TmpCreate
  <2>3. CASE TmpFill(p) \/ Rename(p) \/ ShredFile(p)
    BY <2>3 DEF TmpFill, Rename, ShredFile
  <2>4. QED
    BY <2>1, <2>2, <2>3, StepsAre
<1>3. \A q, r \in Opener : opener[q].stage \in AtTmp /\ opener[r].stage \in AtTmp =>
        opener[q].mode = opener[r].mode
  BY <1>2 DEF OneMode
<1>4. \A q \in Opener : opener[q].stage \in AtTmp /\ names.tmp # 0 =>
        Fits(names.tmp, opener[q].mode)
  BY <1>2 DEF OneMode
<1>5. \A m \in Mode : names.final[m] # 0 => Fits(names.final[m], m)
  BY <1>2 DEF OneMode, Stored
<1>6. \A q \in Opener : opener[q].stage = "write" =>
        /\ \A m \in Mode : names.final[m] # 0 /\ opener[q].fd = names.final[m] =>
             opener[q].mode = m
        /\ opener[q].mode # "sealed" => inodes[opener[q].fd].seal = Absent
  BY <1>2 DEF OneMode, Stored, Writes, InStage
<1>7. ASSUME inodes' = inodes, opener[p].stage # "write",
             NEW i, NEW m, Fits(i, m)
      PROVE  FitsThen(i, m)
  BY <1>1, <1>7 DEF Fits, Writes, InStage, Others
<1>8. \A q \in Opener : opener[q].stage = "write" => opener[q].fd \in DOMAIN inodes
  BY DEF StagesTell, Tells, InStage
<1>9. /\ names.tmp \in {0} \cup DOMAIN inodes
      /\ \A m \in Mode : names.final[m] \in {0} \cup DOMAIN inodes
  BY DEF BlobsTyped
<1> HIDE DEF FitsThen
<1>10. CASE FilesStay(p)
  <2>1. /\ inodes' = inodes /\ names' = names /\ opener[p].stage # "write"
        /\ opener'[p].stage \notin AtTmp
    BY <1>10, FilesStayIs DEF InStage, AtTmp
  <2>2. QED
    BY <1>1, <1>3, <1>4, <1>5, <1>6, <1>7, <2>1 DEF Others, AtTmp
<1>11. CASE ShredFile(p)
  <2>1. /\ inodes' = inodes /\ names'.tmp = names.tmp /\ opener[p].stage # "write"
        /\ opener'[p].stage \notin AtTmp
        /\ \A m \in Mode : names'.final[m] \in {0, names.final[m]}
    BY <1>11, ShredFileIs DEF InStage, AtTmp
  <2>2. QED
    BY <1>1, <1>3, <1>4, <1>5, <1>6, <1>7, <2>1 DEF Others, AtTmp
<1>12. CASE Rename(p)
  <2>1. /\ inodes' = inodes /\ opener[p].stage = "rename" /\ opener[p].mode \in Mode
        /\ opener'[p].stage \notin AtTmp
        /\ \/ names' = names /\ names.tmp = 0
           \/ /\ names.tmp # 0 /\ names'.tmp = 0
              /\ names'.final[opener[p].mode] = names.tmp
              /\ \A m \in Mode \ {opener[p].mode} : names'.final[m] = names.final[m]
    BY <1>12, RenameIs DEF InStage, AtTmp
  <2>2. Agree /\ NoBox
    BY <1>1, <1>3, <1>6, <2>1 DEF Others, AtTmp
  <2>3. TmpFits
    BY <1>1, <1>4, <1>7, <2>1 DEF Others, AtTmp
  <2>4. NamesFit
    BY <1>1, <1>4, <1>5, <1>7, <2>1 DEF AtTmp
  <2>5. OwnMode
    BY <1>1, <1>3, <1>6, <2>1 DEF Others, AtTmp
  <2>6. QED
    BY <2>2, <2>3, <2>4, <2>5
<1>13. CASE TmpFill(p)
  <2>1. PICK k : k = opener[p].fd
    OBVIOUS
  <2>2. /\ k \in DOMAIN inodes /\ opener[p].stage = "write"
        /\ opener'[p].stage = "rename" /\ opener'[p].mode = opener[p].mode
        /\ opener[p].mode = "sealed" => inodes'[k].seal = opener[p].key /\ inodes'[k].whole = TRUE
        /\ opener[p].mode # "sealed" =>
             inodes'[k].seal = inodes[k].seal /\ inodes'[k].whole = (inodes[k].seal = Absent)
        /\ \A l \in DOMAIN inodes \ {k} : inodes'[l] = inodes[l]
        /\ names' = names
    BY <1>13, <2>1, TmpFillIs DEF Goes, TmpFill, InStage
  <2>3. /\ opener[p].mode \in {"sealed", "clear"}
        /\ opener[p].key = Absent <=> opener[p].mode = "clear"
    BY <2>2, BlobsAssumption DEF StagesTell, Tells, InStage
  <2>4. opener[p].mode # "sealed" => inodes[k].seal = Absent
    BY <1>6, <2>1, <2>2
  <2>5. FitsThen(k, opener[p].mode)
    BY <2>2, <2>3, <2>4 DEF FitsThen
  <2>6. ASSUME NEW i \in DOMAIN inodes, i # k, NEW m, Fits(i, m) PROVE FitsThen(i, m)
    BY <1>1, <2>1, <2>2, <2>6 DEF FitsThen, Fits, Writes, InStage, Others
  <2>7. Agree
    BY <1>1, <1>3, <2>2 DEF Others, AtTmp
  <2>8. TmpFits
    <3> SUFFICES ASSUME NEW q \in Opener, opener'[q].stage \in AtTmp, names'.tmp # 0
                 PROVE  FitsThen(names'.tmp, opener'[q].mode)
      OBVIOUS
    <3>1. opener[q].stage \in AtTmp /\ opener'[q].mode = opener[q].mode
      BY <1>1, <2>2 DEF Others, AtTmp
    <3>2. opener[q].mode = opener[p].mode
      BY <1>3, <2>2, <3>1 DEF AtTmp
    <3>3. QED
      BY <1>4, <1>9, <2>2, <2>5, <2>6, <3>1, <3>2
  <2>9. NamesFit
    <3> SUFFICES ASSUME NEW m \in Mode, names.final[m] # 0 PROVE FitsThen(names.final[m], m)
      BY <2>2
    <3>1. CASE names.final[m] = k
      BY <1>6, <2>1, <2>2, <2>5, <3>1
    <3>2. CASE names.final[m] # k
      BY <1>5, <1>9, <2>6, <3>2
    <3>3. QED
      BY <3>1, <3>2
  <2>10. OwnMode
    BY <1>1, <1>6, <2>2 DEF Others
  <2>11. NoBox
    <3> SUFFICES ASSUME NEW q \in Opener, opener'[q].stage = "write", opener'[q].mode # "sealed"
                 PROVE  inodes'[opener'[q].fd].seal = Absent
      OBVIOUS
    <3>1. q # p /\ opener'[q] = opener[q]
      BY <1>1, <2>2 DEF Others
    <3>2. opener[q].mode = opener[p].mode /\ inodes[opener[q].fd].seal = Absent
      BY <1>3, <1>6, <2>2, <3>1 DEF AtTmp
    <3>3. opener[q].fd \in DOMAIN inodes
      BY <1>8, <3>1
    <3>4. QED
      BY <2>2, <3>1, <3>2, <3>3
  <2>12. QED
    BY <2>7, <2>8, <2>9, <2>10, <2>11
<1>14. CASE TmpCreate(p)
  <2>1. PICK k : k = TmpOf(p)
    OBVIOUS
  <2>2. /\ opener'[p].stage = "write" /\ opener'[p].fd = k /\ opener'[p].mode = opener[p].mode
        /\ k # 0 /\ (k \notin DOMAIN inodes \/ k = names.tmp)
        /\ DOMAIN inodes' = DOMAIN inodes \cup {k}
        /\ inodes'[k].seal = Absent
        /\ \A l \in DOMAIN inodes \ {k} : inodes'[l] = inodes[l]
        /\ names'.tmp = k /\ names'.final = names.final
        /\ \A q \in Opener : opener[q].stage \in AtTmp => opener[q].mode = opener[p].mode
    BY <1>14, <2>1, TmpCreateIs DEF Goes
  <2>3. opener[p].stage = "create"
    BY <1>14 DEF TmpCreate, InStage
  <2>4. \A m : FitsThen(k, m)
    BY <2>2 DEF FitsThen
  <2>5. ASSUME NEW i \in DOMAIN inodes, i # k, NEW m, Fits(i, m) PROVE FitsThen(i, m)
    BY <1>1, <2>2, <2>3, <2>5 DEF FitsThen, Fits, Writes, InStage, Others
  <2>6. Agree
    BY <1>1, <2>2 DEF Others
  <2>7. TmpFits
    BY <2>2, <2>4
  <2>8. NamesFit
    BY <1>5, <1>9, <2>2, <2>4, <2>5
  <2>9. \A m \in Mode : names.final[m] # k
    BY <1>9, <2>2 DEF TmpApart
  <2>10. OwnMode
    BY <1>1, <1>6, <2>2, <2>9 DEF Others
  <2>11. NoBox
    BY <1>1, <1>6, <1>8, <2>2 DEF Others
  <2>12. QED
    BY <2>6, <2>7, <2>8, <2>10, <2>11
<1>15. QED
  BY <1>10, <1>11, <1>12, <1>13, <1>14, StepsAre

-----------------------------------------------------------------------------
\* Only these steps write a key file.
KeysMove(p) ==
  MoveKey(p) \/ CopyOpen(p) \/ CopyFill(p) \/ CopyUnlink(p) \/ KeyCreate(p) \/ KeyFill(p)

\* Few actions write keys.
LEMMA KeysStay ==
  ASSUME BlobsTyped, NEW p \in Opener, Open(p) \/ BlobsStep(p) \/ Fall(p)
  PROVE  KeysMove(p) \/ keyAt' = keyAt
<1>1. CASE Open(p)
  BY <1>1, OpenIs
<1>2. CASE Fall(p) \/ Locate(p) \/ CopyCompare(p) \/ Get(p) \/ Unseal(p)
  BY <1>2 DEF Fall, Locate, CopyCompare, Get, Unseal
<1>3. CASE PutExists(p) \/ KeyRead(p) \/ TmpCreate(p) \/ TmpFill(p)
  BY <1>3 DEF PutExists, KeyRead, TmpCreate, TmpFill
<1>4. CASE Rename(p) \/ ShredFile(p)
  BY <1>4 DEF Rename, ShredFile
<1>5. QED
  BY <1>1, <1>2, <1>3, <1>4 DEF BlobsStep, KeysMove

\* A race for the key is remembered.
LEMMA RacesStay ==
  ASSUME BlobsTyped, StagesTell, NEW p \in Opener, Open(p) \/ BlobsStep(p) \/ Fall(p)
  PROVE  raced => raced'
<1>1. CASE Open(p) \/ Fall(p) \/ Locate(p) \/ MoveKey(p) \/ CopyOpen(p) \/ KeyRead(p)
  BY <1>1, OpenIs, CopyOpenIs, KeyReadIs DEF Fall, Locate, MoveKey
<1>2. CASE CopyFill(p) \/ CopyCompare(p) \/ CopyUnlink(p) \/ Get(p) \/ Unseal(p)
  BY <1>2 DEF CopyFill, CopyCompare, CopyUnlink, Get, Unseal
<1>3. CASE PutExists(p) \/ KeyCreate(p) \/ KeyFill(p) \/ TmpCreate(p) \/ TmpFill(p)
  BY <1>3 DEF PutExists, KeyCreate, KeyFill, TmpCreate, TmpFill
<1>4. CASE Rename(p) \/ ShredFile(p)
  BY <1>4 DEF Rename, ShredFile
<1>5. QED
  BY <1>1, <1>2, <1>3, <1>4 DEF BlobsStep

\* The early stages, in which the key is looked for or moved.
Early == {"idle", "locate", "move", "copy", "compare", "unlink"}

\* How a process comes to a stage.
ComesTo(p, stage) ==
  CASE stage = "copy"   -> CopyOpen(p)
    [] stage = "unlink" -> CopyCompare(p) /\ CopyAgrees
    [] stage = "mint"   -> KeyRead(p)
    [] stage = "fill"   -> KeyCreate(p)
    [] stage = "open"   -> KeyRead(p) \/ KeyFill(p)
    [] stage = "create" -> (PutExists(p) /\ opener[p].mode = "clear")
                             \/ KeyRead(p) \/ KeyFill(p)
    [] stage = "write"  -> TmpCreate(p)
    [] stage = "kek"    -> Get(p) \/ (PutExists(p) /\ opener[p].op # "get")
    [] OTHER            -> TRUE

\* The stages before a key is in hand come before the others.
LEMMA StagesCome ==
  ASSUME BlobsTyped, StagesTell, NumbersAreFresh, NEW p \in Opener,
         Open(p) \/ BlobsStep(p) \/ Fall(p)
  PROVE  /\ ComesTo(p, opener'[p].stage)
         /\ \/ opener'[p].stage \in Early
            \/ opener[p].stage \notin Early
            \/ keyAt["default"] # Absent \/ keyAt["sibling"] = Absent
<1>1. CASE Open(p)
  BY <1>1, OpenIs DEF ComesTo, Early
<1>2. CASE Fall(p) \/ Unseal(p)
  BY <1>2, Quits DEF Fall, Unseal, ComesTo, Early
<1>3. CASE Rename(p) \/ ShredFile(p)
  BY <1>3, RenameIs, ShredFileIs DEF ComesTo, Early
<1>4. CASE Locate(p)
  <2>1. opener[p].op \in {"put", "get", "shred"}
    BY <1>4, FieldsAre DEF StagesTell, Tells, Locate, InStage
  <2>2. \/ opener'[p].stage = "idle" \/ opener'[p].stage = "move"
        \/ /\ opener'[p].stage \in {"put", "get", "shred"}
           /\ keyAt["default"] # Absent \/ keyAt["sibling"] = Absent
    BY <1>4, <2>1, LocateIs DEF Goes
  <2>3. QED
    BY <2>2 DEF ComesTo, Early
<1>5. CASE MoveKey(p)
  BY <1>5, MoveKeyIs DEF Goes, ComesTo, Early
<1>6. CASE CopyOpen(p)
  <2>1. opener'[p].stage \in {"locate", "copy"}
    BY <1>6, CopyOpenIs DEF Goes
  <2>2. QED
    BY <1>6, <2>1 DEF ComesTo, Early
<1>7. CASE CopyFill(p)
  BY <1>7, CopyFillIs DEF Goes, ComesTo, Early
<1>8. CASE CopyCompare(p)
  <2>1. opener'[p].stage = "locate" \/ (opener'[p].stage = "unlink" /\ CopyAgrees)
    BY <1>8, CopyCompareIs DEF Goes
  <2>2. QED
    BY <1>8, <2>1 DEF ComesTo, Early
<1>9. CASE CopyUnlink(p)
  BY <1>9, CopyUnlinkIs DEF Goes, ComesTo, Early
<1>10. CASE Get(p)
  <2>1. opener'[p].stage \in {"idle", "kek"}
    BY <1>10, GetIs DEF Goes
  <2>2. opener[p].stage \notin Early
    BY <1>10 DEF Get, InStage, Early
  <2>3. QED
    BY <1>10, <2>1, <2>2 DEF ComesTo
<1>11. CASE PutExists(p)
  <2>1. \/ opener'[p].stage \in {"idle", "kek"}
        \/ opener'[p].stage = "create" /\ opener[p].mode = "clear"
    BY <1>11, PutExistsIs DEF Goes
  <2>2. opener[p].stage \notin Early /\ opener[p].op = "put"
    BY <1>11 DEF PutExists, InStage, Early, StagesTell, Tells
  <2>3. QED
    BY <1>11, <2>1, <2>2 DEF ComesTo
<1>12. CASE KeyRead(p)
  <2>1. opener'[p].stage \in {"idle", "mint", "open", "create"}
    BY <1>12, KeyReadIs DEF Goes
  <2>2. opener[p].stage \notin Early
    BY <1>12 DEF KeyRead, InStage, Early
  <2>3. QED
    BY <1>12, <2>1, <2>2 DEF ComesTo
<1>13. CASE KeyCreate(p)
  <2>1. opener'[p].stage = "fill" /\ opener[p].stage \notin Early
    BY <1>13, KeyCreateIs DEF Goes, KeyCreate, InStage, Early
  <2>2. QED
    BY <1>13, <2>1 DEF ComesTo
<1>14. CASE KeyFill(p)
  <2>1. opener'[p].stage \in {"open", "create"}
    BY <1>14, KeyFillIs DEF Goes
  <2>2. opener[p].stage \notin Early
    BY <1>14 DEF KeyFill, InStage, Early
  <2>3. QED
    BY <1>14, <2>1, <2>2 DEF ComesTo
<1>15. CASE TmpCreate(p)
  <2>1. opener'[p].stage = "write"
    BY <1>15, TmpCreateIs DEF Goes
  <2>2. opener[p].stage \notin Early
    BY <1>15 DEF TmpCreate, InStage, Early
  <2>3. QED
    BY <1>15, <2>1, <2>2 DEF ComesTo
<1>16. CASE TmpFill(p)
  <2>1. opener'[p].stage = "rename"
    BY <1>16, TmpFillIs DEF Goes
  <2>2. opener[p].stage \notin Early
    BY <1>16 DEF TmpFill, InStage, Early
  <2>3. QED
    BY <2>1, <2>2 DEF ComesTo
<1>17. QED
  BY <1>1, <1>2, <1>3, <1>4, <1>5, <1>6, <1>7, <1>8, <1>9, <1>10, <1>11, <1>12, <1>13, <1>14,
     <1>15, <1>16 DEF BlobsStep

-----------------------------------------------------------------------------
\* The key file at the default place stays, and none comes back next to the index.
LEMMA DefaultStays ==
  ASSUME BlobsTyped, StagesTell, NumbersAreFresh, OldKeyFirst, NEW p \in Opener,
         Open(p) \/ BlobsStep(p) \/ Fall(p)
  PROVE  /\ keyAt["default"] # Absent => keyAt'["default"] # Absent
         /\ keyAt'["sibling"] = keyAt["sibling"] \/ keyAt'["sibling"] = Absent
<1> USE DEF Absent, Short, LegacyKey
<1>1. CASE keyAt' = keyAt
  BY <1>1
<1>2. CASE MoveKey(p)
  BY <1>2, MoveKeyIs
<1>3. CASE CopyOpen(p)
  BY <1>3, CopyOpenIs
<1>4. CASE CopyFill(p)
  <2>1. opener[p].key = LegacyKey
    BY <1>4 DEF OldKeyFirst, CopyFill
  <2>2. QED
    BY <1>4, <2>1, CopyFillIs
<1>5. CASE CopyUnlink(p)
  BY <1>5, CopyUnlinkIs
<1>6. CASE KeyCreate(p)
  BY <1>6, KeyCreateIs DEF KeyPaths
<1>7. CASE KeyFill(p)
  <2>1. 2 < opener[p].id
    BY <1>7 DEF NumbersAreFresh, KeyFill, InStage
  <2>2. QED
    BY <1>7, <2>1, KeyFillIs, FieldsAre DEF KeyPaths
<1>8. QED
  BY <1>1, <1>2, <1>3, <1>4, <1>5, <1>6, <1>7, KeysStay DEF KeysMove

\* An old key is moved before one is minted.
LEMMA OldKeyFirstKept ==
  ASSUME BlobsTyped, StagesTell, NumbersAreFresh, OldKeyFirst, NEW p \in Opener,
         Open(p) \/ BlobsStep(p) \/ Fall(p)
  PROVE  OldKeyFirst'
<1>1. /\ keyAt["default"] # Absent => keyAt'["default"] # Absent
      /\ keyAt'["sibling"] = keyAt["sibling"] \/ keyAt'["sibling"] = Absent
  BY DefaultStays
<1>2. keyAt'["sibling"] \in {Absent, LegacyKey}
  BY <1>1 DEF OldKeyFirst
<1>3. Others(p)
  BY TypedKept
<1>4. ASSUME NEW q \in Opener, opener'[q].stage = "copy" PROVE opener'[q].key = LegacyKey
  <2>1. CASE q = p
    <3>1. CopyOpen(p)
      BY <1>4, <2>1, StagesCome DEF ComesTo
    <3>2. keyAt["sibling"] # Absent /\ opener'[p].key = keyAt["sibling"]
      BY <1>4, <2>1, <3>1, CopyOpenIs DEF Goes
    <3>3. QED
      BY <2>1, <3>2 DEF OldKeyFirst
  <2>2. CASE q # p
    BY <1>3, <1>4, <2>2 DEF Others, OldKeyFirst, InStage
  <2>3. QED
    BY <2>1, <2>2
<1>5. ASSUME NEW q \in Opener, opener'[q].stage \notin Early
      PROVE  keyAt'["default"] # Absent \/ keyAt'["sibling"] = Absent
  <2>1. CASE opener[q].stage \notin Early
    BY <1>1, <2>1 DEF OldKeyFirst, Early
  <2>2. CASE opener[q].stage \in Early
    <3>1. q = p
      BY <1>3, <1>5, <2>2 DEF Others
    <3>2. QED
      BY <1>1, <1>5, <2>2, <3>1, StagesCome
  <2>3. QED
    BY <2>1, <2>2
<1>6. QED
  BY <1>2, <1>4, <1>5 DEF OldKeyFirst, Early, InStage

-----------------------------------------------------------------------------
\* The writes of the key files, where nobody races.
LEMMA KeyWrites ==
  ASSUME BlobsTyped, StagesTell, NumbersAreFresh, OldKeyFirst, KeyAlone, NEW p \in Opener,
         Open(p) \/ BlobsStep(p) \/ Fall(p), ~raced'
  PROVE  \/ keyAt' = keyAt
         \* The old key takes the default place,
         \/ /\ keyAt["default"] \in {Absent, Short, LegacyKey}
            /\ keyAt["sibling"] = LegacyKey \/ (CopyFill(p) /\ keyAt["default"] # Absent)
            /\ keyAt'["default"] = LegacyKey /\ keyAt'["explicit"] = keyAt["explicit"]
            /\ keyAt'["sibling"] \in {Absent, keyAt["sibling"]}
         \* or is about to,
         \/ /\ keyAt["default"] \in {Absent, Short, LegacyKey} /\ keyAt["sibling"] = LegacyKey
            /\ keyAt'["default"] = Short /\ keyAt'["explicit"] = keyAt["explicit"]
            /\ keyAt'["sibling"] = LegacyKey
            /\ \A q \in Opener : opener[q].stage \notin {"copy", "compare", "unlink"}
         \* or a key is made.
         \/ /\ Minting(p) /\ opener[p].place \in {"default", "explicit"}
            /\ keyAt'["sibling"] = keyAt["sibling"]
            /\ \A k \in {"default", "explicit"} \ {opener[p].place} : keyAt'[k] = keyAt[k]
            /\ \/ KeyCreate(p) /\ keyAt[opener[p].place] = Absent
                  /\ keyAt'[opener[p].place] = Short
               \/ KeyFill(p) /\ keyAt[opener[p].place] = Short
                  /\ keyAt'[opener[p].place] = opener[p].id
<1>1. ~raced
  BY RacesStay
<1>2. CASE keyAt' = keyAt
  BY <1>2
<1>3. /\ keyAt["sibling"] \in {Absent, LegacyKey}
      /\ keyAt["sibling"] # Absent => keyAt["default"] \in {Absent, Short, LegacyKey}
  BY <1>1 DEF OldKeyFirst, KeyAlone
<1>4. CASE MoveKey(p)
  <2>1. CASE keyAt["sibling"] = Absent
    <3>1. \A k \in KeyPaths : keyAt'[k] = keyAt[k]
      BY <1>4, <2>1, MoveKeyIs DEF KeyPaths
    <3>2. keyAt' = keyAt
      BY <1>4, <3>1, MoveKeyIs DEF BlobsTyped
    <3>3. QED
      BY <3>2
  <2>2. CASE keyAt["sibling"] # Absent
    BY <1>3, <1>4, <2>2, MoveKeyIs
  <2>3. QED
    BY <2>1, <2>2
<1>5. CASE CopyOpen(p)
  BY <1>3, <1>5, CopyOpenIs
<1>6. CASE CopyFill(p)
  <2>1. opener[p].key = LegacyKey /\ keyAt["default"] \in {Short, LegacyKey}
    BY <1>1, <1>6 DEF OldKeyFirst, KeyAlone, CopyFill
  <2>2. QED
    BY <1>6, <2>1, CopyFillIs DEF Absent, Short, LegacyKey
<1>7. CASE CopyUnlink(p)
  <2>1. keyAt["default"] = LegacyKey
    BY <1>1, <1>7 DEF KeyAlone, CopyUnlink
  <2>2. CASE keyAt["sibling"] = LegacyKey
    BY <1>7, <2>1, <2>2, CopyUnlinkIs
  <2>3. CASE keyAt["sibling"] = Absent
    <3>1. \A k \in KeyPaths : keyAt'[k] = keyAt[k]
      BY <1>7, <2>3, CopyUnlinkIs DEF KeyPaths
    <3>2. keyAt' = keyAt
      BY <1>7, <3>1, CopyUnlinkIs DEF BlobsTyped
    <3>3. QED
      BY <3>2
  <2>4. QED
    BY <1>3, <2>2, <2>3
<1>8. CASE KeyCreate(p)
  <2>1. keyAt[opener[p].place] = Absent /\ Minting(p)
    BY <1>1, <1>8 DEF KeyAlone, KeyCreate, InStage, Minting
  <2>2. QED
    BY <1>8, <2>1, KeyCreateIs DEF KeyPaths
<1>9. CASE KeyFill(p)
  <2>1. keyAt[opener[p].place] = Short /\ Minting(p)
    BY <1>1, <1>9 DEF KeyAlone, KeyFill, InStage, Minting
  <2>2. QED
    BY <1>9, <2>1, KeyFillIs DEF KeyPaths
<1>10. QED
  BY <1>2, <1>4, <1>5, <1>6, <1>7, <1>8, <1>9, KeysStay DEF KeysMove

\* Who mints a key mints alone, unless processes raced.
LEMMA KeyAloneKept ==
  ASSUME BlobsTyped, StagesTell, NumbersAreFresh, OldKeyFirst, KeyAlone, NEW p \in Opener,
         Open(p) \/ BlobsStep(p) \/ Fall(p)
  PROVE  KeyAlone'
<1> USE DEF Absent, Short, LegacyKey
<1> SUFFICES ASSUME ~raced' PROVE KeyAlone'
  BY DEF KeyAlone
<1>1. ~raced
  BY RacesStay
<1>2. /\ keyAt["sibling"] # Absent => keyAt["default"] \in {Absent, Short, LegacyKey}
      /\ \A q \in Opener :
           /\ opener[q].stage = "copy" => keyAt["default"] \in {Short, LegacyKey}
           /\ opener[q].stage = "unlink" => keyAt["default"] = LegacyKey
           /\ opener[q].stage = "mint" => keyAt[opener[q].place] = Absent
           /\ opener[q].stage = "fill" => keyAt[opener[q].place] = Short
  BY <1>1 DEF KeyAlone, InStage
<1>3. \A q \in Opener : Minting(q) =>
        /\ opener[q].place = "default" =>
             keyAt["sibling"] = Absent /\ \A r \in Opener : opener[r].stage # "copy"
        /\ \A r \in Opener \ {q} : ~Minting(r)
        /\ \A r \in Opener : opener[r].stage = "open" => opener[r].place # opener[q].place
  BY <1>1 DEF KeyAlone, InStage
<1>4. \A q \in Opener : opener[q].stage = "open" =>
        \/ keyAt[opener[q].place] = opener[q].key
        \/ keyAt[opener[q].place] = Short /\ opener[q].key = LegacyKey
  BY <1>1 DEF KeyAlone, InStage
<1>5. \A q \in Opener \ {p} : opener'[q] = opener[q]
  BY TypedKept DEF Others
<1>6. \A q \in Opener :
        /\ opener[q].stage # "idle" => opener[q].place \in {"default", "explicit"}
        /\ opener[q].stage = "open" => IsKey(opener[q].key)
  BY BlobsAssumption DEF StagesTell, Tells, InStage
<1>7. \/ keyAt' = keyAt
      \/ /\ keyAt["default"] \in {Absent, Short, LegacyKey}
         /\ keyAt["sibling"] = LegacyKey \/ (CopyFill(p) /\ keyAt["default"] # Absent)
         /\ keyAt'["default"] = LegacyKey /\ keyAt'["explicit"] = keyAt["explicit"]
         /\ keyAt'["sibling"] \in {Absent, keyAt["sibling"]}
      \/ /\ keyAt["default"] \in {Absent, Short, LegacyKey} /\ keyAt["sibling"] = LegacyKey
         /\ keyAt'["default"] = Short /\ keyAt'["explicit"] = keyAt["explicit"]
         /\ keyAt'["sibling"] = LegacyKey
         /\ \A q \in Opener : opener[q].stage \notin {"copy", "compare", "unlink"}
      \/ /\ Minting(p) /\ opener[p].place \in {"default", "explicit"}
         /\ keyAt'["sibling"] = keyAt["sibling"]
         /\ \A k \in {"default", "explicit"} \ {opener[p].place} : keyAt'[k] = keyAt[k]
         /\ \/ KeyCreate(p) /\ keyAt[opener[p].place] = Absent
               /\ keyAt'[opener[p].place] = Short
            \/ KeyFill(p) /\ keyAt[opener[p].place] = Short
               /\ keyAt'[opener[p].place] = opener[p].id
  BY KeyWrites
<1>8. /\ CopyFill(p) => opener[p].stage = "copy"
      /\ CopyFill(p) => opener'[p].stage = "compare"
  BY CopyFillIs DEF CopyFill, InStage, Goes
<1>9. ComesTo(p, opener'[p].stage)
  BY StagesCome
<1>10. keyAt'["sibling"] # Absent => keyAt'["default"] \in {Absent, Short, LegacyKey}
  BY <1>2, <1>3, <1>7
<1>11. ASSUME NEW q \in Opener, opener'[q].stage = "copy"
       PROVE  keyAt'["default"] \in {Short, LegacyKey}
  <2>1. CASE q = p
    <3>1. CopyOpen(p)
      BY <1>9, <1>11, <2>1 DEF ComesTo
    <3>2. QED
      BY <1>11, <2>1, <3>1, CopyOpenIs DEF Goes
  <2>2. CASE q # p
    BY <1>2, <1>3, <1>5, <1>7, <1>11, <2>2
  <2>3. QED
    BY <2>1, <2>2
<1>12. ASSUME NEW q \in Opener, opener'[q].stage = "unlink"
       PROVE  keyAt'["default"] = LegacyKey
  <2>1. CASE q = p
    <3>1. CopyCompare(p) /\ CopyAgrees
      BY <1>9, <1>12, <2>1 DEF ComesTo
    <3>2. keyAt' = keyAt /\ keyAt["sibling"] # Absent /\ keyAt["default"] = keyAt["sibling"]
      BY <3>1 DEF CopyCompare, CopyAgrees
    <3>3. QED
      BY <3>2 DEF OldKeyFirst
  <2>2. CASE q # p
    <3>1. opener[q].stage = "unlink" /\ keyAt["default"] = LegacyKey
      BY <1>2, <1>5, <1>12, <2>2
    <3>2. CASE Minting(p) /\ opener[p].place = "default"
      BY <1>2, <3>1, <3>2 DEF Minting
    <3>3. QED
      BY <1>7, <3>1, <3>2
  <2>3. QED
    BY <2>1, <2>2
<1>13. ASSUME NEW q \in Opener, opener'[q].stage \in {"mint", "fill"}
       PROVE  /\ opener'[q].stage = "mint" => keyAt'[opener'[q].place] = Absent
              /\ opener'[q].stage = "fill" => keyAt'[opener'[q].place] = Short
  <2>1. CASE q = p /\ opener'[p].stage = "mint"
    <3>1. KeyRead(p) /\ keyAt' = keyAt
      BY <1>9, <2>1 DEF ComesTo, KeyRead
    <3>2. Goes(p, "mint") /\ keyAt[opener[p].place] = Absent
      BY <2>1, <3>1, KeyReadIs DEF Goes
    <3>3. QED
      BY <2>1, <3>1, <3>2 DEF Goes
  <2>2. CASE q = p /\ opener'[p].stage = "fill"
    <3>1. KeyCreate(p)
      BY <1>9, <2>2 DEF ComesTo
    <3>2. QED
      BY <2>2, <3>1, KeyCreateIs DEF Goes
  <2>3. CASE q # p
    <3>1. opener'[q] = opener[q] /\ Minting(q) /\ opener[q].place \in {"default", "explicit"}
      BY <1>5, <1>6, <1>13, <2>3 DEF Minting
    <3>2. ~Minting(p)
      BY <1>3, <2>3, <3>1
    <3>3. keyAt'[opener[q].place] = keyAt[opener[q].place]
      BY <1>3, <1>7, <1>8, <3>1, <3>2
    <3>4. QED
      BY <1>2, <3>1, <3>3
  <2>4. QED
    BY <1>13, <2>1, <2>2, <2>3
<1>14. ASSUME NEW q \in Opener, opener'[q].stage \in {"mint", "fill"}
       PROVE  /\ opener'[q].place = "default" =>
                   keyAt'["sibling"] = Absent /\ \A r \in Opener : opener'[r].stage # "copy"
              /\ \A r \in Opener \ {q} : opener'[r].stage \notin {"mint", "fill"}
              /\ \A r \in Opener : opener'[r].stage = "open" =>
                                     opener'[r].place # opener'[q].place
  <2>1. keyAt["sibling"] = Absent => keyAt'["sibling"] = Absent
    BY DefaultStays
  <2>2. CASE q = p /\ opener'[p].stage = "mint"
    <3>1. KeyRead(p)
      BY <1>9, <2>2 DEF ComesTo
    <3>2. /\ opener'[p].place = opener[p].place /\ keyAt[opener[p].place] = Absent
          /\ \A r \in Opener \ {p} :
               opener[r].stage \notin {"mint", "fill", "move", "copy"}
      BY <2>2, <3>1, KeyReadIs DEF Goes
    <3>3. opener[p].place = "default" => keyAt["sibling"] = Absent
      BY <3>1, <3>2 DEF OldKeyFirst, KeyRead, InStage
    <3>4. \A r \in Opener : opener[r].stage = "open" => opener[r].place # opener[p].place
      BY <1>4, <1>6, <3>2 DEF IsKey
    <3>5. QED
      BY <1>5, <2>1, <2>2, <3>2, <3>3, <3>4
  <2>3. CASE q = p /\ opener'[p].stage = "fill"
    <3>1. KeyCreate(p)
      BY <1>9, <2>3 DEF ComesTo
    <3>2. Minting(p) /\ opener'[p].place = opener[p].place
      BY <3>1, KeyCreateIs DEF Goes, KeyCreate, InStage, Minting
    <3>3. QED
      BY <1>3, <1>5, <2>1, <2>3, <3>2 DEF Minting
  <2>4. CASE q # p
    <3>1. opener'[q] = opener[q] /\ Minting(q)
      BY <1>5, <1>14, <2>4 DEF Minting
    <3>2. ~Minting(p)
      BY <1>3, <2>4, <3>1
    <3>3. opener[q].place = "default" => opener'[p].stage # "copy"
      <4>1. CASE CopyOpen(p)
        BY <1>3, <3>1, <4>1, CopyOpenIs DEF Goes
      <4>2. CASE ~CopyOpen(p)
        BY <1>9, <4>2 DEF ComesTo
      <4>3. QED
        BY <4>1, <4>2
    <3>4. opener'[p].stage \notin {"mint", "fill"}
      <4>1. ~KeyCreate(p)
        BY <3>2 DEF KeyCreate, InStage, Minting
      <4>2. opener'[p].stage = "mint" => KeyRead(p)
        BY <1>9 DEF ComesTo
      <4>3. opener'[p].stage # "mint"
        BY <2>4, <3>1, <4>2, KeyReadIs DEF Goes, Minting
      <4>4. opener'[p].stage # "fill"
        BY <1>9, <4>1 DEF ComesTo
      <4>5. QED
        BY <4>3, <4>4
    <3>5. opener'[p].stage = "open" => opener'[p].place # opener[q].place
      <4>1. ~KeyFill(p)
        BY <3>2 DEF KeyFill, InStage, Minting
      <4>2. SUFFICES ASSUME opener'[p].stage = "open"
                     PROVE  opener'[p].place # opener[q].place
        OBVIOUS
      <4>3. KeyRead(p)
        BY <1>9, <4>1, <4>2 DEF ComesTo
      <4>4. opener'[p].place = opener[p].place /\ IsKey(keyAt[opener[p].place])
        BY <4>2, <4>3, KeyReadIs DEF Goes
      <4>5. QED
        BY <1>2, <3>1, <4>4 DEF Minting, IsKey
    <3>6. QED
      BY <1>3, <1>5, <2>1, <3>1, <3>3, <3>4, <3>5 DEF Minting
  <2>5. QED
    BY <1>14, <2>2, <2>3, <2>4
<1>15. ASSUME NEW q \in Opener, opener'[q].stage = "open"
       PROVE  \/ keyAt'[opener'[q].place] = opener'[q].key
              \/ keyAt'[opener'[q].place] = Short /\ opener'[q].key = LegacyKey
  <2>1. CASE q = p
    <3>1. KeyRead(p) \/ KeyFill(p)
      BY <1>9, <1>15, <2>1 DEF ComesTo
    <3>2. CASE KeyRead(p)
      BY <1>15, <2>1, <3>2, KeyReadIs DEF Goes, KeyRead
    <3>3. CASE KeyFill(p)
      BY <1>15, <2>1, <3>3, KeyFillIs DEF Goes
    <3>4. QED
      BY <3>1, <3>2, <3>3
  <2>2. CASE q # p
    <3>1. /\ opener'[q] = opener[q] /\ opener[q].stage = "open" /\ IsKey(opener[q].key)
          /\ opener[q].place \in {"default", "explicit"}
      BY <1>5, <1>6, <1>15, <2>2
    <3>2. Minting(p) => opener[q].place # opener[p].place
      BY <1>3, <3>1
    <3>3. QED
      BY <1>4, <1>7, <3>1, <3>2 DEF IsKey
  <2>3. QED
    BY <2>1, <2>2
<1>16. QED
  BY <1>10, <1>11, <1>12, <1>13, <1>14, <1>15 DEF KeyAlone, InStage, Minting

-----------------------------------------------------------------------------
\* A key that is on disk stays there, where nobody races.
LEMMA KeptStays ==
  ASSUME BlobsTyped, StagesTell, NumbersAreFresh, OldKeyFirst, KeyAlone, NEW p \in Opener,
         Open(p) \/ BlobsStep(p) \/ Fall(p), ~raced', NEW key, IsKey(key), Kept(key)
  PROVE  \E k \in KeyPaths : keyAt'[k] = key
<1> USE DEF Absent, Short, LegacyKey, IsKey
<1>1. key = keyAt["default"] \/ key = keyAt["explicit"] \/ key = keyAt["sibling"]
  BY DEF Kept, KeyPaths
<1>2. keyAt["sibling"] \in {Absent, LegacyKey}
  BY DEF OldKeyFirst
<1>3. SUFFICES \/ keyAt'["default"] = key \/ keyAt'["explicit"] = key
               \/ keyAt'["sibling"] = key
  BY DEF KeyPaths
<1>4. QED
  BY <1>1, <1>2, KeyWrites

\* So no key of a whole file leaves the disk.
LEMMA KeysKeptKept ==
  ASSUME BlobsTyped, StagesTell, NumbersAreFresh, OldKeyFirst, KeyAlone, KeysKept,
         NEW p \in Opener, Open(p) \/ BlobsStep(p) \/ Fall(p)
  PROVE  KeysKept'
<1> DEFINE KeptThen(key) == \E k \in KeyPaths : keyAt'[k] = key
<1> SUFFICES ASSUME ~raced'
             PROVE  /\ \A i \in DOMAIN inodes' :
                         inodes'[i].whole /\ inodes'[i].seal # Absent =>
                           IsKey(inodes'[i].seal) /\ KeptThen(inodes'[i].seal)
                    /\ \A q \in Opener :
                         /\ /\ opener'[q].stage \in {"create", "write"}
                            /\ opener'[q].mode = "sealed"
                            => IsKey(opener'[q].key) /\ KeptThen(opener'[q].key)
                         /\ /\ opener'[q].stage \in {"kek", "mint", "fill", "open"}
                            /\ opener'[q].op = "get"
                            => IsKey(opener'[q].seal) /\ KeptThen(opener'[q].seal)
  BY DEF KeysKept, IsKey, Kept
<1>1. ~raced
  BY RacesStay
<1>2. /\ \A i \in DOMAIN inodes : inodes[i].whole /\ inodes[i].seal # Absent =>
           IsKey(inodes[i].seal) /\ Kept(inodes[i].seal)
      /\ \A q \in Opener :
           /\ opener[q].stage \in {"create", "write"} /\ opener[q].mode = "sealed" =>
                IsKey(opener[q].key) /\ Kept(opener[q].key)
           /\ opener[q].stage \in {"kek", "mint", "fill", "open"} /\ opener[q].op = "get" =>
                IsKey(opener[q].seal) /\ Kept(opener[q].seal)
  BY <1>1 DEF KeysKept, InStage
<1>3. \A key : IsKey(key) /\ Kept(key) => KeptThen(key)
  BY KeptStays
<1> HIDE DEF KeptThen
<1>4. \A q \in Opener \ {p} : opener'[q] = opener[q]
  BY TypedKept DEF Others
<1>5. ComesTo(p, opener'[p].stage)
  BY StagesCome
<1>6. ASSUME NEW i \in DOMAIN inodes', inodes'[i].whole, inodes'[i].seal # Absent
      PROVE  IsKey(inodes'[i].seal) /\ KeptThen(inodes'[i].seal)
  <2>1. CASE FilesStay(p) \/ Rename(p) \/ ShredFile(p)
    <3>1. inodes' = inodes
      BY <2>1, FilesStayIs DEF Rename, ShredFile
    <3>2. QED
      BY <1>2, <1>3, <1>6, <3>1
  <2>2. CASE TmpCreate(p)
    <3>1. PICK k : k = TmpOf(p)
      OBVIOUS
    <3>2. /\ inodes'[k].whole = FALSE /\ DOMAIN inodes' = DOMAIN inodes \cup {k}
          /\ \A l \in DOMAIN inodes \ {k} : inodes'[l] = inodes[l]
      BY <2>2, <3>1, TmpCreateIs
    <3>3. i \in DOMAIN inodes /\ inodes'[i] = inodes[i]
      BY <1>6, <3>2
    <3>4. QED
      BY <1>2, <1>3, <1>6, <3>3
  <2>3. CASE TmpFill(p)
    <3>1. PICK k : k = opener[p].fd
      OBVIOUS
    <3>2. /\ DOMAIN inodes' = DOMAIN inodes
          /\ opener[p].mode = "sealed" => inodes'[k].seal = opener[p].key
          /\ opener[p].mode # "sealed" =>
               inodes'[k].seal = inodes[k].seal /\ inodes'[k].whole = (inodes[k].seal = Absent)
          /\ \A l \in DOMAIN inodes \ {k} : inodes'[l] = inodes[l]
      BY <2>3, <3>1, TmpFillIs
    <3>3. CASE i # k
      BY <1>2, <1>3, <1>6, <3>2, <3>3
    <3>4. CASE i = k
      <4>1. /\ opener[p].stage = "write" /\ opener[p].mode \in {"sealed", "clear"}
            /\ (opener[p].key = Absent <=> opener[p].mode = "clear")
        BY <2>3, BlobsAssumption DEF TmpFill, StagesTell, Tells, InStage
      <4>2. IsKey(opener[p].key) /\ Kept(opener[p].key)
        BY <1>2, <1>6, <3>2, <3>4, <4>1
      <4>3. opener[p].mode = "sealed"
        BY <1>6, <3>2, <3>4
      <4>4. QED
        BY <1>3, <3>2, <3>4, <4>2, <4>3
    <3>5. QED
      BY <3>3, <3>4
  <2>4. QED
    BY <2>1, <2>2, <2>3, StepsAre
<1>7. ASSUME NEW q \in Opener, opener'[q].stage \in {"create", "write"},
             opener'[q].mode = "sealed"
      PROVE  IsKey(opener'[q].key) /\ KeptThen(opener'[q].key)
  <2>1. CASE q # p
    BY <1>2, <1>3, <1>4, <1>7, <2>1
  <2>2. CASE q = p /\ KeyRead(p)
    <3>1. Goes(p, "create") /\ opener'[p].key = keyAt[opener[p].place]
          /\ IsKey(keyAt[opener[p].place]) /\ opener[p].place \in KeyPaths
      BY <1>7, <2>2, KeyReadIs DEF Goes
    <3>2. QED
      BY <1>3, <2>2, <3>1 DEF Kept
  <2>3. CASE q = p /\ KeyFill(p)
    <3>1. /\ opener'[p].key = opener[p].id /\ opener[p].place \in KeyPaths
          /\ keyAt'[opener[p].place] = opener[p].id
      BY <2>3, KeyFillIs
    <3>2. 2 < opener[p].id /\ opener[p].id \in Nat
      BY <2>3, FieldsAre DEF NumbersAreFresh, KeyFill, InStage
    <3>3. QED
      BY <2>3, <3>1, <3>2 DEF KeptThen, IsKey, Absent, Short
  <2>4. CASE q = p /\ TmpCreate(p)
    <3>1. opener'[p].key = opener[p].key /\ opener[p].mode = "sealed"
          /\ opener[p].stage = "create"
      BY <1>7, <2>4, TmpCreateIs DEF Goes, TmpCreate, InStage
    <3>2. QED
      BY <1>2, <1>3, <2>4, <3>1
  <2>5. CASE q = p /\ PutExists(p) /\ opener[p].mode = "clear"
    BY <1>7, <2>5, PutExistsIs DEF Goes
  <2>6. QED
    BY <1>5, <1>7, <2>1, <2>2, <2>3, <2>4, <2>5 DEF ComesTo
<1>8. ASSUME NEW q \in Opener, opener'[q].stage \in {"kek", "mint", "fill", "open"},
             opener'[q].op = "get"
      PROVE  IsKey(opener'[q].seal) /\ KeptThen(opener'[q].seal)
  <2>1. CASE q # p
    BY <1>2, <1>3, <1>4, <1>8, <2>1
  <2>2. CASE q = p /\ Get(p)
    <3>1. PICK i \in DOMAIN inodes : WholeBox(i) /\ opener'[p].seal = inodes[i].seal
      BY <1>8, <2>2, GetIs
    <3>2. QED
      BY <1>2, <1>3, <2>2, <3>1 DEF WholeBox
  <2>3. CASE q = p /\ PutExists(p) /\ opener[p].op # "get"
    <3>1. Goes(p, "kek")
      BY <1>8, <2>3, PutExistsIs DEF Goes
    <3>2. QED
      BY <1>8, <2>3, <3>1 DEF Goes
  <2>4. CASE q = p /\ (KeyRead(p) \/ KeyCreate(p) \/ KeyFill(p))
    <3>1. /\ opener'[p].seal = opener[p].seal /\ opener'[p].op = opener[p].op
          /\ opener[p].stage \in {"kek", "mint", "fill"}
      BY <1>8, <2>4, KeyReadIs, KeyCreateIs, KeyFillIs
      DEF Goes, KeyRead, KeyCreate, KeyFill, InStage
    <3>2. QED
      BY <1>2, <1>3, <1>8, <2>4, <3>1
  <2>5. QED
    BY <1>5, <1>8, <2>1, <2>2, <2>3, <2>4 DEF ComesTo
<1>9. QED
  BY <1>6, <1>7, <1>8

-----------------------------------------------------------------------------
\* The invariant holds at the start.
LEMMA BlobsInitially == BlobsInit => BlobsInv
<1> SUFFICES ASSUME BlobsInit PROVE BlobsInv
  OBVIOUS
<1> USE DEF Absent, Short, LegacyKey
<1>1. /\ opener = [p \in Opener |-> OpenerIdle] /\ opens = 0 /\ falls = 0 /\ raced = FALSE
      /\ mixed = FALSE
      /\ OpenerIdle \in Openers /\ OpenerIdle.stage = "idle"
  BY DEF BlobsInit, OpenerIdle, Openers, Stages
<1>2. \A p \in Opener : InStage(p, "idle")
  BY <1>1 DEF InStage
<1>3. CASE /\ keyAt = [k \in KeyPaths |-> Absent] /\ inodes = [i \in {} |-> i]
           /\ names = [tmp |-> 0, final |-> [m \in Mode |-> 0]]
  <2>1. DOMAIN inodes = {} /\ inodes \in [DOMAIN inodes -> Files]
    BY <1>3
  <2>2. BlobsTyped
    BY <1>1, <1>3, <2>1 DEF BlobsTyped
  <2>3. names.tmp = 0 /\ Stored = {}
    BY <1>3 DEF Stored
  <2>4. TmpApart /\ OneMode
    BY <1>2, <2>3 DEF TmpApart, OneMode, InStage, AtTmp
  <2>5. OldKeyFirst /\ KeyAlone
    BY <1>2, <1>3 DEF OldKeyFirst, KeyAlone, KeyPaths, InStage, Minting
  <2>6. StagesTell /\ NumbersAreFresh /\ KeysKept
    BY <1>2, <2>1 DEF StagesTell, Tells, NumbersAreFresh, KeysKept, InStage
  <2>7. QED
    BY <2>2, <2>4, <2>5, <2>6 DEF BlobsInv
<1>4. CASE /\ "sealed" \in Mode
           /\ keyAt = [k \in KeyPaths |-> IF k = "sibling" THEN LegacyKey ELSE Absent]
           /\ inodes = [i \in {1} |-> [seal |-> LegacyKey, whole |-> TRUE]]
           /\ names = [tmp |-> 0, final |-> [m \in Mode |-> IF m = "sealed" THEN 1 ELSE 0]]
  <2>1. /\ DOMAIN inodes = {1} /\ inodes \in [DOMAIN inodes -> Files]
        /\ inodes[1].seal = LegacyKey /\ inodes[1].whole = TRUE
    BY <1>4 DEF Files
  <2>2. names \in [tmp : {0} \cup DOMAIN inodes, final : [Mode -> {0} \cup DOMAIN inodes]]
    BY <1>4, <2>1
  <2>3. BlobsTyped
    <3>1. keyAt \in [KeyPaths -> Nat] /\ DOMAIN inodes \subseteq Nat \ {0}
      BY <1>4, <2>1
    <3>2. opener \in [Opener -> Openers] /\ opens \in Nat /\ falls \in Nat
      BY <1>1
    <3>3. QED
      BY <1>1, <2>1, <2>2, <3>1, <3>2 DEF BlobsTyped
  <2>4. names.tmp = 0 /\ Stored = {"sealed"} /\ names.final["sealed"] = 1
    BY <1>4 DEF Stored
  <2>5. TmpApart /\ OneMode
    BY <1>2, <2>1, <2>4 DEF TmpApart, OneMode, Fits, InStage, AtTmp
  <2>6. OldKeyFirst /\ KeyAlone
    BY <1>2, <1>4 DEF OldKeyFirst, KeyAlone, KeyPaths, InStage, Minting
  <2>7. StagesTell /\ NumbersAreFresh
    BY <1>1, <1>2, <2>1 DEF StagesTell, Tells, NumbersAreFresh
  <2>8. KeysKept
    BY <1>2, <1>4, <2>1 DEF KeysKept, InStage, IsKey, Kept, KeyPaths
  <2>9. QED
    BY <2>3, <2>5, <2>6, <2>7, <2>8 DEF BlobsInv
<1>5. QED
  BY <1>3, <1>4 DEF BlobsInit

\* Every step keeps it.
LEMMA BlobsKeeps == BlobsInv /\ [BlobsNext]_blobsVars => BlobsInv'
<1> SUFFICES ASSUME BlobsInv, [BlobsNext]_blobsVars PROVE BlobsInv'
  OBVIOUS
<1>1. CASE UNCHANGED blobsVars
  <2> USE DEF blobsVars, BlobsInv, InStage
  <2>1. BlobsTyped' /\ OldKeyFirst'
    BY <1>1 DEF BlobsTyped, OldKeyFirst
  <2>2. StagesTell' /\ NumbersAreFresh'
    BY <1>1 DEF StagesTell, Tells, NumbersAreFresh
  <2>3. TmpApart' /\ OneMode'
    BY <1>1 DEF TmpApart, OneMode, Stored, Fits, Writes
  <2>4. KeyAlone'
    BY <1>1 DEF KeyAlone, Minting
  <2>5. KeysKept'
    BY <1>1 DEF KeysKept, Kept
  <2>6. QED
    BY <2>1, <2>2, <2>3, <2>4, <2>5
<1>2. CASE BlobsNext
  <2>1. PICK p \in Opener : Open(p) \/ BlobsStep(p) \/ Fall(p)
    BY <1>2 DEF BlobsNext
  <2>2. QED
    BY <2>1, TypedKept, StagesTellKept, NumbersKept, TmpApartKept, OneModeKept, OldKeyFirstKept,
       KeyAloneKept, KeysKeptKept DEF BlobsInv
<1>3. QED
  BY <1>1, <1>2

\* Every key that a whole file needs is on disk, whatever processes open the store, move its key
\* or fall between two calls.
THEOREM BlobsInvariant == BlobsSpec => []BlobsInv
BY BlobsInitially, BlobsKeeps, PTL DEF BlobsSpec

\* NoKeyLost: no sealed content is orphaned, whatever crashes - unless two processes made
\* or moved a key at the same time.
THEOREM NoKeyIsLost == BlobsSpec => []NoKeyLost
<1>1. BlobsInv => NoKeyLost
  <2> SUFFICES ASSUME BlobsInv, ~raced
               PROVE  /\ \A m \in Stored :
                           WholeBox(names.final[m]) =>
                             FileOf(m).seal \in {keyAt[k] : k \in KeyPaths}
                      /\ \A p \in Opener :
                           InStage(p, "open") /\ ~Opens(p) =>
                             opener[p].seal \in
                               {keyAt[k] : k \in KeyPaths \ {opener[p].place}}
    BY DEF NoKeyLost
  <2>1. ASSUME NEW m \in Stored, WholeBox(names.final[m])
        PROVE  FileOf(m).seal \in {keyAt[k] : k \in KeyPaths}
    <3>1. PICK i : i = names.final[m]
      OBVIOUS
    <3>2. i \in DOMAIN inodes
      BY <3>1 DEF Stored, BlobsInv, BlobsTyped
    <3>3. Kept(inodes[i].seal)
      BY <2>1, <3>1, <3>2 DEF WholeBox, BlobsInv, KeysKept
    <3>4. QED
      BY <3>1, <3>3 DEF FileOf, Kept
  <2>2. ASSUME NEW p \in Opener, InStage(p, "open"), ~Opens(p)
        PROVE  opener[p].seal \in {keyAt[k] : k \in KeyPaths \ {opener[p].place}}
    <3>1. opener[p].op = "get"
      BY <2>2 DEF BlobsInv, StagesTell, Tells, InStage
    <3>2. IsKey(opener[p].seal) /\ Kept(opener[p].seal)
      BY <2>2, <3>1 DEF BlobsInv, KeysKept, InStage
    <3>3. \/ keyAt[opener[p].place] = opener[p].key
          \/ keyAt[opener[p].place] = Short
      BY <2>2 DEF BlobsInv, KeyAlone
    <3>4. keyAt[opener[p].place] # opener[p].seal
      BY <2>2, <3>2, <3>3 DEF Opens, IsKey
    <3>5. QED
      BY <3>2, <3>4 DEF Kept
  <2>3. QED
    BY <2>1, <2>2
<1>2. QED
  BY <1>1, BlobsInvariant, PTL

\* WholeOrBeingWritten: while no process has fallen, a file under the name of a content is
\* whole and of the store's kind, or being filled - unless a clear and a sealed writer
\* had the one temporary file at the same time.
THEOREM NoFileIsShort == BlobsSpec => []WholeOrBeingWritten
<1>1. BlobsInv => WholeOrBeingWritten
  <2> SUFFICES ASSUME BlobsInv, falls = 0, ~mixed, NEW m \in Stored
               PROVE  Proper(m) \/ BeingWritten(m)
    BY DEF WholeOrBeingWritten
  <2>1. Fits(names.final[m], m)
    BY DEF BlobsInv, OneMode
  <2>2. QED
    BY <2>1 DEF Fits, Writes, Proper, BeingWritten, FileOf
<1>2. QED
  BY <1>1, BlobsInvariant, PTL

-----------------------------------------------------------------------------
(***************************************************************************)
(* Summaries: the database and the answer on the way to it say who paid.   *)
(***************************************************************************)
RunnerFields == {"stage", "memory", "cached", "server", "turn", "summary"}

Busy(p, x) ==
  runner[p].stage \in {"summarize", "put"} /\ ContentKey(runner[p].turn) = x

\* A run that is about to put a model's summary of x into the database.
Bringing(p, x) ==
  Busy(p, x) /\ At(p, "put") /\ runner[p].cached /\ runner[p].summary.by = "model"

Accounted(x) == x \in DOMAIN cacheDb \/ \E p \in Runner : Bringing(p, x)

Typed ==
  /\ DOMAIN runner = Runner
  /\ \A p \in Runner : /\ DOMAIN runner[p] = RunnerFields
                       /\ At(p, "idle") \/ At(p, "next") \/ runner[p].turn \in Turn
  /\ paid \in [TurnTexts -> Nat] /\ wasted \in [TurnTexts -> Nat]

\* What a run that is at "put" has in hand is of the turn it is at.
InHand == \A p \in Runner : At(p, "put") => runner[p].summary.text = TextOf[runner[p].turn]

AloneInText ==
  \A x \in TurnTexts \ overlap : \A p, q \in Runner : Busy(p, x) /\ Busy(q, x) => p = q

\* One call is accounted for by the database or a run on its way to it, the others by
\* faults; a run with the database that is about to call a model has none to account for.
Account ==
  \A x \in TurnTexts \ overlap :
    /\ paid[x] <= 1 + wasted[x]
    /\ ~Accounted(x) => paid[x] <= wasted[x]
    /\ \A p \in Runner :
         Busy(p, x) /\ At(p, "summarize") /\ runner[p].cached => paid[x] <= wasted[x]

PaidInv == Typed /\ InHand /\ AloneInText /\ Account

-----------------------------------------------------------------------------
\* The text of a turn is one of the texts.
LEMMA TextsOfTurns == \A t \in Turn : TextOf[t] \in TurnTexts
BY DEF TurnTexts

\* The invariant of the cache holds at the start.
LEMMA Initially == SummariesInit => PaidInv
BY SummariesAssumption DEF SummariesInit, RunnerIdle, PaidInv, Typed, RunnerFields, InHand,
   AloneInText, Account, Accounted, Bringing, Busy, At

\* What one process does with itself: it puts no text in hand, and had no summary in
\* hand, and nothing is counted.
LEMMA QuietRuns ==
  ASSUME PaidInv, NEW p \in Runner, NEW r,
         UNCHANGED <<cacheDb, paid, wasted, overlap>>,
         runner' = [runner EXCEPT ![p] = r],
         DOMAIN r = RunnerFields,
         r.stage \in {"idle", "next"} \/ r.turn \in Turn,
         r.stage # "put" /\ runner[p].stage # "put",
         r.stage = "summarize" =>
           /\ runner[p].stage = "summarize"
           /\ r.turn = runner[p].turn /\ r.cached = runner[p].cached
  PROVE  PaidInv'
<1>1. Typed'
  BY DEF PaidInv, Typed, At
<1>2. /\ runner'[p] = r
      /\ \A q \in Runner \ {p} : runner'[q] = runner[q]
  BY DEF PaidInv, Typed
<1>3. \A q \in Runner, x \in TurnTexts :
        Busy(q, x)' => Busy(q, x) /\ (runner[q].cached = runner'[q].cached)
                                  /\ (runner[q].stage = runner'[q].stage)
  BY <1>2 DEF Busy, ContentKey
<1>4. \A q \in Runner, x \in TurnTexts : Bringing(q, x) => Bringing(q, x)'
  BY <1>2 DEF Bringing, Busy, At, ContentKey
<1>5. InHand'
  BY <1>2 DEF PaidInv, InHand, At
<1>6. AloneInText'
  BY <1>3 DEF PaidInv, AloneInText
<1>7. \A x \in TurnTexts : Accounted(x) => Accounted(x)'
  BY <1>4 DEF Accounted
<1>8. Account'
  BY <1>3, <1>7 DEF PaidInv, Account, At
<1>9. QED
  BY <1>1, <1>5, <1>6, <1>8 DEF PaidInv

\* A runner keeps its fields.
LEMMA RunnerShape ==
  ASSUME PaidInv, NEW p \in Runner
  PROVE  DOMAIN runner[p] = RunnerFields /\ DOMAIN RunnerIdle = RunnerFields
BY DEF PaidInv, Typed, RunnerIdle, RunnerFields

\* Steps that change neither the database, nor what is paid, nor the end of a run.
LEMMA QuietSteps ==
  ASSUME PaidInv, NEW p \in Runner,
         StartRun(p) \/ TakeTurn(p) \/ EndRun(p) \/ Probe(p) \/ KeepSummary(p)
  PROVE  PaidInv'
<1>1. CASE StartRun(p)
  <2>1. PICK server \in {"offline", "unprobed"}, configured \in {"off", "path", "unset"},
             dbOpens \in BOOLEAN :
          runner' = [runner EXCEPT ![p] =
            [RunnerIdle EXCEPT !.stage = "next", !.server = server,
                               !.cached = HasDb(configured, dbOpens)]]
    BY <1>1 DEF StartRun
  <2> DEFINE r == [RunnerIdle EXCEPT !.stage = "next", !.server = server,
                                     !.cached = HasDb(configured, dbOpens)]
  <2>2. DOMAIN r = RunnerFields /\ r.stage = "next"
    BY DEF RunnerIdle, RunnerFields
  <2>3. QED
    BY <1>1, <2>1, <2>2, QuietRuns DEF StartRun, At
<1>2. CASE TakeTurn(p)
  <2>1. PICK t \in Turn \ DOMAIN kept :
          runner' = [runner EXCEPT ![p].stage = "lookup", ![p].turn = t]
    BY <1>2 DEF TakeTurn
  <2> DEFINE r == [runner[p] EXCEPT !.stage = "lookup", !.turn = t]
  <2>2. DOMAIN r = RunnerFields /\ r.stage = "lookup" /\ r.turn = t
    BY RunnerShape DEF RunnerFields
  <2>3. runner' = [runner EXCEPT ![p] = r]
    BY <2>1 DEF PaidInv, Typed
  <2>4. QED
    BY <1>2, <2>2, <2>3, QuietRuns DEF TakeTurn, At
<1>3. CASE EndRun(p)
  <2>1. DOMAIN RunnerIdle = RunnerFields /\ RunnerIdle.stage = "idle"
    BY DEF RunnerIdle, RunnerFields
  <2>2. QED
    BY <1>3, <2>1, QuietRuns DEF EndRun, At
<1>4. CASE Probe(p)
  <2>1. PICK server \in {"model", "offline"} : runner' = [runner EXCEPT ![p].server = server]
    BY <1>4 DEF Probe
  <2> DEFINE r == [runner[p] EXCEPT !.server = server]
  <2>2. /\ DOMAIN r = RunnerFields /\ r.stage = runner[p].stage
        /\ r.turn = runner[p].turn /\ r.cached = runner[p].cached
    BY RunnerShape DEF RunnerFields
  <2>3. runner' = [runner EXCEPT ![p] = r]
    BY <2>1 DEF PaidInv, Typed
  <2>4. r.stage = "summarize" /\ r.turn \in Turn
    BY <1>4, <2>2 DEF Probe, At, PaidInv, Typed
  <2>5. QED
    BY <1>4, <2>2, <2>3, <2>4, QuietRuns DEF Probe, At
<1>5. CASE KeepSummary(p)
  <2> DEFINE r == [runner[p] EXCEPT !.stage = "next", !.turn = NoTurn, !.summary = <<>>]
  <2>1. DOMAIN r = RunnerFields /\ r.stage = "next"
    BY RunnerShape DEF RunnerFields
  <2>2. runner' = [runner EXCEPT ![p] = r]
    BY <1>5 DEF KeepSummary, PaidInv, Typed
  <2>3. QED
    BY <1>5, <2>1, <2>2, QuietRuns DEF KeepSummary, At
<1>6. QED
  BY <1>1, <1>2, <1>3, <1>4, <1>5

-----------------------------------------------------------------------------
\* A miss makes its text busy: in the database only by a fault, which is counted, and
\* in no other run's hands unless the text is marked as overlapping.
LEMMA LookupStep ==
  ASSUME PaidInv, NEW p \in Runner, Lookup(p)
  PROVE  PaidInv'
<1> DEFINE key == ContentKey(runner[p].turn)
<1>1. At(p, "lookup") /\ key \in TurnTexts /\ UNCHANGED <<cacheDb, paid>>
  BY TextsOfTurns DEF Lookup, PaidInv, Typed, At, ContentKey
<1>2. ASSUME NEW s, NEW m, UNCHANGED <<wasted, overlap>>,
             runner' = [runner EXCEPT ![p].stage = "keep", ![p].summary = s, ![p].memory = m]
      PROVE  PaidInv'
  <2> DEFINE r == [runner[p] EXCEPT !.stage = "keep", !.summary = s, !.memory = m]
  <2>1. DOMAIN r = RunnerFields /\ r.stage = "keep" /\ r.turn = runner[p].turn
    BY RunnerShape DEF RunnerFields
  <2>2. runner' = [runner EXCEPT ![p] = r]
    BY <1>2 DEF PaidInv, Typed
  <2>3. r.turn \in Turn
    BY <1>1, <2>1 DEF PaidInv, Typed, At
  <2>4. QED
    BY <1>1, <1>2, <2>1, <2>2, <2>3, QuietRuns DEF At
<1>3. ASSUME runner' = [runner EXCEPT ![p].stage = "summarize"],
             IF InDb(p, key) THEN wasted' = [wasted EXCEPT ![key] = @ + 1] ELSE wasted' = wasted,
             overlap' = overlap \cup
               {key : q \in {o \in Runner \ {p} : runner[o].stage \in {"summarize", "put"}
                                                  /\ ContentKey(runner[o].turn) = key}}
      PROVE  PaidInv'
  <2>1. /\ DOMAIN runner' = Runner /\ DOMAIN runner'[p] = RunnerFields
        /\ runner'[p].stage = "summarize" /\ runner'[p].turn = runner[p].turn
        /\ runner'[p].cached = runner[p].cached
        /\ \A q \in Runner \ {p} : runner'[q] = runner[q]
    BY <1>3, RunnerShape DEF PaidInv, Typed, RunnerFields
  <2>2. Typed'
    BY <1>1, <1>3, <2>1 DEF PaidInv, Typed, At
  <2>3. InHand'
    BY <2>1 DEF PaidInv, InHand, At
  <2>4. \A q \in Runner, x \in TurnTexts :
          Busy(q, x)' <=> Busy(q, x) \/ (q = p /\ x = key)
    BY <1>1, <2>1 DEF Busy, At, ContentKey
  <2>5. \A q \in Runner, x \in TurnTexts : Bringing(q, x)' <=> Bringing(q, x)
    BY <1>1, <2>1, <2>4 DEF Bringing, At, Busy
  <2>6. \A x \in TurnTexts \ overlap' :
          /\ x \notin overlap
          /\ x = key => \A q \in Runner \ {p} : ~Busy(q, x)
    BY <1>3 DEF Busy
  <2>7. AloneInText'
    BY <2>4, <2>6 DEF PaidInv, AloneInText
  <2>8. \A x \in TurnTexts : Accounted(x)' <=> Accounted(x)
    BY <1>1, <2>5 DEF Accounted
  <2>9. \A x \in TurnTexts : /\ paid[x] \in Nat /\ wasted[x] \in Nat
                             /\ wasted'[x] \in Nat /\ wasted[x] <= wasted'[x]
                             /\ x = key /\ InDb(p, key) => wasted'[x] = wasted[x] + 1
    BY <1>1, <1>3, <2>2 DEF PaidInv, Typed
  <2>10. ASSUME NEW x \in TurnTexts \ overlap', x = key, runner[p].cached
         PROVE  paid[x] <= wasted'[x]
    <3>1. paid[x] <= 1 + wasted[x] /\ (~Accounted(x) => paid[x] <= wasted[x])
      BY <2>6 DEF PaidInv, Account
    <3>2. CASE x \in DOMAIN cacheDb
      <4>1. InDb(p, key)
        BY <2>10, <3>2 DEF InDb
      <4>2. QED
        BY <2>9, <2>10, <3>1, <4>1
    <3>3. CASE x \notin DOMAIN cacheDb
      <4>1. ~Accounted(x)
        BY <1>1, <2>6, <2>10, <3>3 DEF Accounted, Bringing, At
      <4>2. QED
        BY <2>9, <2>10, <3>1, <4>1
    <3>4. QED
      BY <3>2, <3>3
  <2>11. Account'
    <3>1. SUFFICES ASSUME NEW x \in TurnTexts \ overlap'
                   PROVE  /\ paid[x] <= 1 + wasted'[x]
                          /\ ~Accounted(x) => paid[x] <= wasted'[x]
                          /\ \A q \in Runner :
                               Busy(q, x)' /\ At(q, "summarize")' /\ runner'[q].cached =>
                                 paid[x] <= wasted'[x]
      BY <1>1, <2>8 DEF Account
    <3>2. /\ paid[x] <= 1 + wasted[x]
          /\ ~Accounted(x) => paid[x] <= wasted[x]
          /\ \A q \in Runner :
               Busy(q, x) /\ At(q, "summarize") /\ runner[q].cached => paid[x] <= wasted[x]
      BY <2>6 DEF PaidInv, Account
    <3>3. /\ paid[x] <= 1 + wasted'[x]
          /\ ~Accounted(x) => paid[x] <= wasted'[x]
      BY <2>9, <3>2
    <3>4. ASSUME NEW q \in Runner, Busy(q, x)', At(q, "summarize")', runner'[q].cached
          PROVE  paid[x] <= wasted'[x]
      <4>1. CASE q = p
        BY <2>1, <2>10, <3>4, <4>1 DEF Busy, ContentKey
      <4>2. CASE q # p
        BY <2>1, <2>4, <2>9, <3>2, <3>4, <4>2 DEF At
      <4>3. QED
        BY <4>1, <4>2
    <3>5. QED
      BY <3>3, <3>4
  <2>12. QED
    BY <2>2, <2>3, <2>7, <2>11 DEF PaidInv
<1>4. QED
  <2>1. CASE runner' = [runner EXCEPT ![p].stage = "keep", ![p].summary = runner[p].memory[key]]
             /\ UNCHANGED <<wasted, overlap>>
    <3>1. runner' = [runner EXCEPT ![p].stage = "keep", ![p].summary = runner[p].memory[key],
                                   ![p].memory = runner[p].memory]
      BY <2>1, RunnerShape DEF PaidInv, Typed
    <3>2. QED
      BY <1>2, <2>1, <3>1
  <2>2. CASE runner' = [runner EXCEPT ![p].stage = "keep", ![p].summary = cacheDb[key],
                          ![p].memory = InsertOrReplace(runner[p].memory, key, cacheDb[key])]
             /\ UNCHANGED <<wasted, overlap>>
    BY <1>2, <2>2
  <2>3. QED
    BY <1>3, <2>1, <2>2 DEF Lookup

-----------------------------------------------------------------------------
\* A model is asked, and paid, only for what nobody has.
LEMMA SummarizeStep ==
  ASSUME PaidInv, NEW p \in Runner, Summarize(p)
  PROVE  PaidInv'
<1> DEFINE t == runner[p].turn
           key == TextOf[t]
<1>1. /\ At(p, "summarize") /\ t \in Turn /\ key \in TurnTexts /\ Busy(p, key)
      /\ UNCHANGED <<cacheDb, wasted, overlap>>
  BY TextsOfTurns DEF Summarize, PaidInv, Typed, At, Busy, ContentKey
<1>2. PICK summary :
        /\ runner' = [runner EXCEPT ![p].stage = "put", ![p].summary = summary]
        /\ \/ summary = FirstLine(t) /\ paid' = paid
           \/ summary = OfModel(t) /\ paid' = Tally(p, paid, OfModel(t))
  BY DEF Summarize
<1>3. /\ DOMAIN runner' = Runner /\ DOMAIN runner'[p] = RunnerFields
      /\ runner'[p].stage = "put" /\ runner'[p].turn = t
      /\ runner'[p].cached = runner[p].cached /\ runner'[p].summary = summary
      /\ \A q \in Runner \ {p} : runner'[q] = runner[q]
  BY <1>2, RunnerShape DEF PaidInv, Typed, RunnerFields
<1>4. summary.text = key /\ (summary.by = "model" <=> summary = OfModel(t))
  BY <1>2 DEF FirstLine, OfModel
<1>5. paid' = IF runner[p].cached /\ summary.by = "model" THEN [paid EXCEPT ![key] = @ + 1]
              ELSE paid
  BY <1>2, <1>4 DEF Tally, FirstLine, OfModel
<1>6. Typed'
  BY <1>1, <1>3, <1>5 DEF PaidInv, Typed, At
<1>7. InHand'
  BY <1>3, <1>4 DEF PaidInv, InHand, At
<1>8. \A q \in Runner, x \in TurnTexts : Busy(q, x)' <=> Busy(q, x)
  BY <1>1, <1>3 DEF Busy, At, ContentKey
<1>9. AloneInText'
  BY <1>1, <1>8 DEF PaidInv, AloneInText
<1>10. \A q \in Runner, x \in TurnTexts :
         Bringing(q, x)' <=> Bringing(q, x) \/ (q = p /\ Bringing(p, x)')
  BY <1>1, <1>3, <1>8 DEF Bringing, At
<1>11. ASSUME NEW x \in TurnTexts \ overlap
       PROVE  /\ paid'[x] <= 1 + wasted[x]
              /\ ~Accounted(x)' => paid'[x] <= wasted[x]
              /\ \A q \in Runner :
                   Busy(q, x)' /\ At(q, "summarize")' /\ runner'[q].cached =>
                     paid'[x] <= wasted[x]
  <2>1. /\ paid[x] <= 1 + wasted[x]
        /\ ~Accounted(x) => paid[x] <= wasted[x]
        /\ \A q \in Runner :
             Busy(q, x) /\ At(q, "summarize") /\ runner[q].cached => paid[x] <= wasted[x]
    BY DEF PaidInv, Account
  <2>2. paid[x] \in Nat /\ wasted[x] \in Nat
    BY DEF PaidInv, Typed
  <2>3. CASE x = key /\ runner[p].cached /\ summary.by = "model"
    <3>1. paid'[x] = paid[x] + 1 /\ paid[x] <= wasted[x]
      BY <1>1, <1>5, <2>1, <2>3 DEF PaidInv, Typed
    <3>2. Accounted(x)'
      BY <1>1, <1>3, <1>8, <2>3 DEF Accounted, Bringing, At
    <3>3. \A q \in Runner : Busy(q, x)' /\ At(q, "summarize")' => FALSE
      BY <1>1, <1>3, <1>8, <2>3 DEF PaidInv, AloneInText, At
    <3>4. QED
      BY <2>2, <3>1, <3>2, <3>3
  <2>4. CASE ~(x = key /\ runner[p].cached /\ summary.by = "model")
    <3>1. paid'[x] = paid[x]
      BY <1>1, <1>5, <2>4 DEF PaidInv, Typed
    <3>2. Accounted(x) => Accounted(x)'
      BY <1>1, <1>10 DEF Accounted
    <3>3. \A q \in Runner : Busy(q, x)' /\ At(q, "summarize")' /\ runner'[q].cached =>
            Busy(q, x) /\ At(q, "summarize") /\ runner[q].cached
      BY <1>3, <1>8 DEF At
    <3>4. QED
      BY <2>1, <3>1, <3>2, <3>3
  <2>5. QED
    BY <2>3, <2>4
<1>12. Account'
  BY <1>1, <1>11 DEF Account
<1>13. QED
  BY <1>6, <1>7, <1>9, <1>12 DEF PaidInv

\* A run lets go of a text: its answer, if it had one to account for, is in the
\* database, or is counted as wasted.
LEMMA LetGo ==
  ASSUME PaidInv, NEW p \in Runner, NEW r, NEW key \in TurnTexts,
         UNCHANGED <<paid, overlap>>, DOMAIN cacheDb \subseteq DOMAIN cacheDb',
         runner' = [runner EXCEPT ![p] = r],
         DOMAIN r = RunnerFields,
         r.stage \in {"idle", "next"} \/ r.turn \in Turn,
         r.stage \notin {"summarize", "put"},
         \A x \in TurnTexts : Bringing(p, x) => x = key,
         \/ wasted' = [wasted EXCEPT ![key] = @ + 1]
         \/ wasted' = wasted /\ (Bringing(p, key) => key \in DOMAIN cacheDb')
  PROVE  PaidInv'
<1>1. Typed'
  BY DEF PaidInv, Typed, At
<1>2. /\ runner'[p] = r
      /\ \A q \in Runner \ {p} : runner'[q] = runner[q]
  BY DEF PaidInv, Typed
<1>3. \A q \in Runner, x \in TurnTexts :
        Busy(q, x)' => q # p /\ Busy(q, x) /\ runner[q] = runner'[q]
  BY <1>2 DEF Busy, ContentKey
<1>4. \A q \in Runner \ {p}, x \in TurnTexts : Bringing(q, x) => Bringing(q, x)'
  BY <1>2 DEF Bringing, Busy, At, ContentKey
<1>5. InHand'
  BY <1>2 DEF PaidInv, InHand, At
<1>6. AloneInText'
  BY <1>3 DEF PaidInv, AloneInText
<1>7. ASSUME NEW x \in TurnTexts \ overlap
      PROVE  /\ paid[x] <= 1 + wasted'[x]
             /\ ~Accounted(x)' => paid[x] <= wasted'[x]
             /\ \A q \in Runner :
                  Busy(q, x)' /\ At(q, "summarize")' /\ runner'[q].cached =>
                    paid[x] <= wasted'[x]
  <2>1. /\ paid[x] <= 1 + wasted[x]
        /\ ~Accounted(x) => paid[x] <= wasted[x]
        /\ \A q \in Runner :
             Busy(q, x) /\ At(q, "summarize") /\ runner[q].cached => paid[x] <= wasted[x]
    BY DEF PaidInv, Account
  <2>2. /\ paid[x] \in Nat /\ wasted[x] \in Nat /\ wasted'[x] \in Nat
        /\ wasted[x] <= wasted'[x]
    BY <1>1 DEF PaidInv, Typed
  <2>3. CASE x = key /\ wasted' = [wasted EXCEPT ![key] = @ + 1]
    BY <2>1, <2>2, <2>3 DEF PaidInv, Typed
  <2>4. CASE ~(x = key /\ wasted' = [wasted EXCEPT ![key] = @ + 1])
    <3>1. Accounted(x) => Accounted(x)'
      BY <1>4, <2>4 DEF Accounted
    <3>2. \A q \in Runner : Busy(q, x)' /\ At(q, "summarize")' /\ runner'[q].cached =>
            Busy(q, x) /\ At(q, "summarize") /\ runner[q].cached
      BY <1>3 DEF At
    <3>3. QED
      BY <2>1, <2>2, <3>1, <3>2
  <2>5. QED
    BY <2>3, <2>4
<1>8. Account'
  BY <1>7 DEF Account
<1>9. QED
  BY <1>1, <1>5, <1>6, <1>8 DEF PaidInv

\* What a run brings is put into the database.
LEMMA PutStep ==
  ASSUME PaidInv, NEW p \in Runner, PutSummary(p)
  PROVE  PaidInv'
<1> DEFINE key == TextOf[runner[p].turn]
           summary == runner[p].summary
           r == [runner[p] EXCEPT !.stage = "keep",
                                  !.memory = InsertOrReplace(runner[p].memory, key, summary)]
<1>1. /\ At(p, "put") /\ key \in TurnTexts /\ runner[p].turn \in Turn
      /\ UNCHANGED <<paid, overlap>> /\ summary.text = key
  BY TextsOfTurns DEF PutSummary, PaidInv, Typed, InHand, At
<1>2. DOMAIN r = RunnerFields /\ r.stage = "keep" /\ r.turn = runner[p].turn
  BY RunnerShape DEF RunnerFields
<1>3. runner' = [runner EXCEPT ![p] = r]
  BY DEF PutSummary, PaidInv, Typed, ContentKey
<1>4. \A x \in TurnTexts : Bringing(p, x) => x = key
  BY DEF Bringing, Busy, ContentKey
<1>5. CASE cacheDb' = InsertOrIgnore(cacheDb, key, summary) /\ wasted' = wasted
  <2>1. DOMAIN cacheDb \subseteq DOMAIN cacheDb' /\ key \in DOMAIN cacheDb'
    BY <1>5 DEF InsertOrIgnore
  <2>2. QED
    BY <1>1, <1>2, <1>3, <1>4, <1>5, <2>1, LetGo
<1>6. CASE cacheDb' = cacheDb /\ wasted' = Tally(p, wasted, summary)
  <2>1. \/ wasted' = [wasted EXCEPT ![key] = @ + 1]
        \/ wasted' = wasted /\ ~Bringing(p, key)
    BY <1>1, <1>6 DEF Tally, Bringing
  <2>2. DOMAIN cacheDb \subseteq DOMAIN cacheDb'
    BY <1>6
  <2>3. r.stage \notin {"summarize", "put"} /\ r.turn \in Turn
    BY <1>1, <1>2
  <2> HIDE DEF r
  <2>4. QED
    BY <1>1, <1>2, <1>3, <1>4, <2>1, <2>2, <2>3, LetGo
<1>7. QED
  BY <1>5, <1>6 DEF PutSummary, PutDb, ContentKey

\* A run that is killed gives its turn up.
LEMMA KillStep ==
  ASSUME PaidInv, NEW p \in Runner, KillRun(p)
  PROVE  PaidInv'
<1> DEFINE key == TextOf[runner[p].turn]
           summary == runner[p].summary
<1>1. DOMAIN RunnerIdle = RunnerFields /\ RunnerIdle.stage = "idle"
  BY DEF RunnerIdle, RunnerFields
<1>2. \A x \in TurnTexts : Bringing(p, x) => x = key /\ At(p, "put")
  BY DEF Bringing, Busy, ContentKey
<1>3. runner' = [runner EXCEPT ![p] = RunnerIdle] /\ UNCHANGED <<cacheDb, paid, overlap>>
  BY DEF KillRun
<1>4. CASE At(p, "put")
  <2>1. key \in TurnTexts /\ summary.text = key
    BY <1>4, TextsOfTurns DEF PaidInv, Typed, InHand, At
  <2>2. \/ wasted' = [wasted EXCEPT ![key] = @ + 1]
        \/ wasted' = wasted /\ ~Bringing(p, key)
    BY <1>4, <2>1 DEF KillRun, Tally, Bringing
  <2>3. QED
    BY <1>1, <1>2, <1>3, <2>1, <2>2, LetGo
<1>5. CASE ~At(p, "put")
  <2>1. wasted' = wasted /\ \A x \in TurnTexts : ~Bringing(p, x)
    BY <1>2, <1>5 DEF KillRun
  <2>2. QED
    BY <1>1, <1>3, <1>5, <2>1, QuietRuns DEF At
<1>6. QED
  BY <1>4, <1>5

-----------------------------------------------------------------------------
\* Every step keeps what is paid for in a cache or in hand.
LEMMA Inductive == PaidInv /\ [SummariesNext]_summaryVars => PaidInv'
<1> SUFFICES ASSUME PaidInv, [SummariesNext]_summaryVars PROVE PaidInv'
  OBVIOUS
<1>1. CASE RemoveIndex \/ UNCHANGED summaryVars
  <2>1. UNCHANGED <<cacheDb, runner, paid, wasted, overlap>>
    BY <1>1 DEF RemoveIndex, summaryVars
  <2>2. \A q \in Runner, x \in TurnTexts :
          (Busy(q, x)' <=> Busy(q, x)) /\ (Bringing(q, x)' <=> Bringing(q, x))
    BY <2>1 DEF Bringing, Busy, At, ContentKey
  <2>3. Typed' /\ InHand'
    BY <2>1 DEF PaidInv, Typed, InHand, At
  <2>4. AloneInText'
    BY <2>1, <2>2 DEF PaidInv, AloneInText
  <2>5. \A x \in TurnTexts : Accounted(x)' <=> Accounted(x)
    BY <2>1, <2>2 DEF Accounted
  <2>6. Account'
    BY <2>1, <2>2, <2>5 DEF PaidInv, Account, At
  <2>7. QED
    BY <2>3, <2>4, <2>6 DEF PaidInv
<1>2. ASSUME NEW p \in Runner,
             StartRun(p) \/ TakeTurn(p) \/ EndRun(p) \/ Probe(p) \/ KeepSummary(p)
      PROVE  PaidInv'
  BY <1>2, QuietSteps
<1>3. ASSUME NEW p \in Runner, Lookup(p) \/ Summarize(p) \/ PutSummary(p) \/ KillRun(p)
      PROVE  PaidInv'
  BY <1>3, LookupStep, SummarizeStep, PutStep, KillStep
<1>4. QED
  BY <1>1, <1>2, <1>3 DEF SummariesNext

\* Whoever is killed and whatever fails, any number of runs of any repositories have a
\* model summarise a text once, and once more for each fault at most.
THEOREM RunsPayOnce == SummariesSpec => []PaidOnce
<1>1. PaidInv => PaidOnce
  BY DEF PaidInv, Account, PaidOnce
<1>2. QED
  BY <1>1, Initially, Inductive, PTL DEF SummariesSpec
=============================================================================
