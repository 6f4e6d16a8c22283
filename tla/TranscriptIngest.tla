-------------------------- MODULE TranscriptIngest --------------------------
(***************************************************************************)
(* The declared side of brain0: `brain0 observe` reads the transcripts of  *)
(* coding agents from a cursor per file and crates/brain0-agentsrc turns   *)
(* every new turn into a version of the session's task.  A pass first      *)
(* plans, reading all files, then writes statement by statement, each      *)
(* committing on its own; passes may crash and may overlap, since the CLI  *)
(* and the GUI's refresh start them freely.                                *)
(*                                                                         *)
(* A transcript is a sequence of complete lines and offsets count lines: a *)
(* partial last line is not read.  A line is a user prompt, which starts a *)
(* turn, or a tool call, whose edits and reads the turn declares.          *)
(***************************************************************************)
EXTENDS Naturals, Sequences, FiniteSets, Tables

CONSTANTS
  File,         \* transcript files of the scoped, not excluded sessions
  SessionOf,    \* the session of each file; subagents share their parent's
  Proc,         \* processes that may run `brain0 observe`
  StrictClock,  \* TRUE when every line carries a timestamp of its own
  MaxLines,     \* bound on the lines written
  MaxPasses,    \* bound on the passes started
  MaxCrashes    \* bound on their crashes

ASSUME TranscriptAssumption ==
  /\ StrictClock \in BOOLEAN
  /\ MaxLines \in Nat /\ MaxPasses \in Nat /\ MaxCrashes \in Nat

Session == {SessionOf[f] : f \in File}

VARIABLES
  log,         \* the transcripts
  now,         \* the clock of the agents
  taskNodes,   \* task_nodes: session -> current version
  versions,    \* task_versions: [session, at, ordinal] -> [turn, declared]
  cursors,     \* cursors: file -> lines consumed
  pins,        \* transcript-ingest events of the audit log: [file, from, to]
  embeddings,  \* task_embeddings: session -> turns the vector was made from
  job,         \* what each process is doing
  passes,      \* passes started
  crashes,     \* passes that crashed
  overlapped   \* two passes have run at the same time

store == <<taskNodes, versions, cursors, pins, embeddings>>
vars  == <<log, now, store, job, passes, crashes, overlapped>>

CursorOf(f) == IF f \in DOMAIN cursors THEN cursors[f] ELSE 0

(***************************************************************************)
(* read_incremental: the turns of a range of lines.  Calls before the      *)
(* first prompt of the range belong to no turn.                            *)
(***************************************************************************)
PromptLines(f, from, to) == {i \in (from + 1)..to : log[f][i].kind = "prompt"}

Declared(f, i, to) ==
  {k \in (i + 1)..to : log[f][k].kind = "call" /\ PromptLines(f, i, k) = {}}

TurnAt(f, i) == [file |-> f, line |-> i]

Idle == [stage |-> "idle", plan |-> EmptyTable, file |-> {}, turns |-> {}, ordinal |-> 0]

At(p, stage) == job[p].stage = stage

GoTo(p, stage) == job' = [job EXCEPT ![p].stage = stage]

FileOf(j) == CHOOSE f \in j.file : TRUE

FirstOf(turns) == CHOOSE i \in turns : \A k \in turns : i <= k

\* Variant with a fault: no ordinal in the id of a task version.
NewVersionByTime(j) ==
  LET f == FileOf(j)
  IN  [session |-> SessionOf[f], at |-> log[f][FirstOf(j.turns)].at, ordinal |-> 0]

\* Variant with a fault: a version is dated when it is made, not when the turn was.
NewVersionNow(j) ==
  [session |-> SessionOf[FileOf(j)], at |-> now, ordinal |-> j.ordinal]

\* The version a job writes for the turn it is at.
NewVersion(j) ==
  LET f == FileOf(j)
  IN  [session |-> SessionOf[f], at |-> log[f][FirstOf(j.turns)].at,
       ordinal |-> j.ordinal]

Init ==
  /\ log = [f \in File |-> <<>>]
  /\ now = 0
  /\ taskNodes = EmptyTable
  /\ versions = EmptyTable
  /\ cursors = EmptyTable
  /\ pins = {}
  /\ embeddings = EmptyTable
  /\ job = [p \in Proc |-> Idle]
  /\ passes = 0
  /\ crashes = 0
  /\ overlapped = FALSE

LinesWritten == Cardinality(UNION {{f} \X (1..Len(log[f])) : f \in File})

\* The agent writes a line.  A line without a timestamp counts as one of the
\* epoch, so that two turns may carry the same time.
Epoch == 0

Write(f) ==
  /\ LinesWritten < MaxLines
  /\ now' = now + 1
  /\ \E kind \in {"prompt", "call"}, at \in IF StrictClock THEN {now'} ELSE {now', Epoch} :
       log' = [log EXCEPT ![f] = Append(@, [kind |-> kind, at |-> at])]
  /\ UNCHANGED <<store, job, passes, crashes, overlapped>>

Start(p) ==
  /\ At(p, "idle")
  /\ passes < MaxPasses
  /\ GoTo(p, "plan")
  /\ passes' = passes + 1
  /\ overlapped' = (overlapped \/ \E q \in Proc : ~At(q, "idle"))
  /\ UNCHANGED <<log, now, store, crashes>>

\* Phase 1 reads one session file from its cursor to its end.
PlanFile(p, f) ==
  /\ At(p, "plan")
  /\ f \notin DOMAIN job[p].plan
  /\ LET end  == Len(log[f])
         plan == InsertOrReplace(job[p].plan, f, [from |-> CursorOf(f), to |-> end])
     IN  job' = [job EXCEPT ![p].plan = plan,
                            ![p].stage = IF DOMAIN plan = File THEN "file" ELSE "plan"]
  /\ UNCHANGED <<log, now, store, passes, crashes, overlapped>>

\* Variant with a fault: the first line after the cursor is skipped.
TurnsOffByOne(f, r) == PromptLines(f, r.from + 1, r.to)

TurnsOf(f, r) == PromptLines(f, r.from, r.to)

\* Phase 2 takes the planned files one after the other, in directory order.
TakeFile(p, f) ==
  /\ At(p, "file")
  /\ f \in DOMAIN job[p].plan
  /\ job' = [job EXCEPT ![p].stage = "turn", ![p].file = {f},
               ![p].turns = TurnsOf(f, job[p].plan[f])]
  /\ UNCHANGED <<log, now, store, passes, crashes, overlapped>>

\* ingest_turn: the ordinal is the number of versions the task has by now...
ReadPrior(p) ==
  /\ At(p, "turn")
  /\ job[p].turns # {}
  /\ job' = [job EXCEPT ![p].stage = "node",
               ![p].ordinal = Cardinality({v \in DOMAIN versions :
                                 v.session = SessionOf[FileOf(job[p])]})]
  /\ UNCHANGED <<log, now, store, passes, crashes, overlapped>>

\* ... the task node points to the version before it is there...
PutTaskNode(p) ==
  /\ At(p, "node")
  /\ LET v == NewVersion(job[p])
     IN  taskNodes' = InsertOrReplace(taskNodes, v.session, v)
  /\ GoTo(p, "version")
  /\ UNCHANGED <<log, now, versions, cursors, pins, embeddings, passes, crashes,
                 overlapped>>

\* ... and the version is appended, unless one with its id is on record.
AppendVersion(p) ==
  /\ At(p, "version")
  /\ LET j == job[p]
         f == FileOf(j)
         i == FirstOf(j.turns)
     IN  /\ versions' = InsertOrIgnore(versions, NewVersion(j),
              [turn |-> TurnAt(f, i), declared |-> Declared(f, i, j.plan[f].to)])
         /\ job' = [job EXCEPT ![p].stage = "turn", ![p].turns = @ \ {i}]
  /\ UNCHANGED <<log, now, taskNodes, cursors, pins, embeddings, passes, crashes,
                 overlapped>>

\* Variants with a fault: the length of what was read, not where the read ended; one
\* line behind that; the cursor moved while turns are left.
ReadEndRelative(r) == r.to - r.from

ReadEndBehind(r) == IF r.to > r.from THEN r.to - 1 ELSE r.to

ReadEnd(r) == r.to

SetCursorEarly(p) ==
  /\ At(p, "turn")
  /\ LET f == FileOf(job[p])
     IN  cursors' = InsertOrReplace(cursors, f, ReadEnd(job[p].plan[f]))
  /\ GoTo(p, "pin")
  /\ UNCHANGED <<log, now, taskNodes, versions, pins, embeddings, passes, crashes,
                 overlapped>>

\* The file's turns are done: the cursor moves to where the plan's read ended,
\* wherever it is now.
SetCursor(p) ==
  /\ At(p, "turn")
  /\ job[p].turns = {}
  /\ LET f == FileOf(job[p])
     IN  cursors' = InsertOrReplace(cursors, f, ReadEnd(job[p].plan[f]))
  /\ GoTo(p, "pin")
  /\ UNCHANGED <<log, now, taskNodes, versions, pins, embeddings, passes, crashes,
                 overlapped>>

\* Variant with a fault: a range is pinned only when it holds a turn.
ConsumedTurns(f, r) == TurnsOf(f, r) # {}

Consumed(f, r) == r.to > r.from

\* record_ingest: the digest of the consumed range goes to the audit log.
PinRange(p) ==
  /\ At(p, "pin")
  /\ LET f == FileOf(job[p])
         r == job[p].plan[f]
     IN  pins' = IF Consumed(f, r)
                 THEN pins \cup {[file |-> f, from |-> r.from, to |-> r.to]}
                 ELSE pins
  /\ GoTo(p, "embed")
  /\ UNCHANGED <<log, now, taskNodes, versions, cursors, embeddings, passes, crashes,
                 overlapped>>

VectorKey(f) == SessionOf[f]

\* The session's vector is replaced by one of this pass's turns of this file; a
\* failing embedder leaves it as it was.  Then the pass goes on, or ends.
EmbedSession(p) ==
  /\ At(p, "embed")
  /\ LET f     == FileOf(job[p])
         r     == job[p].plan[f]
         turns == {TurnAt(f, i) : i \in TurnsOf(f, r)}
         rest  == [g \in DOMAIN job[p].plan \ {f} |-> job[p].plan[g]]
     IN  /\ \/ turns # {} /\ embeddings' = InsertOrReplace(embeddings, VectorKey(f), turns)
            \/ UNCHANGED embeddings
         /\ job' = [job EXCEPT ![p] =
              IF DOMAIN rest = {} THEN Idle
              ELSE [Idle EXCEPT !.stage = "file", !.plan = rest]]
  /\ UNCHANGED <<log, now, taskNodes, versions, cursors, pins, passes, crashes,
                 overlapped>>

Crash(p) ==
  /\ ~At(p, "idle")
  /\ crashes < MaxCrashes
  /\ job' = [job EXCEPT ![p] = Idle]
  /\ crashes' = crashes + 1
  /\ UNCHANGED <<log, now, store, passes, overlapped>>

Observe(p) ==
  \/ \E f \in File : PlanFile(p, f) \/ TakeFile(p, f)
  \/ ReadPrior(p) \/ PutTaskNode(p) \/ AppendVersion(p)
  \/ SetCursor(p) \/ PinRange(p) \/ EmbedSession(p)

Next ==
  \/ \E f \in File : Write(f)
  \/ \E p \in Proc : Start(p) \/ Observe(p) \/ Crash(p)

Spec == Init /\ [][Next]_vars

\* A pass that has started is a running process: nothing but a crash stops it.
FairSpec == Spec /\ \A p \in Proc : WF_vars(Observe(p))

-----------------------------------------------------------------------------
(***************************************************************************)
(* Properties.                                                             *)
(***************************************************************************)

Turns ==
  UNION {{TurnAt(f, i) : i \in PromptLines(f, 0, Len(log[f]))} : f \in File}

Recorded == {versions[v].turn : v \in DOMAIN versions}

Copies(t) == Cardinality({v \in DOMAIN versions : versions[v].turn = t})

\* No turn is skipped: what lies behind a file's cursor has a version, whatever
\* crash came in between.  Passes that overlap are left out when timestamps can
\* tie, because two of them may then give two turns one version id and the
\* second is ignored.
NothingSkipped ==
  ~overlapped \/ StrictClock =>
    \A f \in File : \A i \in PromptLines(f, 0, CursorOf(f)) : TurnAt(f, i) \in Recorded

\* Passes that never overlap record a turn once, and once more at most for each
\* crash: the ordinal in the version id makes a repetition a new version.
RepeatsAreCrashes == ~overlapped => \A t \in Turns : Copies(t) <= 1 + crashes

\* Every line behind the cursor is covered by a digest in the audit log, so that
\* `brain0 verify` would notice a change of it, but for the range a pass has just
\* moved the cursor over.  A crash at that place leaves one range unpinned.
PinsCover ==
  LET Pinned(f, i) == \E r \in pins : r.file = f /\ r.from < i /\ i <= r.to
      Pinning(f, i) ==
        \E p \in Proc :
          /\ At(p, "pin") /\ job[p].file = {f}
          /\ job[p].plan[f].from < i /\ i <= job[p].plan[f].to
  IN  crashes = 0 =>
        \A f \in File : \A i \in 1..CursorOf(f) : Pinned(f, i) \/ Pinning(f, i)

\* A task node that points to a version not on record, as a crash between the two
\* statements leaves it, belongs to a turn the next pass reads again.
DanglingIsReread ==
  ~overlapped =>
    \A s \in DOMAIN taskNodes :
      taskNodes[s] \notin DOMAIN versions =>
        \E t \in Turns :
          /\ SessionOf[t.file] = s
          /\ t.line > CursorOf(t.file)
          /\ log[t.file][t.line].at = taskNodes[s].at

\* A session's vector is made of turns on record: no search hit without its task
\* versions, even after a crash.
EmbeddedIsRecorded ==
  ~overlapped \/ StrictClock =>
    \A s \in DOMAIN embeddings : embeddings[s] \subseteq Recorded

\* A cursor falls back only when passes have overlapped.
CursorAdvances ==
  [][~overlapped => \A f \in File : CursorOf(f)' >= CursorOf(f)]_vars

\* The abstract promise: at-least-once delivery with a resume point.
Promise == INSTANCE AtLeastOnce WITH
  length    <- [f \in File |-> Len(log[f])],
  prompts   <- Turns,
  delivered <- Recorded,
  frontier  <- [f \in File |-> CursorOf(f)]

\* Every pass delivers at least once, overlapping and crashing passes included.
DeliversAtLeastOnce == Promise!Spec

Planned(p, f, i) ==
  f \in DOMAIN job[p].plan /\ i \in PromptLines(f, job[p].plan[f].from, job[p].plan[f].to)

\* A turn a pass has planned gets its version, unless a pass crashes: nothing in
\* a pass waits for anything, and no other pass can keep it from its end.
PlannedIsRecorded ==
  \A p \in Proc, f \in File, i \in 1..MaxLines :
    Planned(p, f, i) ~> (TurnAt(f, i) \in Recorded \/ crashes > 0)

\* docs/agent-artifacts.md: "Turn = a user prompt and everything (assistant text +
\* tool calls) until the next prompt", and "a byte offset per file is a valid resume
\* cursor" - a call behind the cursor that follows a prompt is declared by the
\* version of that prompt's turn.
NoDeclarationLost ==
  \A f \in File : \A k \in 1..CursorOf(f) : \A i \in PromptLines(f, 0, k) :
    k \in Declared(f, i, k) =>
      \E v \in DOMAIN versions :
        versions[v].turn = TurnAt(f, i) /\ k \in versions[v].declared
=============================================================================
