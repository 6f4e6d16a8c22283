------------------------------- MODULE Egress -------------------------------
(***************************************************************************)
(* What an agent put in front of a remote model, and who hears of it.  A   *)
(* transcript grows line by line; a pass of `brain0 observe` reads its new *)
(* lines, matches the results of reading tool calls with the calls, and    *)
(* keeps the kinds of secrets found in them with the turn.  Over the       *)
(* turns of the index `brain0 guard` evaluates the policy once, and        *)
(* `brain0 guard --watch` again and again, to alert each new violation.    *)
(*                                                                         *)
(* One session in one transcript; TranscriptIngest has several, and the    *)
(* crashes of a pass.  Which texts hold which kinds of secrets is for the  *)
(* detectors of secret.rs: a result comes with its kinds.                  *)
(***************************************************************************)
EXTENDS Naturals, Sequences, FiniteSets, SequencesExt

CONSTANTS
  Adapter,    \* subset of {"claude", "codex"}
  File,       \* normalized paths that are read
  Sensitive,  \* those that match a sensitive-path glob
  External,   \* those outside of the repository
  SecretKind, \* kinds of secrets
  Model,      \* models an assistant line names
  MaxCalls,   \* bound on the tool calls, which are numbered
  Floor,      \* --min-severity: "warn" or "critical"
  MaxLines,   \* bound on the lines of the transcript
  MaxGuards   \* bound on the starts of the watching guard

ASSUME EgressAssumption ==
  /\ Adapter \subseteq {"claude", "codex"} /\ Sensitive \cup External \subseteq File
  /\ Floor \in {"warn", "critical"} /\ MaxLines \in Nat /\ MaxCalls \in Nat
  /\ MaxGuards \in Nat

Call == 1..MaxCalls
NoCall == 0
NoNode == "nonode"
UnknownModel == "unknown-model"

VARIABLES
  adapter,   \* the tool the transcript is of
  log,       \* lines of the transcript: [type, id, paths, kinds, model, text]
  cursor,    \* lines consumed
  ends,      \* where passes have ended
  queue,     \* turns of the pass that is running
  node,      \* model on the task's node; NoNode before there is a node
  named,     \* the pass has put the node for the turn at the head of the queue
  turns,     \* versions of the task: [opened, reads, secrets]
  guard,     \* the watching guard: [stage, model, todo, seen, alert, sent, audit]
  guards     \* starts of it

transcriptVars == <<adapter, log, cursor, ends, queue, node, named, turns>>
guardVars == <<guard, guards>>
egressVars == <<transcriptVars, guardVars>>

-----------------------------------------------------------------------------
(***************************************************************************)
(* The lines.                                                              *)
(***************************************************************************)
Line(type) ==
  [type |-> type, id |-> NoCall, paths |-> {}, kinds |-> {}, model |-> UnknownModel,
   text |-> FALSE]

Called == {log[i].id : i \in {k \in DOMAIN log : log[k].type = "call"}}
Answered == {log[i].id : i \in {k \in DOMAIN log : log[k].type = "user"}}

Say(line) ==
  /\ Len(log) < MaxLines
  /\ log' = Append(log, line)
  /\ UNCHANGED <<adapter, cursor, ends, queue, node, named, turns, guardVars>>

Prompt == Say([Line("user") EXCEPT !.text = TRUE])

\* parse_tool_use: what a call reads, by its tool.  A command may read several files; a
\* search reads what is below its target, if it is for content; an edit reads nothing.
ClaudeReads(tool) ==
  CASE tool \in {"Read", "NotebookRead"} -> {{f} : f \in File}
    [] tool = "Grep" -> {{}} \cup {{f} : f \in File}
    [] tool = "Bash" -> SUBSET File
    [] OTHER -> {{}}

\* parse_function_call: Codex reads by commands alone.
CodexReads(tool) ==
  IF tool \in {"exec_command", "shell", "bash", "local_shell"} THEN SUBSET File ELSE {{}}

ToolOf(a) ==
  IF a = "claude" THEN {"Read", "Grep", "Bash", "Edit"} ELSE {"shell", "apply_patch"}

\* Codex names no model.
ToolCall ==
  \E tool \in ToolOf(adapter), model \in Model :
    \E paths \in IF adapter = "claude" THEN ClaudeReads(tool) ELSE CodexReads(tool) :
    /\ Called # Call
    /\ Say([Line("call") EXCEPT !.id = Cardinality(Called) + 1, !.paths = paths,
              !.model = IF adapter = "claude" THEN model ELSE UnknownModel])

\* A user line of Claude Code may hold the result of a call and a prompt.
ToolResult ==
  \E id \in Called \ Answered, kinds \in SUBSET SecretKind, text \in BOOLEAN :
    /\ text => adapter = "claude"
    /\ Say([Line("user") EXCEPT !.id = id, !.kinds = kinds, !.text = text])

-----------------------------------------------------------------------------
(***************************************************************************)
(* read_incremental: a fold over the lines behind the cursor.              *)
(***************************************************************************)
NoReads == [c \in Call |-> {}]

Parser0 == [read |-> <<>>, current |-> <<>>, calls |-> NoReads, at |-> cursor]

\* The result of a reading call goes to the turn that is open, for each of its paths.
Attach(p, line) ==
  IF p.current = <<>> \/ line.id = NoCall \/ line.kinds = {} \/ p.calls[line.id] = {}
  THEN p.current
  ELSE <<[p.current[1] EXCEPT
            !.secrets = Append(@, [paths |-> p.calls[line.id], kinds |-> line.kinds])]>>

\* Variant with a fault: calls are remembered beyond their turn.
CallsBehind(p) == p.calls

CallsAtPrompt(p) == NoReads

EmptyTurn(i) == [opened |-> i, reads |-> {}, secrets |-> <<>>, model |-> UnknownModel]

UserLine(p, line) ==
  LET q == [p EXCEPT !.current = Attach(p, line)]
  IN  IF line.text
      THEN [q EXCEPT !.read = @ \o q.current, !.current = <<EmptyTurn(q.at)>>,
                     !.calls = CallsAtPrompt(p)]
      ELSE q

\* The first model that is named stays; calls without paths are not remembered.
CallLine(p, line) ==
  IF p.current = <<>> THEN p
  ELSE [p EXCEPT
          !.current = <<[p.current[1] EXCEPT
             !.reads = @ \cup line.paths,
             !.model = IF @ = UnknownModel THEN line.model ELSE @]>>,
          !.calls = [@ EXCEPT ![line.id] = line.paths]]

ParseLine(p, line) ==
  LET q == [p EXCEPT !.at = @ + 1]
  IN  IF line.type = "user" THEN UserLine(q, line) ELSE CallLine(q, line)

ReadIncremental ==
  LET parse[i \in 0..Len(log) - cursor] ==
        IF i = 0 THEN Parser0 ELSE ParseLine(parse[i - 1], log[cursor + i])
      p == parse[Len(log) - cursor]
  IN  p.read \o p.current

EgressInit ==
  /\ adapter \in Adapter
  /\ log = <<>> /\ cursor = 0 /\ ends = {0} /\ queue = <<>> /\ node = NoNode /\ named = FALSE
  /\ turns = <<>>
  /\ guard = [stage |-> "down", model |-> NoNode, todo |-> {}, seen |-> {}, alert |-> {},
              sent |-> {}, audit |-> {}]
  /\ guards = 0

\* Lines that open no turn are consumed with the rest.
Pass ==
  /\ queue = <<>>
  /\ cursor < Len(log)
  /\ queue' = ReadIncremental
  /\ cursor' = Len(log)
  /\ ends' = ends \cup {Len(log)}
  /\ UNCHANGED <<adapter, log, node, named, turns, guardVars>>

\* ingest_turn puts the task's node, with this turn's model or the one it had...
PutNode ==
  /\ queue # <<>> /\ ~named
  /\ LET m == Head(queue).model
     IN  node' = IF m # UnknownModel THEN m ELSE IF node = NoNode THEN UnknownModel ELSE node
  /\ named' = TRUE
  /\ UNCHANGED <<adapter, log, cursor, ends, queue, turns, guardVars>>

\* ... and then the version, with its reads and the kinds of secrets in them.
AppendVersion ==
  /\ named
  /\ LET t == Head(queue)
     IN  turns' = Append(turns, [opened |-> t.opened, reads |-> t.reads,
                                 secrets |-> t.secrets])
  /\ queue' = Tail(queue)
  /\ named' = FALSE
  /\ UNCHANGED <<adapter, log, cursor, ends, node, guardVars>>

-----------------------------------------------------------------------------
(***************************************************************************)
(* evaluate, collect_findings and guard --strict.                          *)
(***************************************************************************)
Violations(f, kinds) ==
  [path : {f}, rule : {"secret-in-read"}, kind : kinds, severity : {"critical"}]
    \cup (IF f \in Sensitive
          THEN {[path |-> f, rule |-> "sensitive-path", kind |-> "", severity |-> "warn"]}
          ELSE {})
    \cup (IF f \in External
          THEN {[path |-> f, rule |-> "external-read", kind |-> "", severity |-> "warn"]}
          ELSE {})

\* Collected by path into a map: of several results of one turn the last one counts.
SecretsOf(turn, f) ==
  LET of == SelectSeq(turn.secrets, LAMBDA s : f \in s.paths)
  IN  IF of = <<>> THEN {} ELSE Last(of).kinds

\* A path counts where it was first read.
FirstReadOf(f, k) == f \in turns[k].reads /\ \A i \in 1..k - 1 : f \notin turns[i].reads

Findings ==
  UNION {Violations(x[1], SecretsOf(turns[x[2]], x[1])) :
           x \in {y \in File \X DOMAIN turns : FirstReadOf(y[1], y[2])}}

StrictPasses == \A v \in Findings : v.severity # "critical"

-----------------------------------------------------------------------------
(***************************************************************************)
(* guard --watch: a tick reads the task's node, then its versions, and     *)
(* alerts the violations it has not seen, one after the other.             *)
(***************************************************************************)
StartGuard ==
  /\ guard.stage = "down"
  /\ guards < MaxGuards
  /\ guards' = guards + 1
  /\ guard' = [stage |-> "tick", model |-> NoNode, todo |-> {}, seen |-> {}, alert |-> {},
               sent |-> {}, audit |-> {}]
  /\ UNCHANGED transcriptVars

ReadNode ==
  /\ guard.stage = "tick"
  /\ node # NoNode
  /\ guard' = [guard EXCEPT !.stage = "versions", !.model = node]
  /\ UNCHANGED <<transcriptVars, guards>>

AtFloor(v) == Floor = "warn" \/ v.severity = "critical"

ReadVersions ==
  /\ guard.stage = "versions"
  /\ guard' = [guard EXCEPT !.stage = "loop", !.todo = {v \in Findings : AtFloor(v)}]
  /\ UNCHANGED <<transcriptVars, guards>>

\* The kind of the secret is not in the key.
Key(v) == <<v.path, v.rule, guard.model>>

Fresh == {v \in guard.todo : Key(v) \notin guard.seen}

\* Variant with a fault: a sink that fails is passed over.
StageOnFailure == "loop"

\* An alert that cannot be delivered ends the guard.
AfterFailure == "down"

Alert ==
  /\ guard.stage = "loop"
  /\ \E v \in Fresh :
       guard' = [guard EXCEPT !.stage = "audit", !.seen = @ \cup {Key(v)}, !.alert = {Key(v)},
                              !.sent = @ \cup {Key(v)}]
  /\ UNCHANGED <<transcriptVars, guards>>

\* Variant with a fault: the audit entry is written before the alert is sent.
AlertFailsAudited ==
  /\ guard.stage = "loop"
  /\ \E v \in Fresh :
       guard' = [guard EXCEPT !.stage = AfterFailure, !.seen = @ \cup {Key(v)},
                              !.audit = @ \cup {Key(v)}]
  /\ UNCHANGED <<transcriptVars, guards>>

AlertFails ==
  /\ guard.stage = "loop"
  /\ \E v \in Fresh :
       guard' = [guard EXCEPT !.stage = AfterFailure, !.seen = @ \cup {Key(v)}]
  /\ UNCHANGED <<transcriptVars, guards>>

AuditAlert ==
  /\ guard.stage = "audit"
  /\ guard' = [guard EXCEPT !.stage = "loop", !.audit = @ \cup guard.alert, !.alert = {}]
  /\ UNCHANGED <<transcriptVars, guards>>

EndTick ==
  /\ guard.stage = "loop"
  /\ Fresh = {}
  /\ guard' = [guard EXCEPT !.stage = "tick", !.todo = {}, !.model = NoNode]
  /\ UNCHANGED <<transcriptVars, guards>>

KillGuard ==
  /\ guard.stage # "down"
  /\ guard' = [guard EXCEPT !.stage = "down"]
  /\ UNCHANGED <<transcriptVars, guards>>

GuardStep == ReadNode \/ ReadVersions \/ Alert \/ AlertFails \/ AuditAlert \/ EndTick

EgressNext ==
  \/ Prompt \/ ToolCall \/ ToolResult
  \/ Pass \/ PutNode \/ AppendVersion
  \/ StartGuard \/ GuardStep \/ KillGuard

\* The guard loops for as long as it runs, and a pass goes on to its end.
EgressFairness == WF_egressVars(GuardStep) /\ WF_egressVars(PutNode \/ AppendVersion)

EgressSpec == EgressInit /\ [][EgressNext]_egressVars /\ EgressFairness

-----------------------------------------------------------------------------
\* The prompt that opens the turn of a line, 0 for none.
Opener(j) ==
  LET before == {i \in 1..j - 1 : log[i].type = "user" /\ log[i].text}
  IN  IF before = {} THEN 0 ELSE CHOOSE i \in before : \A k \in before : k <= i

OnePass(i, j) == \A e \in ends : ~(i <= e /\ e < j)

OfTurn(k) == {j \in DOMAIN log : /\ Opener(j) = turns[k].opened
                                 /\ j <= cursor /\ OnePass(turns[k].opened, j)}

\* A secret is charged to the turn, and to the files, whose reading brought it: a
\* turn holds the paths of its calls, and what the results to these very calls held,
\* as far as the pass that opened the turn reached.  Results of another turn's calls,
\* or to calls an earlier pass has read, count for nothing.
SecretsOfTheTurn ==
  \A k \in DOMAIN turns :
    LET calls == {i \in OfTurn(k) : log[i].type = "call"}
        pairs == {x \in calls \X OfTurn(k) :
                    x[1] < x[2] /\ log[x[2]].type = "user" /\ log[x[2]].id = log[x[1]].id}
    IN  /\ turns[k].reads = UNION {log[i].paths : i \in calls}
        /\ Range(turns[k].secrets) =
             {s \in [paths : {log[x[1]].paths : x \in pairs} \ {{}},
                     kinds : {log[x[2]].kinds : x \in pairs} \ {{}}] :
                \E x \in pairs : s.paths = log[x[1]].paths /\ s.kinds = log[x[2]].kinds}

\* The audit trail holds the alerts that were sent, and no other; a guard that died
\* may have sent one more.
AuditIsWhatWasSent ==
  /\ guard.audit \subseteq guard.sent
  /\ guard.stage \in {"tick", "versions", "loop"} => guard.audit = guard.sent
  /\ Cardinality(guard.sent \ guard.audit) <= 1

Reported(f, rule) == \E v \in Findings : v.path = f /\ v.rule = rule /\ AtFloor(v)

\* The watching guard alerts every violation that comes to be on record, or has gone
\* down: none is passed over because a sink failed, or because the index moved on
\* while it read.  Under the fairness that its loop takes its steps.  An external
\* read is like a sensitive path here.
EveryFindingAlerted ==
  \A f \in File, rule \in {"secret-in-read", "sensitive-path"} :
    Reported(f, rule) ~>
      (guard.stage = "down" \/ \E key \in guard.sent : key[1] = f /\ key[2] = rule)

\* docs/governance.md:160: guard --strict is to "fail if the index shows a secret
\* already reached a model".
StrictSeesEverySecret ==
  StrictPasses => \A k \in DOMAIN turns : turns[k].secrets = <<>>
=============================================================================
