----------------------------- MODULE Preflight -----------------------------
(***************************************************************************)
(* `brain0 preflight --staged` as a pre-commit hook.  The gate takes the   *)
(* list of staged files from git and then reads the files of the working   *)
(* tree, one after the other, while the agent may write and stage more;    *)
(* git commits what is staged when the gate has passed.                    *)
(***************************************************************************)
EXTENDS Naturals, FiniteSets

CONSTANTS
  Staged,      \* repo-relative paths
  Guarded,     \* those that match a sensitive-path glob
  ListedAs,    \* the line git prints for a path, trimmed: not the path itself where the
               \* name has quotes, control or non-ASCII characters, or blanks at an end
  WarnOnly,    \* --warn-only
  MaxWrites,   \* bound on the writes to the tree and the index
  MaxGates     \* bound on the commits tried

ASSUME PreflightAssumption ==
  /\ Guarded \subseteq Staged /\ ListedAs \in [Staged -> STRING]
  /\ WarnOnly \in BOOLEAN /\ MaxWrites \in Nat /\ MaxGates \in Nat

\* No file, two texts without secrets, one with a secret the detectors recognise, and a
\* symbolic link (to a text without secrets).
FileState == {"none", "clean", "other", "secret", "link"}

VARIABLES
  head, index, work,  \* contents per path: the last commit, the index, the working tree
  gate,               \* [stage, todo, criticals, warns]
  writes, gates,
  settled             \* since the gate began no file was written or staged, and what
                      \* is staged is what is in the tree

preflightVars == <<head, index, work, gate, writes, gates, settled>>

GateOff == [stage |-> "off", todo |-> {}, criticals |-> 0, warns |-> 0]

PreflightInit ==
  /\ head \in [Staged -> {"none", "clean", "link"}] /\ index = head /\ work = head
  /\ gate = GateOff /\ writes = 0 /\ gates = 0 /\ settled = TRUE

WriteFile ==
  /\ writes < MaxWrites
  /\ writes' = writes + 1
  /\ \E f \in Staged, c \in FileState : work' = [work EXCEPT ![f] = c]
  /\ settled' = FALSE
  /\ UNCHANGED <<head, index, gate, gates>>

\* git add.
Stage ==
  /\ writes < MaxWrites
  /\ writes' = writes + 1
  /\ \E f \in Staged : index' = [index EXCEPT ![f] = work[f]]
  /\ settled' = FALSE
  /\ UNCHANGED <<head, work, gate, gates>>

\* A file that git finds to be renamed: it is new, and another one is gone.
Renamed ==
  {r \in SUBSET {f \in Staged : head[f] = "none" /\ index[f] # "none"} :
     Cardinality(r) <= Cardinality({f \in Staged : head[f] # "none" /\ index[f] = "none"})}

\* A file that became a link, or a link that became a file.
Retyped(f) == /\ head[f] # "none" /\ index[f] # "none"
              /\ (head[f] = "link") # (index[f] = "link")

\* --diff-filter=ACM: added and modified, and neither deleted, nor renamed, nor retyped.
Filtered(renamed) ==
  {f \in Staged \ renamed : index[f] # head[f] /\ index[f] # "none" /\ ~Retyped(f)}

\* Variant with a fault: added files are left out.
ListedModified(renamed) == {ListedAs[f] : f \in {g \in Filtered(renamed) : head[g] # "none"}}

\* git diff --cached --name-only, its lines trimmed.
ListedByGit(renamed) == {ListedAs[f] : f \in Filtered(renamed)}

\* git commit runs the hook; with no file to check the gate fails.
StartGate ==
  /\ gate.stage = "off" /\ gates < MaxGates
  /\ gates' = gates + 1
  /\ \E renamed \in Renamed :
       /\ gate' = IF ListedByGit(renamed) = {} THEN GateOff
                  ELSE [GateOff EXCEPT !.stage = "check", !.todo = ListedByGit(renamed)]
       /\ settled' = (renamed = {} /\ \A f \in Staged : index[f] # head[f] => work[f] = index[f])
  /\ UNCHANGED <<head, index, work, writes>>

\* A line that is the name of no file is skipped.  A secret is critical, a sensitive path
\* is not.
CheckFile ==
  /\ gate.stage = "check"
  /\ \E f \in gate.todo :
       gate' = [gate EXCEPT
         !.todo = @ \ {f},
         !.criticals = @ + IF f \in Staged /\ work[f] = "secret" THEN 1 ELSE 0,
         !.warns = @ + IF f \in Guarded /\ work[f] # "none" THEN 1 ELSE 0]
  /\ UNCHANGED <<head, index, work, writes, gates, settled>>

Blocks == gate.criticals > 0 /\ ~WarnOnly

\* The gate ends, and git commits the index if it passed.
EndGate ==
  /\ gate.stage = "check" /\ gate.todo = {}
  /\ gate' = GateOff
  /\ head' = IF Blocks THEN head ELSE index
  /\ UNCHANGED <<index, work, writes, gates, settled>>

PreflightNext == WriteFile \/ Stage \/ StartGate \/ CheckFile \/ EndGate

PreflightSpec == PreflightInit /\ [][PreflightNext]_preflightVars

-----------------------------------------------------------------------------
\* A commit that the gate let pass brings no secret that the detectors recognise, in no
\* file git lists under its own name and whose type stays.  It takes that what was staged
\* was also in the tree and that neither was written while the gate ran, as the gate reads
\* the tree, and that git had found no file renamed, as such files are not listed
\* (cmd_preflight).
GateHolds ==
  [][(settled /\ ~WarnOnly) =>
       \A f \in Staged : ListedAs[f] = f /\ head'[f] = "secret"
                          => head[f] \in {"secret", "link"}]_preflightVars
=============================================================================
