---------------------------- MODULE AtLeastOnce ----------------------------
(***************************************************************************)
(* What the passive transcript ingest promises whoever reads the graph:    *)
(* turns are delivered at least once, and a file's resume point lies       *)
(* behind a line only when every turn before that line was delivered.  The *)
(* resume point may fall back, a delivery is never taken back.             *)
(***************************************************************************)
EXTENDS Naturals

CONSTANT File

VARIABLES
  length,     \* lines written to each file
  prompts,    \* turns so far: records [file, line]
  delivered,  \* turns on record
  frontier    \* where reading resumes: lines of each file that are behind it

vars == <<length, prompts, delivered, frontier>>

Before(f, n) == {t \in prompts : t.file = f /\ t.line <= n}

Init ==
  /\ length = [f \in File |-> 0]
  /\ prompts = {}
  /\ delivered = {}
  /\ frontier = [f \in File |-> 0]

Produce(f) ==
  /\ length' = [length EXCEPT ![f] = @ + 1]
  /\ prompts' \in {prompts, prompts \cup {[file |-> f, line |-> length[f] + 1]}}
  /\ UNCHANGED <<delivered, frontier>>

Deliver(t) ==
  /\ delivered' = delivered \cup {t}
  /\ UNCHANGED <<length, prompts, frontier>>

Resume(f, n) ==
  /\ Before(f, n) \subseteq delivered
  /\ frontier' = [frontier EXCEPT ![f] = n]
  /\ UNCHANGED <<length, prompts, delivered>>

Next ==
  \/ \E f \in File : Produce(f) \/ \E n \in 0..length[f] : Resume(f, n)
  \/ \E t \in prompts : Deliver(t)

Spec == Init /\ [][Next]_vars
=============================================================================
