------------------------------- MODULE Drift -------------------------------
(***************************************************************************)
(* What an agent says it changed, and what changed.  The turns of a        *)
(* session declare files; commits change them, before the turn that tells  *)
(* of it is observed, or after.  `brain0 ingest` records the commits there *)
(* are, `brain0 observe` a turn at a time: it compares all that the        *)
(* session has declared with all that is on record around the session,     *)
(* keeps the difference with the turn, and links the session to what       *)
(* changed.  From these links the provenance of a commit is told.          *)
(*                                                                         *)
(* GraphIngest opens up the statements of an ingest, TranscriptIngest      *)
(* those of an observe; here each is one step.                             *)
(***************************************************************************)
EXTENDS Naturals, Sequences, FiniteSets, SequencesExt

CONSTANTS
  Artifact,   \* file nodes
  NameOf,     \* the path each has first
  Rename,     \* a further path, which an artifact may be moved to
  Outside,    \* an absolute path outside of the repository
  Declarable, \* sets of paths a turn may declare
  Window,     \* RECONCILE_WINDOW_SECS
  MaxTime,    \* bound on time
  MaxCommits, \* bound on the commits
  MaxTurns    \* bound on the turns of the session

ASSUME DriftAssumption ==
  /\ Window \in Nat /\ MaxTime \in Nat /\ MaxCommits \in Nat /\ MaxTurns \in Nat
  /\ NameOf \in [Artifact -> STRING]

NoDrift == <<>>

VARIABLES
  now,       \* time
  git,       \* commits: [at, names], names: what they change, and its path then
  ingested,  \* commits on record
  talk,      \* turns of the session's transcripts: [at, declared]
  heard,     \* turns observed
  story,     \* versions of the session's task in the order they are read: [at, declared, drift]
  links,     \* edges of the session's task: artifact -> commit
  known,     \* commits on record when a turn was last observed
  inOrder    \* turns were observed in the order of their times, no two at one time

driftVars == <<now, git, ingested, talk, heard, story, links, known, inOrder>>

DriftInit ==
  /\ now = 0 /\ git = <<>> /\ ingested = 0 /\ talk = <<>> /\ heard = {} /\ story = <<>>
  /\ links = [a \in {} |-> 0] /\ known = 0 /\ inOrder = TRUE

\* The path of an artifact after the first n commits.
PathAt(a, n) ==
  LET of == {c \in 1..n : a \in DOMAIN git[c].names}
  IN  IF of = {} THEN NameOf[a]
      ELSE git[CHOOSE c \in of : \A d \in of : d <= c].names[a]

Tick ==
  /\ now < MaxTime
  /\ now' = now + 1
  /\ UNCHANGED <<git, ingested, talk, heard, story, links, known, inOrder>>

Free(path) == \A a \in Artifact : PathAt(a, Len(git)) # path

MakeCommit ==
  /\ Len(git) < MaxCommits
  /\ \E changed \in (SUBSET Artifact) \ {{}}, moved \in SUBSET Artifact :
       /\ moved \subseteq changed /\ Cardinality(moved) <= 1
       /\ moved # {} => Free(Rename)
       /\ git' = Append(git, [at |-> now,
            names |-> [a \in changed |-> IF a \in moved THEN Rename
                                         ELSE PathAt(a, Len(git))]])
  /\ UNCHANGED <<now, ingested, talk, heard, story, links, known, inOrder>>

Speak ==
  /\ Len(talk) < MaxTurns
  /\ \E declared \in Declarable :
       talk' = Append(talk, [at |-> now, declared |-> declared])
  /\ UNCHANGED <<now, git, ingested, heard, story, links, known, inOrder>>

\* brain0 ingest.
IngestCommits ==
  /\ ingested < Len(git)
  /\ ingested' = Len(git)
  /\ UNCHANGED <<now, git, talk, heard, story, links, known, inOrder>>

-----------------------------------------------------------------------------
(***************************************************************************)
(* brain0 observe: one turn of ingest_turn and reconcile.                  *)
(***************************************************************************)
\* Variant with a fault: each turn is compared over a window of its own.
SessionStartOfTurn(turn) == turn.at

\* The first version on record, or this turn.
SessionStart(turn) == IF story = <<>> THEN turn.at ELSE story[1].at

Within(c, from, to) == git[c].at + Window >= from /\ git[c].at <= to + Window

\* actual_changes: the versions of files around the session so far.
ActualChanges(turn) ==
  {x \in Artifact \X (1..ingested) :
     x[1] \in DOMAIN git[x[2]].names /\ Within(x[2], SessionStart(turn), turn.at)}

\* Variant with a fault: a turn is compared with its own declarations only.
DeclaredInTurn(turn) == turn.declared \ {Outside}

\* Whatever lies outside of the repository is left out of the comparison.
CumulativeDeclared(turn) ==
  (UNION ({turn.declared} \cup {v.declared : v \in Range(story)})) \ {Outside}

ComputeDrift(declared, actual) ==
  [undeclared |-> actual \ declared, phantom |-> declared \ actual]

\* Nothing is compared when nothing has changed.
DriftOf(turn) ==
  LET actual == ActualChanges(turn)
  IN  IF actual = {} THEN NoDrift
      ELSE <<ComputeDrift(CumulativeDeclared(turn), {PathAt(x[1], ingested) : x \in actual})>>

\* Gap-filling.  The edge of a task and an artifact is kept as it was first put; of
\* versions at one time, ids decide which that is.
Earliest(a, actual) ==
  {x[2] : x \in {y \in actual : y[1] = a /\ \A z \in actual : z[1] = a =>
                                               git[y[2]].at <= git[z[2]].at}}

LinkAll(actual, l) ==
  LET touched == {x[1] : x \in actual}
  IN  /\ DOMAIN l = DOMAIN links \cup touched
      /\ \A a \in DOMAIN l : IF a \in DOMAIN links THEN l[a] = links[a]
                             ELSE l[a] \in Earliest(a, actual)

\* A session has several transcripts: turns are not observed in the order of time.
\* Versions are read by time, and those of one time in the order of their ids.
ObserveTurn ==
  \E k \in DOMAIN talk \ heard :
    LET turn == talk[k]
    IN  /\ heard' = heard \cup {k}
        /\ inOrder' = (inOrder /\ \A j \in heard : talk[j].at < turn.at)
        /\ known' = ingested
        /\ \E i \in 1..Len(story) + 1 :
             /\ \A j \in DOMAIN story : IF j < i THEN story[j].at <= turn.at
                                        ELSE story[j].at >= turn.at
             /\ story' = InsertAt(story, i, [at |-> turn.at, declared |-> turn.declared,
                                             drift |-> DriftOf(turn)])
        /\ links' \in {l \in [DOMAIN links \cup {x[1] : x \in ActualChanges(turn)} ->
                                1..ingested] : LinkAll(ActualChanges(turn), l)}
        /\ UNCHANGED <<now, git, ingested, talk>>

DriftNext == Tick \/ MakeCommit \/ Speak \/ IngestCommits \/ ObserveTurn

DriftSpec == DriftInit /\ [][DriftNext]_driftVars

-----------------------------------------------------------------------------
(***************************************************************************)
(* What is told of it.                                                     *)
(***************************************************************************)
\* brain0 report and brain0 today: the last comparison is the session's verdict.
Verdict ==
  LET compared == {i \in DOMAIN story : story[i].drift # NoDrift}
  IN  IF compared = {} THEN NoDrift
      ELSE story[CHOOSE i \in compared : \A j \in compared : j <= i].drift

\* brain0 provenance: a session is behind a commit that made the version of a link.
IsBehind(c) == \E a \in DOMAIN git[c].names : a \in DOMAIN links /\ links[a] = c

First == CHOOSE k \in heard : \A j \in heard : talk[k].at <= talk[j].at
LastHeard == CHOOSE k \in heard : \A j \in heard : talk[k].at >= talk[j].at

Around(c) == Within(c, talk[First].at, talk[LastHeard].at)

\* "Cumulative-vs-cumulative converges: the latest version's drift is the session
\* verdict."  Whatever turn declared it, whichever commit brought it, and whether
\* the commit was there when the turn was observed: the verdict is what the turns
\* declare against what the commits around the session change.  It takes that these
\* commits were on record when the last turn was observed, as nothing is compared
\* again later, and turns observed in the order of their times, as others are not
\* the last to be read.
VerdictConverges ==
  LET around == {c \in DOMAIN git : Around(c)}
      changed == {PathAt(x[1], known) :
                    x \in {y \in Artifact \X around : y[1] \in DOMAIN git[y[2]].names}}
      declared == (UNION {talk[k].declared : k \in heard}) \ {Outside}
  IN  (heard # {} /\ inOrder /\ around \subseteq 1..known) =>
        Verdict = IF around = {} THEN NoDrift
                  ELSE <<[undeclared |-> changed \ declared, phantom |-> declared \ changed]>>

\* "Everything that actually changed is linked to the agent's task even if the agent
\* never mentioned it": every artifact that a commit on record changed around the
\* session is linked, by no commit from elsewhere; and a commit that alone changed
\* an artifact there has the session in its provenance.
ChangesHaveTheirAgent ==
  (heard # {} /\ inOrder) =>
    /\ \A c \in {d \in 1..known : Around(d)} : \A a \in DOMAIN git[c].names :
         /\ a \in DOMAIN links
         /\ (\A d \in 1..known \ {c} : Around(d) => a \notin DOMAIN git[d].names) => IsBehind(c)
    /\ \A a \in DOMAIN links : Around(links[a])
=============================================================================
