------------------------------ MODULE Identity ------------------------------
(***************************************************************************)
(* Identity resolution of brain0 (crates/brain0-identity): one batch of    *)
(* observed artifacts of one level is matched against the artifacts the    *)
(* graph already knows in the same scope.                                  *)
(*                                                                         *)
(* A qualified path is a record of a file and a name, the name being       *)
(* WholeFile for the file itself, so that its container is its file.       *)
(* Files and names are naturals: only their order matters (the code sorts  *)
(* candidates by path).  A structural fingerprint is its set of shingles:  *)
(* equal sets stand for equal hashes.                                      *)
(***************************************************************************)
EXTENDS Naturals, FiniteSets

CONSTANTS
  ThresholdNum, ThresholdDen  \* IdentityConfig::rename_threshold as a ratio

ASSUME ThresholdAssumption ==
  /\ ThresholdNum \in Nat
  /\ ThresholdDen \in Nat \ {0}

WholeFile == 0

FilePath(f) == [file |-> f, name |-> WholeFile]

Container(path) == path.file

PathBefore(p, q) ==
  \/ p.file < q.file
  \/ p.file = q.file /\ p.name < q.name

\* The deterministic id of an artifact first observed at a path with a
\* fingerprint: a hash of both, which two artifacts share only when they
\* were born in the same place with the same shape.
Derive(path, fp) == [path |-> path, fp |-> fp]

-----------------------------------------------------------------------------
(***************************************************************************)
(* Jaccard similarity of two shingle sets, as a fraction; two empty sets   *)
(* are identical.                                                          *)
(***************************************************************************)
Jaccard(a, b) ==
  IF a \cup b = {} THEN [num |-> 1, den |-> 1]
  ELSE [num |-> Cardinality(a \cap b), den |-> Cardinality(a \cup b)]

SimilarEnough(a, b) ==
  LET j == Jaccard(a, b) IN j.num * ThresholdDen >= ThresholdNum * j.den

-----------------------------------------------------------------------------
(***************************************************************************)
(* A pairing is a set of records [known, obs]; a known artifact is a       *)
(* record [id, path, fp], an observation a record [path, fp].              *)
(***************************************************************************)
Touching(m, n) == m.known = n.known \/ m.obs = n.obs

OneToOne(M) == \A m, n \in M : Touching(m, n) => m = n

\* Variant with a fault: pass 1 wants the fingerprint to match as well.
SamePathAndPrint(known, observed) ==
  {m \in [known : known, obs : observed] :
     m.known.path = m.obs.path /\ m.known.fp = m.obs.fp}

SamePath(known, observed) ==
  {m \in [known : known, obs : observed] : m.known.path = m.obs.path}

\* Pass 1: every observation takes the first unconsumed known artifact of its
\* path.  Where a path has several, "first" follows the order the storage
\* returned, which for equal paths is arbitrary.
ExactPairings(known, observed) ==
  {M \in SUBSET SamePath(known, observed) :
     /\ OneToOne(M)
     /\ \A m \in SamePath(known, observed) \ M : \E n \in M : Touching(m, n)}

Candidates(disappeared, appeared) ==
  {m \in [known : disappeared, obs : appeared] :
     SimilarEnough(m.known.fp, m.obs.fp)}

\* The order in which pass 2 tries its candidates: similarity descending,
\* then the known path, then the observed path.
TriedBefore(m, n) ==
  LET i == Jaccard(m.known.fp, m.obs.fp)
      j == Jaccard(n.known.fp, n.obs.fp)
  IN  \/ i.num * j.den > j.num * i.den
      \/ /\ i.num * j.den = j.num * i.den
         /\ \/ PathBefore(m.known.path, n.known.path)
            \/ /\ m.known.path = n.known.path
               /\ PathBefore(m.obs.path, n.obs.path)

\* Pass 2: the outcome of taking candidates greedily in that order.  A
\* candidate is left out only because one that is not tried after it already
\* holds its known artifact or its observation.
GreedyPairings(candidates) ==
  {M \in SUBSET candidates :
     /\ OneToOne(M)
     /\ \A m \in candidates \ M :
          \E n \in M : Touching(m, n) /\ ~TriedBefore(m, n)}

Disappeared(known, exact) == known \ {m.known : m \in exact}

Appeared(observed, exact) == observed \ {m.obs : m \in exact}

Resolved(id, obs, kind) ==
  [id |-> id, path |-> obs.path, fp |-> obs.fp, kind |-> kind]

\* Passes 1 to 3 put together: one record per observation, and one of kind
\* "deleted" per known artifact that nothing continues.
Outcome(known, observed, exact, fuzzy) ==
  LET appeared    == Appeared(observed, exact)
      disappeared == Disappeared(known, exact)
      Edit(m)  == IF m.known.fp = m.obs.fp THEN "unchanged" ELSE "modified"
      Shift(m) == IF Container(m.known.path) = Container(m.obs.path)
                  THEN "renamed" ELSE "moved"
  IN  {Resolved(m.known.id, m.obs, Edit(m)) : m \in exact}
      \cup {Resolved(m.known.id, m.obs, Shift(m)) : m \in fuzzy}
      \cup {Resolved(Derive(o.path, o.fp), o, "added") :
              o \in appeared \ {m.obs : m \in fuzzy}}
      \cup {Resolved(k.id, k, "deleted") :
              k \in disappeared \ {m.known : m \in fuzzy}}

\* resolve: the outcomes of one batch (one, unless two known artifacts share
\* a path).
Resolutions(known, observed) ==
  UNION {{Outcome(known, observed, exact, fuzzy) :
            fuzzy \in GreedyPairings(Candidates(Disappeared(known, exact),
                                                Appeared(observed, exact)))} :
           exact \in ExactPairings(known, observed)}
=============================================================================
