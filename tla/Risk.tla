-------------------------------- MODULE Risk --------------------------------
(***************************************************************************)
(* The risk of artifacts.  At the end of an ingest, an observe or a        *)
(* checkpoint the versions on record give every symbol and file two        *)
(* scores: an a-priori one from its churn, its last diff, what depends on  *)
(* it and undeclared changes, and an a-posteriori one from reverts and     *)
(* fixes.  Files, modules and the repo then take the worst below them.     *)
(* Commits and turns may be recorded meanwhile, one artifact at a time,    *)
(* and a run may die.  What couples files is counted from the versions of  *)
(* one file after the other, and put edge by edge.                         *)
(*                                                                         *)
(* Scores are in thousandths, factors in hundredths, both cut off; the     *)
(* unit of time is one half-life of churn, so that only commits of one     *)
(* time are within the fix window.                                         *)
(***************************************************************************)
EXTENDS Naturals, Sequences, FiniteSets, SequencesExt

CONSTANTS
  Function,       \* symbols
  SourceFile,     \* files
  Folder,         \* modules
  FileOf,         \* the file of each symbol
  FirstFolder,    \* the module of each file at first
  Shape,          \* structural fingerprints
  Size,           \* lines a change of content counts
  MinSupport,     \* co-change: commits that couple two files
  MaxCommitFiles, \* co-change: files of a commit that is not taken for a bulk one
  Commits,        \* sets of files that commits change
  Careless,       \* files a turn may change without declaring them
  MaxChanges,     \* bound on the commits
  MaxAge,         \* bound on time
  MaxRuns         \* bound on the runs

Repo == "repo"

\* Nodes of different kinds are different nodes.
ASSUME RiskAssumption ==
  /\ FileOf \in [Function -> SourceFile] /\ FirstFolder \in [SourceFile -> Folder]
  /\ Commits \subseteq SUBSET SourceFile /\ Careless \subseteq SourceFile /\ Size \subseteq Nat
  /\ MinSupport \in Nat /\ MaxCommitFiles \in Nat /\ MaxChanges \in Nat /\ MaxAge \in Nat /\ MaxRuns \in Nat
  /\ IsFiniteSet(Function) /\ IsFiniteSet(SourceFile) /\ IsFiniteSet(Folder) /\ SourceFile # {}
  /\ Function \cap SourceFile = {} /\ (Function \cup SourceFile) \cap Folder = {}
  /\ Repo \notin Function \cup SourceFile \cup Folder

Leaf == Function \cup SourceFile
Scored == Leaf \cup Folder \cup {Repo}
\* Nodes come in the order of their paths, one like any other.
Foremost(nodes) == {n \in nodes : n = CHOOSE m \in nodes : TRUE}

Safe == [prior |-> 0, post |-> 0]

VARIABLES
  recording, \* the commit that is being recorded: the prints still to come, lines, folders
  history,  \* versions of the leaves, oldest first: [at, lines, print, commit]
  folder,   \* the module of each file
  surprise, \* paths of files that were found to be changed without being declared
  coupled,  \* edges ARTIFACT_DEPENDS_ON between files
  risk,     \* scores on the nodes
  scoring,  \* a run of recompute_risk: where it is, what it has read, what it has to do
  changes, age, runs,
  fresh,    \* the last run came to its end, and nothing was recorded since it began
  torn,     \* edges that a run put when it died before it put them the other way, too
  caught    \* commits that a run counted when only some of their files were on record

\* The plan is a sequence of tasks, [node, do].
NoScoring == [stage |-> "idle", unread |-> {}, seen |-> {}, links |-> {}, plan |-> <<>>,
              surprise |-> {}, now |-> 0, stale |-> FALSE]

scoreVars == <<runs, coupled, risk, scoring, fresh, torn, caught>>
recordVars == <<recording, history, folder, surprise, changes, age>>
riskVars == <<recordVars, scoreVars>>

RiskInit ==
  /\ history = [n \in Leaf |-> <<>>]
  /\ folder = FirstFolder
  /\ recording = [prints |-> <<>>, lines |-> 0, folder |-> FirstFolder]
  /\ surprise = {} /\ coupled = {}
  /\ risk = [n \in Scored |-> Safe]
  /\ scoring = NoScoring
  /\ changes = 0 /\ age = 0 /\ runs = 0
  /\ fresh = FALSE
  /\ torn = {} /\ caught = {}

(***************************************************************************)
(* What is recorded.                                                       *)
(***************************************************************************)
Recorded ==
  /\ fresh' = FALSE
  /\ scoring' = [scoring EXCEPT !.stale = scoring.stage # "idle"]
  /\ UNCHANGED <<runs, coupled, risk, torn, caught>>

Version(print, lines) == [at |-> age, lines |-> lines, print |-> print, commit |-> changes]

\* An artifact of the same print is unchanged and gets no version.  Time counts from
\* the first commit.
Edit ==
  /\ DOMAIN recording.prints = {} /\ changes < MaxChanges
  /\ age' \in {age} \cup {t \in {age + 1} : 0 < changes /\ t <= MaxAge}
  /\ \E files \in Commits, print \in Shape, lines \in Size :
       LET touched == files \cup {s \in Function : FileOf[s] \in files}
           changed == {n \in touched : history[n] = <<>> \/ Last(history[n]).print # print}
       IN  recording' = [prints |-> [n \in changed |-> print], lines |-> lines, folder |-> folder]
  /\ changes' = changes + 1
  /\ UNCHANGED <<history, folder, surprise, scoreVars>>

\* A rename and a deletion leave the print as it is.
WithFile(f) == {f} \cup {s \in Function : FileOf[s] = f}

SamePrint(f, to) ==
  /\ DOMAIN recording.prints = {} /\ changes < MaxChanges /\ history[f] # <<>>
  /\ recording' = [prints |-> [n \in {m \in WithFile(f) : history[m] # <<>>} |->
                                 Last(history[n]).print],
                   lines |-> 0, folder |-> to]
  /\ changes' = changes + 1
  /\ UNCHANGED <<history, folder, surprise, age, scoreVars>>

Move ==
  \E f \in SourceFile, d \in Folder :
    d # folder[f] /\ SamePrint(f, [folder EXCEPT ![f] = d])

Delete == \E f \in SourceFile : SamePrint(f, folder)

\* One artifact of the commit.  Runs may read between them, and an ingest that dies leaves
\* the rest to the next one.
Record ==
  /\ \E n \in Foremost(DOMAIN recording.prints) :
       /\ history' = [history EXCEPT ![n] = Append(@, Version(recording.prints[n], recording.lines))]
       /\ folder' = IF n \in SourceFile THEN [folder EXCEPT ![n] = recording.folder[n]] ELSE folder
       /\ recording' = [recording EXCEPT !.prints = Restrict(@, DOMAIN @ \ {n})]
  /\ Recorded
  /\ UNCHANGED <<surprise, changes, age>>

\* A turn is reconciled (see Drift).  What it finds is kept under the path of the file.
PathOf(f) == <<f, folder[f]>>

Surprise ==
  /\ \E f \in Careless :
       /\ history[f] # <<>> /\ PathOf(f) \notin surprise
       /\ surprise' = surprise \cup {PathOf(f)}
  /\ Recorded
  /\ UNCHANGED <<recording, history, folder, changes, age>>

-----------------------------------------------------------------------------
(***************************************************************************)
(* The scores.                                                             *)
(***************************************************************************)
\* 1 - the product of (1 - value * weight), a factor more.
NoisyOr(p, value, weight) == 1000 - ((1000 - p) * (10000 - value * weight)) \div 10000

Saturate(x, half) == (100 * x) \div (x + half)

Latest ==
  LET times == {v.at : v \in UNION {Range(history[f]) : f \in SourceFile}}
  IN  IF times = {} THEN 0 ELSE CHOOSE t \in times : \A u \in times : u <= t

\* In hundredths, so that the half of the knee is 300.
Decayed(lives) ==
  LET left[i \in 0..lives] == IF i = 0 THEN 100 ELSE left[i - 1] \div 2
  IN  left[lives]

DecayedChurn(n, now) ==
  LET past(v) == IF v.at < now THEN now - v.at ELSE 0
      sum[i \in 0..Len(history[n])] ==
        IF i = 0 THEN 0 ELSE sum[i - 1] + Decayed(past(history[n][i]))
  IN  sum[Len(history[n])]

LatestDiffSize(n) == IF history[n] = <<>> THEN 0 ELSE Saturate(Last(history[n]).lines, 50)

Degree(n) == Cardinality({e \in coupled : e[1] = n}) + Cardinality({e \in coupled : e[2] = n})

\* The dependents of a file, and theirs, but for itself.
Dependents(n) ==
  LET step[k \in 0..Cardinality(SourceFile)] ==
        IF k = 0 THEN {n}
        ELSE step[k - 1] \cup {e[1] : e \in {d \in coupled : d[2] \in step[k - 1]}}
  IN  step[Cardinality(SourceFile)] \ {n}

BlastRadius(n) == Cardinality(Dependents(n))

AprioriScore(n, found, now) ==
  LET coupling == NoisyOr(NoisyOr(0, Saturate(Degree(n), 5), 50), Saturate(BlastRadius(n), 8), 70)
      churn    == NoisyOr(coupling, Saturate(DecayedChurn(n, now), 300), 50)
  IN  NoisyOr(NoisyOr(churn, LatestDiffSize(n), 45),
              IF n \in SourceFile /\ PathOf(n) \in found THEN 100 ELSE 0, 60)

\* A small correction of a larger change, made at once.
IsFix(first, second) ==
  /\ first.at = second.at
  /\ second.lines > 0 /\ second.lines < first.lines
  /\ second.lines <= 5 \/ second.lines <= first.lines \div 4

ImmediateFix(n) ==
  \E i \in 1..Len(history[n]) - 1 : IsFix(history[n][i], history[n][i + 1])

\* A print that is there twice.
Reverted(n) ==
  \E i, j \in DOMAIN history[n] : i < j /\ history[n][i].print = history[n][j].print

AposterioriScore(n) ==
  NoisyOr(NoisyOr(0, IF Reverted(n) THEN 100 ELSE 0, 100), IF ImmediateFix(n) THEN 100 ELSE 0, 60)

-----------------------------------------------------------------------------
(***************************************************************************)
(* recompute_risk.                                                         *)
(***************************************************************************)
\* The commits a file was changed in, and those all were: pairs of a commit and a file.
TouchedIn(f) == {<<v.commit, f>> : v \in Range(history[f])}
Touched == UNION {TouchedIn(f) : f \in SourceFile}

FilesOf(c, touched) == {f \in SourceFile : <<c, f>> \in touched}

\* Variant with a fault: bulk commits couple their files, too.
CouplingWithBulk(c, touched) == Cardinality(FilesOf(c, touched)) >= 2

CouplingCommit(c, touched) == Cardinality(FilesOf(c, touched)) \in 2..MaxCommitFiles

Support(f, g, touched) ==
  {c \in 1..changes : CouplingCommit(c, touched) /\ {f, g} \subseteq FilesOf(c, touched)}

Earned(touched) ==
  {e \in SourceFile \X SourceFile :
     e[1] # e[2] /\ Cardinality(Support(e[1], e[2], touched)) >= MinSupport}

StartScoring ==
  /\ scoring.stage = "idle" /\ runs < MaxRuns
  /\ scoring' = [NoScoring EXCEPT !.stage = "count", !.unread = SourceFile]
  /\ fresh' = FALSE
  /\ runs' = runs + 1
  /\ UNCHANGED <<recordVars, coupled, risk, torn, caught>>

\* The commits of which a run that has seen this has not seen all there will be.
Halved(seen) ==
  {c \in 1..changes : \/ FilesOf(c, seen) # FilesOf(c, Touched)
                      \/ c = changes /\ DOMAIN recording.prints # {}}

\* recompute_cochange_coupling reads the versions of a file, and after the last one
\* knows what is to be linked.
CountFile ==
  /\ scoring.stage = "count"
  /\ \E f \in Foremost(scoring.unread) :
       LET seen == scoring.seen \cup TouchedIn(f)
       IN  IF scoring.unread = {f}
           THEN /\ scoring' = [scoring EXCEPT !.stage = "link", !.unread = {}, !.seen = {},
                                              !.links = Earned(seen)]
                /\ caught' = caught \cup Halved(seen)
           ELSE /\ scoring' = [scoring EXCEPT !.unread = @ \ {f}, !.seen = seen]
                /\ UNCHANGED caught
  /\ UNCHANGED <<recordVars, runs, coupled, risk, fresh, torn>>

Back(e) == <<e[2], e[1]>>

\* A pair is put in one direction and then in the other, before the next one is.
PutEdge ==
  /\ scoring.stage = "link"
  /\ \E e \in scoring.links :
       /\ Back(e) \notin scoring.links \/ \A l \in scoring.links : Back(l) \in scoring.links
       /\ coupled' = coupled \cup {e}
       /\ scoring' = [scoring EXCEPT !.links = @ \ {e}]
       /\ torn' = torn \ {Back(e)}
  /\ UNCHANGED <<recordVars, runs, risk, fresh, caught>>

Tasks(nodes, do) == SetToSeq([node : nodes, do : {do}])

\* Variant with a fault: the levels are folded from the top down.
TopDown ==
  Tasks(Function, "score") \o Tasks(SourceFile, "score")
    \o Tasks({Repo}, "fold") \o Tasks(Folder, "fold") \o Tasks(SourceFile, "fold")

\* Files come after symbols, and the levels above after them.
Levels ==
  Tasks(Function, "score") \o Tasks(SourceFile, "score")
    \o Tasks(SourceFile, "fold") \o Tasks(Folder, "fold") \o Tasks({Repo}, "fold")

\* What was undeclared, the latest time and the nodes are read when all is linked.
PlanScores ==
  /\ scoring.stage = "link" /\ scoring.links = {}
  /\ scoring' = [scoring EXCEPT !.stage = "score", !.plan = Levels, !.surprise = surprise,
                                !.now = Latest]
  /\ UNCHANGED <<recordVars, runs, coupled, risk, fresh, torn, caught>>

\* The next task is of this kind; after it the run goes on, or has come to its end.
NextTask(do, n) ==
  /\ scoring.plan # <<>> /\ Head(scoring.plan) = [node |-> n, do |-> do]
  /\ IF Len(scoring.plan) = 1
     THEN scoring' = NoScoring /\ fresh' = ~scoring.stale
     ELSE scoring' = [scoring EXCEPT !.plan = Tail(@)] /\ UNCHANGED fresh

\* update_artifact_risk: the risk of a node, and nothing else in its row.
UpdateRisk(n, r) == risk' = [risk EXCEPT ![n] = r]

\* recompute_apriori and apply_aposteriori.
ScoreLeaf ==
  /\ \E n \in Leaf :
       /\ NextTask("score", n)
       /\ UpdateRisk(n, [prior |-> AprioriScore(n, scoring.surprise, scoring.now),
                         post |-> AposterioriScore(n)])
  /\ UNCHANGED <<recordVars, runs, coupled, torn, caught>>

Children(n) ==
  CASE n \in SourceFile -> {s \in Function : FileOf[s] = n}
    [] n \in Folder     -> {f \in SourceFile : folder[f] = n}
    [] OTHER            -> Folder

Worst(values) == IF values = {} THEN 0 ELSE CHOOSE x \in values : \A y \in values : y <= x

DeriveAggregate(risks) ==
  [prior |-> Worst({r.prior : r \in risks}), post |-> Worst({r.post : r \in risks})]

\* A file keeps its own score among those of its symbols.
Aggregate ==
  /\ \E n \in Scored :
       /\ NextTask("fold", n)
       /\ UpdateRisk(n, DeriveAggregate({risk[c] : c \in Children(n)}
                                          \cup (IF n \in SourceFile THEN {risk[n]} ELSE {})))
  /\ UNCHANGED <<recordVars, runs, coupled, torn, caught>>

AbortScoring ==
  /\ scoring.stage # "idle"
  /\ scoring' = NoScoring
  /\ torn' = torn \cup {e \in coupled : Back(e) \in scoring.links \ coupled}
  /\ UNCHANGED <<recordVars, runs, coupled, risk, fresh, caught>>

ScoringStep == StartScoring \/ CountFile \/ PutEdge \/ PlanScores \/ ScoreLeaf \/ Aggregate

RiskNext ==
  \/ Edit \/ Move \/ Delete \/ Record \/ Surprise
  \/ ScoringStep \/ AbortScoring

RiskSpec == RiskInit /\ [][RiskNext]_riskVars

-----------------------------------------------------------------------------
\* "Hotspots surface at every zoom level": after a run with nothing recorded since it
\* began, every file, module and the repo shows the worst of each score among the
\* symbols and files below it, from the history as it is - whatever earlier runs that
\* died, or met a commit half-way, have left on the nodes, and wherever a file has
\* moved.
HotspotsSurface ==
  LET Below(n) == CASE n \in Folder -> {f \in SourceFile : folder[f] = n}
                    [] n = Repo     -> SourceFile
                    [] OTHER        -> {n}
      Leaves(n) == Below(n) \cup {s \in Function : FileOf[s] \in Below(n)}
  IN  fresh =>
        \A n \in Scored :
          /\ risk[n].prior = Worst({AprioriScore(l, surprise, Latest) : l \in Leaves(n)})
          /\ risk[n].post = Worst({AposterioriScore(l) : l \in Leaves(n)})

\* Coupling is what history has earned: two files depend on each other only if enough
\* commits changed them together that are no bulk changes, or were met by a run when they
\* were half on record; both ways, but for the time between the two edges of a pair, and
\* for what a run that died there has left; and files that do have one and the same
\* blast.  After a run with nothing recorded since it began, all that is earned is there.
CouplingIsEarned ==
  /\ \A e \in coupled :
       /\ Back(e) \in coupled \cup scoring.links \/ e \in torn
       /\ Cardinality({c \in 1..changes :
                        /\ {e[1], e[2]} \subseteq FilesOf(c, Touched)
                        /\ Cardinality(FilesOf(c, Touched)) <= MaxCommitFiles \/ c \in caught})
            >= MinSupport
       /\ Back(e) \in coupled => Dependents(e[1]) \cup {e[1]} = Dependents(e[2]) \cup {e[2]}
  /\ fresh => Earned(Touched) \subseteq coupled
=============================================================================
