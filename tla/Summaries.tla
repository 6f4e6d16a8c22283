----------------------------- MODULE Summaries ------------------------------
(***************************************************************************)
(* The summaries of turns, which a model may write, and the cache that     *)
(* keeps them beyond the life of an index: `brain0 observe` of any         *)
(* repository looks a turn up by the hash of its text, in memory and then  *)
(* in a database of the user, and asks the model only if both miss.        *)
(*                                                                         *)
(* A turn has a text and the paths it touched; turns may have one text, as *)
(* all those that say "go on".  Turns belong to sessions of several        *)
(* repositories.  What a model writes is named by the text it was asked    *)
(* about; the hash is injective.                                           *)
(***************************************************************************)
EXTENDS Naturals, FiniteSets, Tables

CONSTANTS
  Turn,         \* turns of all sessions
  TextOf,       \* turn -> summary_source: its prompt and what the agent said
  TouchedBy,    \* turn -> its declared paths
  LongText,     \* texts of TRIVIAL_TURN_CHARS or more
  Runner,       \* processes that observe
  MaxRuns,      \* bound on the runs
  MaxFaults     \* bound on kills and on errors of the cache database

ASSUME SummariesAssumption ==
  /\ DOMAIN TextOf = Turn /\ DOMAIN TouchedBy = Turn
  /\ MaxRuns \in Nat /\ MaxFaults \in Nat

TurnTexts == {TextOf[t] : t \in Turn}

VARIABLES
  cacheDb,   \* summary-cache.db: text -> summary
  kept,      \* summaries in the payload stores of the indexes: turn -> summary
  runner,    \* what each process is doing
  runs, faults,
  paid,      \* per text, how often runs with the database had a model summarise it
  wasted,    \* per text, how often an error hid its summary in the database from those runs,
             \* or an error or a kill kept a model's summary from the database
  overlap    \* texts two runs have missed at the same time

summaryVars == <<cacheDb, kept, runner, runs, faults, paid, wasted, overlap>>

NoTurn == "no turn"

RunnerIdle ==
  [stage |-> "idle", memory |-> EmptyTable, cached |-> FALSE, server |-> "none",
   turn |-> NoTurn, summary |-> <<>>]

SummariesInit ==
  /\ cacheDb = EmptyTable /\ kept = EmptyTable
  /\ runner = [p \in Runner |-> RunnerIdle]
  /\ runs = 0 /\ faults = 0
  /\ paid = [x \in TurnTexts |-> 0] /\ wasted = [x \in TurnTexts |-> 0] /\ overlap = {}

At(p, stage) == runner[p].stage = stage

\* from_env: whether a run has the database.  It may be off, have no place to be, or not
\* open; the run goes on without it.
HasDb(configured, opens) == configured # "off" /\ opens

\* The provider is "deterministic", or a model that is probed when it is first needed.
StartRun(p) ==
  /\ At(p, "idle")
  /\ runs < MaxRuns
  /\ runs' = runs + 1
  /\ \E server \in {"offline", "unprobed"}, configured \in {"off", "path", "unset"},
        opens \in BOOLEAN :
       runner' = [runner EXCEPT ![p] =
         [RunnerIdle EXCEPT !.stage = "next", !.server = server,
                            !.cached = HasDb(configured, opens)]]
  /\ UNCHANGED <<cacheDb, kept, faults, paid, wasted, overlap>>

\* summarize_cached, for a turn that is not on record.
TakeTurn(p) ==
  /\ At(p, "next")
  /\ \E t \in Turn \ DOMAIN kept :
       runner' = [runner EXCEPT ![p].stage = "lookup", ![p].turn = t]
  /\ UNCHANGED <<cacheDb, kept, runs, faults, paid, wasted, overlap>>

EndRun(p) ==
  /\ At(p, "next")
  /\ runner' = [runner EXCEPT ![p] = RunnerIdle]
  /\ UNCHANGED <<cacheDb, kept, runs, faults, paid, wasted, overlap>>

\* content_key: the files a turn touched are not in it.
ContentKey(t) == TextOf[t]

\* Variant with a fault: what another run left in the database is not looked for.
InMemory(p, key) == FALSE

InDb(p, key) == runner[p].cached /\ key \in DOMAIN cacheDb

\* The counts of answers leave out the runs without the database.
Tally(p, counts, summary) ==
  IF runner[p].cached /\ summary.by = "model" THEN [counts EXCEPT ![summary.text] = @ + 1]
  ELSE counts

\* PersistentSummaryCache::get: memory, then the database, whose error is a miss.
Lookup(p) ==
  /\ At(p, "lookup")
  /\ LET key == ContentKey(runner[p].turn)
         memory == runner[p].memory
     IN  \/ /\ key \in DOMAIN memory
            /\ runner' = [runner EXCEPT ![p].stage = "keep", ![p].summary = memory[key]]
            /\ UNCHANGED <<faults, wasted, overlap>>
         \/ /\ key \notin DOMAIN memory /\ InDb(p, key)
            /\ runner' = [runner EXCEPT ![p].stage = "keep", ![p].summary = cacheDb[key],
                                        ![p].memory = InsertOrReplace(@, key, cacheDb[key])]
            /\ UNCHANGED <<faults, wasted, overlap>>
         \/ /\ key \notin DOMAIN memory
            /\ runner' = [runner EXCEPT ![p].stage = "summarize"]
            /\ IF ~InDb(p, key)
               THEN UNCHANGED <<faults, wasted>>
               ELSE /\ faults < MaxFaults
                    /\ faults' = faults + 1
                    /\ wasted' = [wasted EXCEPT ![key] = @ + 1]
            /\ overlap' = overlap \cup
                 {key : q \in {r \in Runner \ {p} : runner[r].stage \in {"summarize", "put"}
                                                    /\ ContentKey(runner[r].turn) = key}}
  /\ UNCHANGED <<cacheDb, kept, runs, paid>>

\* The first line of the prompt, and the touched files.
FirstLine(t) == [by |-> "prompt", text |-> TextOf[t], paths |-> TouchedBy[t]]

OfModel(t) == [by |-> "model", text |-> TextOf[t], paths |-> {}]

Trivial(t) == TouchedBy[t] = {} /\ TextOf[t] \notin LongText

\* LazyProbeSummarizer: the first turn that is not cached tells for the whole run
\* whether there is a model.
Probe(p) ==
  /\ At(p, "summarize") /\ runner[p].server = "unprobed"
  /\ \E server \in {"model", "offline"} : runner' = [runner EXCEPT ![p].server = server]
  /\ UNCHANGED <<cacheDb, kept, runs, faults, paid, wasted, overlap>>

\* A trivial turn is not put to the model, and a model may fail or say nothing.
Summarize(p) ==
  /\ At(p, "summarize") /\ runner[p].server # "unprobed"
  /\ LET t == runner[p].turn
     IN  \/ /\ runner' = [runner EXCEPT ![p].stage = "put", ![p].summary = FirstLine(t)]
            /\ UNCHANGED paid
         \/ /\ runner[p].server = "model" /\ ~Trivial(t)
            /\ runner' = [runner EXCEPT ![p].stage = "put", ![p].summary = OfModel(t)]
            /\ paid' = Tally(p, paid, OfModel(t))
  /\ UNCHANGED <<cacheDb, kept, runs, faults, wasted, overlap>>

\* SummaryCacheDb::put: the first summary of a text stays.
PutDb(key, summary) == cacheDb' = InsertOrIgnore(cacheDb, key, summary)

\* PersistentSummaryCache::put: the database keeps its first summary of a text, the
\* memory takes the last; errors of the database are ignored.
PutSummary(p) ==
  /\ At(p, "put")
  /\ LET key == ContentKey(runner[p].turn)
         summary == runner[p].summary
     IN  /\ \/ /\ runner[p].cached
               /\ PutDb(key, summary)
               /\ UNCHANGED <<faults, wasted>>
            \/ /\ runner[p].cached => faults < MaxFaults
               /\ faults' = IF runner[p].cached THEN faults + 1 ELSE faults
               /\ wasted' = Tally(p, wasted, summary)
               /\ UNCHANGED cacheDb
         /\ runner' = [runner EXCEPT ![p].stage = "keep",
                                     ![p].memory = InsertOrReplace(@, key, summary)]
  /\ UNCHANGED <<kept, runs, paid, overlap>>

\* ingest_turn stores the summary and the version that refers to it.
KeepSummary(p) ==
  /\ At(p, "keep")
  /\ kept' = InsertOrIgnore(kept, runner[p].turn, runner[p].summary)
  /\ runner' = [runner EXCEPT ![p].stage = "next", ![p].turn = NoTurn, ![p].summary = <<>>]
  /\ UNCHANGED <<cacheDb, runs, faults, paid, wasted, overlap>>

KillRun(p) ==
  /\ ~At(p, "idle")
  /\ faults < MaxFaults
  /\ faults' = faults + 1
  /\ wasted' = IF At(p, "put") THEN Tally(p, wasted, runner[p].summary) ELSE wasted
  /\ runner' = [runner EXCEPT ![p] = RunnerIdle]
  /\ UNCHANGED <<cacheDb, kept, runs, paid, overlap>>

\* rm -rf .brain0: the indexes are gone and will be built anew.
RemoveIndex ==
  /\ kept # EmptyTable
  /\ \A p \in Runner : At(p, "idle")
  /\ kept' = EmptyTable
  /\ UNCHANGED <<cacheDb, runner, runs, faults, paid, wasted, overlap>>

SummariesNext ==
  \/ RemoveIndex
  \/ \E p \in Runner :
       \/ StartRun(p) \/ TakeTurn(p) \/ EndRun(p) \/ Lookup(p) \/ Probe(p) \/ Summarize(p)
       \/ PutSummary(p) \/ KeepSummary(p) \/ KillRun(p)

SummariesSpec == SummariesInit /\ [][SummariesNext]_summaryVars

-----------------------------------------------------------------------------
\* "Full index rebuilds - and even interrupted runs - never re-pay model calls for turns
\* already summarized, on any repo" (docs/models.md): runs that use the database have a
\* model summarise a text once, and once more only for each time that an error or a kill
\* kept its summary from the database, or an error the database from them.  Two runs that
\* miss a text at one moment both pay, as nothing makes one wait for the other.
PaidOnce == \A x \in TurnTexts \ overlap : paid[x] <= 1 + wasted[x]

\* "Keys are content hashes, sharing is safe" (PersistentSummaryCache): the summary that
\* is kept of a turn is one of that turn, and names no file another turn touched.
SummaryOfItsTurn == \A t \in DOMAIN kept : kept[t] \in {FirstLine(t), OfModel(t)}
=============================================================================
