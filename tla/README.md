# brain0 in TLA+

brain0 watches a repository and the coding agents that work on it. It reads *facts* (git
commits, file-system checkpoints) and *declarations* (the agents' own transcripts), keeps both in
an append-only graph in SQLite, compares them, and scores the risk of each artifact. This
directory holds a formal model of it: what the graph promises its readers while processes
interleave, crash and run again, checked with TLC on small instances and, where it matters most,
proved with TLAPS for instances of every size.

Line numbers refer to the sources beside this directory; `PROJECT.json` maps every definition
to the lines it stands for.

## 1. The system

All processes are short-lived commands over one SQLite file. There is no daemon and no lock:
`brain0 ingest`, `brain0 observe` and `brain0 watch`, the GUI's refresh (which runs the first
two) and the TypeScript server open the same database, in WAL mode with a busy timeout. No code
opens a transaction, so **every statement commits on its own**, and whatever runs between two
statements of one process (another process, a crash) sees the half-done work. That is the main
source of difficulty, and the granularity of most models here: one action per statement that
writes (`GraphIngest`, `TranscriptIngest`, `Vault`, `Egress`), or per system call (`Blobs`). Three are coarser, and say nothing of
what other processes do within a step of theirs. `Risk` puts coupling edges one by one, but records an
artifact (its version and its node), and scores a node, in one step. `Drift` observes a turn in one step. The accounts of
`Provenance` are one step each, whatever queries they take.

| component | state | operations | talks to |
|---|---|---|---|
| identity resolution (`brain0-identity`) | none, a pure function | `resolve`: path match, greedy match by similarity, new ids | called by the observer |
| git observer (`brain0-observer`) | none of its own | `ingest` of a snapshot: task, files, symbols | reads git and the graph, writes the graph |
| checkpoint engine, watch, rewind | the previous tree, in memory; manifests in the store | `checkpoint`, `watch`, `persist_manifest`, `restore` | working tree, observer, payload store |
| graph store (`brain0-storage`) | nodes, versions, edges, fingerprints, cursors, vectors, audit log, meta | `put_*` (REPLACE), `append_*` and `put_edge` (IGNORE), purge, search | every process |
| payload store | content-addressed blobs, perhaps encrypted | `put`, `get`, `shred`, `verify` | observer, transcript ingest, purge, rewind |
| keys (`brain0-crypto`, `store.rs`) | key files outside the repository | first-run creation, migration of old keys, envelope encryption | payload store |
| transcript ingest (`brain0-agentsrc`) | cursors and audit entries, in the store | `run_ingest`: plan, turns, cursor, pin, embed | transcripts, graph, payload store, reconciliation |
| reconciliation | none | `compute_drift`, `reconcile` | graph |
| risk | risk columns of nodes | a-priori and a-posteriori scores, aggregation, co-change | graph |
| guard and policy | alerts already sent, in memory | `collect_findings`, the watch loop | graph, webhooks |
| parser | none | symbols and fingerprints of a file | observer |
| shell command reader | none | the files a command line reads | transcript ingest |
| redaction, secret scan | none | placeholders for secrets, kinds of secrets in what was read | transcript ingest, guard |
| summaries | a cache beyond the life of an index | one summary per text of a turn | models, transcript ingest |
| gate before a commit | none | `preflight` over the staged files | git, working tree |
| attestation | a signing key | statement of a commit's provenance | graph |
| server, agent, GUI (TypeScript) | refresh job, answer cache, provider settings | refresh, ask, backfill of vectors | the command line, the graph, model servers |

What makes each one correct, and what is hard about it:

- *Identity*: one node per artifact through edits, renames and moves; the outcome must not depend
  on order, and two artifacts must never become one node. Hard: sequences of renames and rebirths.
- *Observer*: nothing in the graph refers to what is not there; versions are never rewritten; a
  complete run leaves the graph agreeing with HEAD, whatever crashed before. Hard: crashes between
  statements, two ingests at once, re-ingesting the whole history, tombstones.
- *Transcript ingest*: no turn is lost, repetitions are bounded, consumed ranges are pinned for
  `verify`. Hard: crashes around the cursor, overlapping passes, reading a file that grows, equal
  timestamps.
- *Payload store and keys*: a reference in the graph can be read back until it is purged, and what
  is purged is gone everywhere; an index never gets a second payload key. Hard: deduplicated
  contents, purge racing with ingest, first-run races, crashes in a migration.
- *Checkpoints and rewind*: a manifest is the tree it names, a rewind can be undone. Hard: the
  tree changes under the scan, failures after the baseline moved.
- *Reconciliation and risk*: drift converges on the session's verdict; a score depends on the
  history only. Hard: ignored edges, deletions that repeat fingerprints, the order of recomputation.
- *What the guard tells*: a secret is charged to the turn that read it, each violation is alerted, the
  audit trail is what was sent. Hard: results that arrive in later lines and passes, sinks that fail.
- *Pure parts* (parser, shell, redaction): equal fingerprints are equal trees, no file a command reads
  is hidden, no secret survives. Hard: quoting and nesting, detectors that see each other's marks.
- *Attestation*: what was signed stands and verifies. Hard: two first attestations, later ingests.
- *Server*: one refresh at a time, answers of the current index and provider. Hard: state read
  before an `await`.

## 2. Modules

| module | what it is |
|---|---|
| `Identity` | `resolve` as operators over sets (pure) |
| `Tables` | SQLite tables as partial functions; INSERT OR REPLACE, INSERT OR IGNORE |
| `GraphIngest` | `brain0 ingest` over a git history: the core |
| `TranscriptIngest`, `AtLeastOnce` | `brain0 observe` over growing transcripts, and the delivery promise it implements |
| `Vault` | contents, the rows that refer to them, vectors; purge, reembed, verify |
| `Blobs` | the payload store and its key as files |
| `Rewind` | watch, checkpoints, manifests, rewind, beside an editor |
| `Parser` | the walk over a syntax tree; fingerprints |
| `ShellReads` | the scanner of command lines beside a shell |
| `Redaction` | the detectors over texts |
| `Summaries` | the two-level cache of summaries |
| `Egress` | results of reading tool calls, and the guard that tells of them |
| `Drift` | declared against observed changes, turn by turn |
| `Risk` | scores, co-change, the fold over levels |
| `Provenance` | accounts of a commit, attestations and their key, attribution, compliance |
| `Preflight` | the gate before a commit |
| `Places` | places in a sequence or a tree, in their order; used by `ShellReads`, `Parser` and `Redaction` |
| `GraphIngestProofs`, `TranscriptProofs`, `RewindProofs`, `RiskProofs` | inductive invariants and theorems of one module each |
| `ShellProofs` | the same for `ShellReads` |
| `TextProofs` | the same for `Parser` and `Redaction`, one after the other; uses the lemmas on places of `ShellProofs` |
| `PayloadProofs` | the same for `Vault`, `Blobs` and `Summaries`, one after the other |
| `AccountsProofs` | the same for `Egress`, `Preflight`, `Provenance` and `Drift`; uses the lemmas on numbers and sequences of `RiskProofs` |
| `MCGraphIngest`, `MCTranscriptIngest`, `MCSummaries`, `MCParts`, `MCAccounts` | instances for TLC |

How they meet: `Resolutions` of `Identity` is what `GraphIngest` does with a level; the rows `GraphIngest` and
`TranscriptIngest` write are those `Vault` purges; a put of `Vault` is the file operations of `Blobs`; the
fingerprints of `Parser` are the sets `Identity` compares; the snapshots of `Rewind` are ingested as those of
git; the undeclared paths of `Drift` are an input of `Risk` and `Provenance`; the reads of `ShellReads` are the
paths of a call in `Egress`. Each module takes the others' part as one step or as an input from a small set;
only `Identity` in `GraphIngest` and `AtLeastOnce` in `TranscriptIngest` are instantiated, because only there
does the detail of one decide what is true of the other.

Some definitions are preceded by a *variant with a fault*: the same definition as a plausible bug
would have it. They take no part in the specifications; putting one in the place of the definition
it precedes must break the property `PROJECT.json` pairs it with, which shows that the property
depends on the code.

### Identity

A qualified path is a file and a name; files and names are naturals because only their order
matters. A structural fingerprint is its set of shingles. `Resolutions(known, observed)` is the set
of outcomes of a batch: `ExactPairings` is pass 1, `GreedyPairings` over `Candidates` pass 2 (stated
as the pairing in which each candidate left out is blocked by one tried no later, rather than as a
loop), `Outcome` adds newborns and deletions. There is more than one outcome only where the code
depends on the order in which SQLite returns rows of one path. `Derive` is injective: hash
collisions are left out.

### GraphIngest

| variable | code |
|---|---|
| `history` | the commits of the repository, each a function from changed files to contents |
| `nodes`, `prints`, `versions` | `artifact_nodes`, `artifact_fingerprints`, `artifact_versions` |
| `succeeds`, `contains`, `modifies` | the three kinds of edges ingest writes |
| `tasks`, `taskRows` | the task node and task version of each commit |
| `job[p]` | where process `p` is in `cmd_ingest` / `ingest` / `record_version` |
| `crashes`, `shared`, `stolen`, `synced`, `finished`, `again` | remembered for the properties only |

`Commit` is the developer. `Start` reads the history once (`snapshots_since(None)`), `PutTask` and
`AppendTask` record the intent, `Resolve` computes the plan of one level, and `ReadNode`,
`AppendVersion`, `PutNode`, `PutPrint`, `PutSucceeds`, `PutContains`, `PutModifies` are the statements
of `record_version` and `record_deletion` for one artifact, in their order. `NextLevel`, `NextCommit`
and `Finish` go on. `Crash` ends a process between any two of them.

Abstracted: repository and module nodes (their ids do not depend on content, they are inserted once,
and appear here as the parent `Module`), line counts, diffs, languages, risk. Within a level records
are written in path order, the deletions last. Histories are linear, and the content of a file
determines its fingerprint and its symbols through the constants `FilePrint` and `Symbols`; two
contents may have equal fingerprints, as two texts of one structure have. A crash is that of a
process: `synchronous=NORMAL` in WAL mode lets a power failure take back the latest commits, which
leads to an earlier state of the database, not to one with a gap.

### TranscriptIngest

A transcript is a sequence of complete lines, each a prompt or a tool call. `Write` is the agent.
`Start`, then one `PlanFile` per file (phase 1 reads them all), then for each file `TakeFile`, for each
turn `ReadPrior`, `PutTaskNode`, `AppendVersion`, and at the end of the file `SetCursor`, `PinRange`,
`EmbedSession`. Passes may overlap and crash. With `StrictClock` each line has a time of its own;
without it a line may carry no timestamp and is read as one of the epoch, so that turns tie.
Abstracted: what is in prompts and calls (`Egress` has the results of calls), summaries (`Summaries`),
redaction (`Redaction`), drift (`Drift`), the calls of model servers. A failing embedder is a choice in
`EmbedSession`.

`AtLeastOnce` says what a reader may rely on: turns are delivered, the resume point of a file is put
at a line only when all turns before it are delivered, and deliveries are not taken back. The
refinement maps `delivered` to the turns of the recorded versions and `frontier` to the cursors.
### Vault

`rows` are the references of the index in the order they were appended (turns, commits, diffs), `stored` the
contents of the payload store, `vectors` the table `task_embeddings` with the model and the contents a vector
was made of, `metaModel` and `metaDim` the two entries of `meta`. `Observe` and `Ingest` put a content (`PutText`),
append its row (`AppendRow`) and, for sessions, embed it (`SetModel`, `SetDim`, `CheckDim`, `PutVector`,
`SkipVector`). `Purge` selects by task or by age and then shreds, marks and deletes vectors, one statement at a
time; `Reembed` clears all vectors, declares the dimension, and gathers and embeds each task. Which embedder of
the fallback chain answers is a choice. `met` and `torn` remember which commands overlapped and which purges
crashed, for the properties.

### Blobs

The files of one content and the three places a key may be at. Paths name inodes. The sealed and the clear store
have a path each (`names.final`, `{rest}.enc` and `{rest}.blob`), and **one temporary path** (`names.tmp`), as both make it
with `with_extension("tmp")`: all writers of the content, of either kind, truncate, fill and rename one file, and a
rename takes whatever is there, or fails (`TmpCreate`, `TmpFill`, `Rename`). What a write through a descriptor leaves of what
was there before is `Filled`: a box covers a content, a content leaves the end of a box behind it. `BlobsStep` is one system
call of a process: locating the key, creating, filling and renaming the blob, reading and opening it, shredding; `copy`,
`compare`, `unlink` of the migration of an old key; minting a key where none is found. `mixed` remembers that a clear and a
sealed writer were at the temporary file together. Ciphers are injective; fsync and power failures are left out, as for SQLite.

### Rewind

`tree` is the working tree, `watch` the loop of `cmd_watch` (`Drain`, a scan that reads one file per `WatchRead`,
`Checkpoint`, `IngestChange`, a second scan and `WatchPersist`), `rewind` the command (a scan, the safety checkpoint
with `NamePre` and `RewindPersist`, then `RestoreFile`), `manifests` the rows of `checkpoint_files`. `Edit` is the
editor, at any step, and raises `events`. An ingest may
fail and either command may die. The 300 ms debounce is the choice between draining and scanning.

### Parser

A file is a tree of up to four nodes in preorder with kinds of its language's grammar; `WalkChild` and `LeaveNode`
are the walk of `extract.rs`, with its stack of scopes and the symbols so far. `FileFingerprint`, and the print of a
symbol, are the exact part (kinds with depths) and the shingles of `fingerprint.rs`. The grammars are tree-sitter's:
external, and given by the kinds the extractor looks at.

### ShellReads

A line comes symbol by symbol; each action is one symbol, taken by the scanner of `shell.rs` and by a shell that
knows what the line means. What a known command reads of its operands is one definition for both, as it is a table
in the code. Where a `cd` leads is not: `ChangesTo` is the scanner's reading, and `Landed` with `InShell` the shell's, for which a
`cd` behind `env` or before `&` moves nothing, and options are no directories. `quirks` collects the constructs the
scanner does not follow (section 6); with `MaxQuirks = 0` the
run takes lines without them.

### Redaction

A text is up to three words, bare, assigned or the password of a URL, and the lines around a private key. Each
detector, in the order of `secret.rs`, rewrites the text the one before left. `IngestTurn` is what `run_ingest` does
with a turn: skip if excluded, redact prompt and answer, scan the result. The patterns are given by which words of
the alphabet they match, which is where regular expressions are abstracted.

### Summaries

`cacheDb` is the user's database, `kept` what the indexes hold. A runner takes a turn that is not on record, looks in
memory and in the database (`Lookup`, which may meet an error), probes the model when it first needs one, summarises
or falls back, and puts the summary into both caches and the index, one step each; it may be killed between any two.
`RemoveIndex` deletes an index, as a rebuild does. `paid` and `wasted` count for `PaidOnce`.

### Egress

Lines of a transcript of either adapter: prompts, calls, results, in any order in which ids refer to earlier calls.
`Pass` reads the new lines of a transcript into turns (`PutNode`, `AppendVersion` write them), `StartGuard`, `GuardStep`
and `KillGuard` are the loop of `guard --watch`: read the tasks, the versions of each, evaluate, mark as seen, send,
audit. `StrictPasses` is `guard --strict`. Passes do not overlap or crash here: `TranscriptIngest` does that.

### Drift

Time, commits and turns of one session. `ObserveTurn` is `reconcile`: it compares all the session has declared with
the artifacts changed in the window around it, keeps the drift with the turn and links the session to what changed,
IGNORE on (task, artifact) included. Paths are those of the nodes at that time, so that renames count.

### Risk

Versions per leaf, folders, coupled files and the two columns of every node. `Edit`, `Move` and `Delete` are commits; what
they change waits in `recording` until `Record` has put it on record, one artifact per step, as ingest does. A run of
`recompute_risk` goes through stages: `CountFile` reads the versions of one file per step, and with the last one
fixes what is `Earned` of what it has seen; `PutEdge` puts one direction of a pair, and the other one next; `PlanScores` reads
what is undeclared and the latest time; then `ScoreLeaf` and `Aggregate` put one node per step. All these interleave with
`Record` and `Surprise`, and `AbortScoring` kills the run anywhere. `torn` remembers the edges of which a dying run left only one
direction, `caught` the commits a run counted when only some of their files were on record. `MaxRuns` bounds the runs.
Scores are integers (thousandths, cut off): what is compared is which value is put where
and from which history, not the rounding. Factors that only declared data sets, which nothing writes, are left out.

### Provenance

Commits, versions' diffs, sessions' edges and records, the file of the signing key and the envelopes in circulation.
`LoadSigner`, `CreateKeyFile`, `WriteKeyFile` and `Sign` are `load_or_create_signer` and `cmd_attest`; `Circulate` is the
world: attestations made by others, and envelopes altered. `Attribute` tells the lines of a commit from its diff,
`Compliance` sums up and may fail. The queries of one account are one step: what they read only grows.

### Preflight

HEAD, index and working tree per path. `StartGate` takes the list from git, as git prints it: `Filtered` is what
`--diff-filter=ACM` keeps, and `ListedAs` the line for each path, which is not the path where git quotes it or where `trim` cuts it,
so that `CheckFile` finds no file of that name. `CheckFile` reads one file of the tree,
`EndGate` commits the index when nothing critical was found. `WriteFile` and `Stage` are the agent, at any step.

### MCParts and MCAccounts

The parts share no state, so their product would say nothing that the parts do not. Each run has one variable
`part`: in a behaviour one part moves, the others rest in an initial state, and the states are the sum. Every
invariant is checked in every state of its own part, as it would be in a run of its own.

`Risk` moves in two ways, since what is hard about scores and what is hard about coupling need different instances
(`TwoFiles`, `ThreeFiles`). Both leave out interleavings of the one that the other has: for the scores nothing is recorded
while a run counts and links, for the coupling nothing while it scores. The proofs have no such restriction.

## 3. Runs

| run | instance | shows |
|---|---|---|
| `graph_crash` | 2 files, 3 contents (one a renamed symbol, one with both names), 1 process, 2 commits, 1 crash | the graph is well formed after every statement; one node per file path; a complete run makes HEAD known, and a first run is exact; a crash tears at most one artifact; versions are append-only |
| `graph_shared` | 1 file, 2 contents, 2 processes, 2 commits, 1 crash | the same references under interleaving, and `JobsSafe`, the part of the inductive invariant the proof adds |
| `transcripts` | 2 files of one session, 1 process, 3 lines, 3 passes, 1 crash, ties | no turn skipped, repetitions only by crashes, dangling task nodes are read again, vectors are of recorded turns, cursors advance |
| `transcripts_shared` | 1 file, 2 processes, 3 lines, 2 passes, 1 crash | refinement of `AtLeastOnce`, pinned ranges cover, planned turns are recorded (liveness) |
| `parts` | *Vault*: 2 tasks, 2 contents, 2 processes, 3 commands, 1 crash, two dimensions. *Blobs*: 2 processes, sealed and clear, two places for the key and an old one, 3 operations, 1 crash. *Rewind*: 2 paths, 2 texts, 2 edits, 2 watches, 1 rewind, 1 failure. *ShellReads*: all lines of 8 symbols without quirks. *Parser*: all trees of 4 nodes in three languages and in plain text. *Redaction*: all texts of 3 words of 5 values. *Summaries*: 2 turns of one text, 2 runners, 3 runs, 1 fault | the 13 invariants of these modules, 1.6 million states |
| `accounts` | *Egress*: 1 file, 4 lines, 2 calls, 1 guard, both adapters. *Drift*: 2 artifacts, a rename, 2 commits, 2 turns, 3 times.  *Provenance*: 2 commits, 1 session of 2 turns, 2 attesters, 2 attestations, 1 copy. *Risk*, scores: 1 symbol, 2 files, 2 folders, 2 commits or moves, 2 runs; coupling: 3 files, commits of 2 and of 3, of which the latter are bulk, 2 commits, 2 runs; deaths anywhere in both. *Preflight*: 3 files, one of them with a name git quotes, 4 writes, 2 commits | the 10 properties of these modules, 1.3 million states |
| `no_node_used_twice`, `reingest`, `attributed`, `split_turn`, `guard_strict`, `summary_shared` | 1 file or 2 turns, 1 process | violations, see below |

*Bounds.* Two commits are a birth and a change, which is enough for each kind of record (edit,
rename, move between two files, deletion) and, since a run replays the history from the start, for
resolving old contents against new nodes. Rebirths need three commits: those are the violations'
runs, and the passing properties were also explored with three commits without a counterexample,
though not to the end. One crash separates any two statements; a run after it meets the torn state.
Three lines hold a prompt with its calls or turns in both transcripts, three passes a crash between
two others. Of the parts: three commands are one that adds, one that destroys and one beside or after
them; three operations on a blob are two writers and a reader; two edits change a file within a scan
and after it; eight symbols hold a substitution with a pipe in it; four nodes hold a method in a type
in a scope, three shingles' width; three words hold a secret between two others that might hide it;
two commits, of two and of three files, are one that couples a pair and one that does not, or may when a run meets it
with two files on record (one commit is enough support there); two runs are one that dies and one that mends;
four lines are a prompt, a call, its result and a second prompt or call. Deadlock is not checked: with
the bounds used up and no process running the system stops.

*Conditions in the properties.* A property that leaves a case out names it, and leaves it out because
the code breaks the promise there. What is left out is written in the comment of the property:

- `UniqueFilePath`, `HeadIsKnown`, `FirstRunIsExact` say nothing once two ingests have overlapped: two
  processes that resolve the same birth between different states can give it two nodes. The latter two
  also leave out a stolen identity, when a newborn derives the id of an artifact that lives on in the tree or in
  the same batch, which a finding below is about, and `FirstRunIsExact` repeated runs:
  a version computed anew under an old id is ignored, so node and version may then differ.
- `NothingSkipped` and `EmbeddedIsRecorded` leave out passes that overlap while times tie: two passes can
  give two turns one version id, the second is ignored, and if the other pass crashes the turn is lost.
  `PinsCover` leaves out crashes, each of which can leave a range unpinned.
- `MissingIsPurged`: no command that writes beside a purge, and no crashed purge. A put whose content is
  shredded before its row is there leaves a row that was never purged and cannot be read.
- `NoVectorSurvives`: contents two tasks share (only the purged task's vector goes), a crashed purge that
  was not repeated by task, commands that embed beside the purge.
- `OneDimension`: one command at a time sets the dimension.
- `NoKeyLost`: two processes minting or moving a key at once. `WholeOrBeingWritten`: a crash while a blob is
  written; the short file is then taken for whole by later puts; and a clear and a sealed writer of one content at the
  temporary file together.
- `QuietIsObserved`: before the first event, deletions the engine has not seen the file of, changes whose
  ingest failed. `ManifestIsCheckpoint`, `RewindIsReversible`: an edit between the scans.
- `PlainLinesExact`: constructs the scanner does not follow, each with a name in `quirks` (section 6): among them every `cd`
  that is not a plain one of the shell's own. `PrintTellsShape`: trees at the depth limit.
- `PaidOnce`: texts two runs missed at one moment.
- `VerdictConverges`, `ChangesHaveTheirAgent`: turns observed out of the order of their times, and commits
  ingested after the last observation, as nothing is compared again.
- `TrustedIsOurs`: two processes minting the first signing key at once.
- `HotspotsSurface`: something recorded since the run began, or a run that died last. `CouplingIsEarned`: an edge without its
  counterpart is one a run is about to complete, or one a run died at (`torn`); a bulk commit is no support of an edge, unless a
  run counted it when it was half on record (`caught`). What is missing is looked for after a whole run only.
- `GateHolds`: staged contents that are not those of the tree, writes while the gate runs, files git lists as
  renamed, files it lists under a quoted or trimmed name, links that became files, `--warn-only`.

*Fairness.* `FairSpec` of `TranscriptIngest` has `WF_vars(Observe(p))` for each process. A
pass that has started is a running process without locks or waits of its own, SQLite's busy timeout
aside, so it takes its next step unless it crashes. `EgressFairness` is the same for the guard's loop, which
sleeps and goes on, and for the writes of a pass that has started. Nothing makes anyone start a pass or a
guard, so no property promises that a written line is ever read.

*What the code's documentation says and TLC refutes.*

- `NoNodeUsedTwice`: "no node used twice" (`brain0-identity/src/lib.rs:22`). The id of a newborn is a
  hash of path and fingerprint. Rename `f` to `g`, then add a new `f` of the old shape: `g`'s node has
  kept the id of `f`'s birth, the newborn derives the same id, and the batch resolves both to it.
- `ReingestKeepsNodes`: "Idempotent: re-ingesting the same snapshot makes no further changes"
  (`brain0-observer/src/lib.rs:388`). `brain0 ingest` replays everything, and a node goes back through
  its old states. The final state is mostly the old one, `HeadIsKnown` says in which sense.
- `EveryChangeAttributed`: ingest "attaches every change to a per-snapshot intent task"
  (`brain0-observer/src/lib.rs:10`). A file that is deleted and later restored resolves to
  `Unchanged` against its tombstone: no version, no edge, and its node stays deleted.
- `NoDeclarationLost`: "a byte offset per file is a valid resume cursor" (`docs/agent-artifacts.md:91`).
  A pass that reads a turn in progress moves the cursor over the prompt; the calls that follow belong
  to no turn of the next read, and no version declares them.
- `StrictSeesEverySecret`: `guard --strict` is to "fail if the index shows a secret already reached a model"
  (`docs/governance.md:160`). `collect_findings` (`main.rs:1048`) evaluates a path where a task first read it:
  a file that is read clean, and read again with a secret in it, passes.
- `SummaryOfItsTurn`: "keys are content hashes, sharing is safe" (`summarize.rs:140`, `summary_cache.rs:3`). The key
  is a hash of the text of a turn, the summary also names the files it touched: the next "go on", of whichever
  repository, is kept with the files of the first.

## 4. Proofs

Proved with TLAPS for every value of the constants. The assumptions are those the modules name and TLC
evaluates: thresholds are ratios, bounds naturals, files and names naturals, and the like; where a theorem
needs more it is said below.

**`GraphIngestProofs`**

- `Invariance`: `Spec => []IInv`, where `IInv == TypeOK /\ CurrentRecorded /\ NothingDangles /\ JobsSafe`;
- `TypeCorrect`, `CurrentIsRecorded`, `GraphHasNoDanglingReference`, `JobsAreSafe`: its conjuncts;
- `VersionsAreAppendOnly`: the action property `AppendOnlyVersions`;
- `CrashesTearOne`: `CrashTearsOne`;
- `OneNodePerFile`, `HeadIsInTheGraph`, `FirstRunsAreExact`: `UniqueFilePath`, `HeadIsKnown`, `FirstRunIsExact`.

`CurrentRecorded` and `NothingDangles` are not inductive: that `PutNode` may point to a
version depends on `AppendVersion` having gone before, in the same job. `JobsSafe` says for each stage
of a job what must be on record by then: the commit's task (`TaskSafe`), nodes for everything the plan
takes for granted and for the files it uses as parents (`PlanSafe`), the version and the node of the
artifact at hand (`ItemSafe`). All these facts say that something *is* in a table. Tables only grow
(`Grows`), so no step of another process can take such a fact away, which is `SafeKeeps` and
`StepFacts`: each action has to be looked at for its own job only. The hard case is `ResolveStep`: what
`Resolutions` returns (`ResolutionFacts`) is a record for each observation, and deletions and unchanged
artifacts among them are known nodes; nothing about the greedy matching is needed.

`CrashTearsOne` counts. `TornInv` says that the versions without their edge that no process has in hand
(`Torn`) are no more than the crashes: a process has at most one in hand, a crash lets go of it, and no
other step does.

The last three theorems are about a graph that one process at a time writes; each has an invariant of its own over
`IInv`, each rests on the one before, and each holds of any number of processes, crashes and replays.

- `LoneInv`: no two nodes of files share a path, and neither do two records of a plan, nor a record and a node of
  another id (`PlanApart`). Its core is about the pairing, `ApartFacts`: pass 1 is maximal among equal
  paths, so what is known at the path of an observation continues in it, and pass 2 and the newborns have only
  paths that no known artifact had. A row that was read is still the node's when it is written (`RowRead`), because
  nobody else writes.
- `HeadInv`: all that the tree of the commit at hand holds is *met* (`Met`): by a node with its path and print whose
  id no record that waits is going to overwrite, or by such a record, or the file is of this commit and its
  level has yet to be resolved. Resolving must not take a node away that another path needs: two records of a plan
  with one id would (`IdsApart`), and for that a newborn must not have derived it. That is what `stolen` records,
  and the only use of it. Then `Finish` finds the plan empty, and everything met is in the graph. From one commit
  to the next `TreeFacts` and `TreeObservedFacts` tell what a tree has of the one before.
- `FirstInv`: in a first run each node agrees with its current version except between `PutNode` and `PutPrint`; it
  is alive in the tree, recorded as deleted, waiting in the plan, or of a changed file whose level is not resolved
  yet; and the version that is about to be appended does not exist (`VersionsFresh`). On a later run the latter fails:
  the version exists, with what was true then, and the append is ignored.

**`TranscriptProofs`**

- `NoTurnIsSkipped`, `VectorsAreOfTheRecord`: `NothingSkipped` and `EmbeddedIsRecorded`;
- `CursorNeverFallsBack`: `CursorAdvances`;
- `DeliveredAtLeastOnce`: under `StrictClock`, the ingest implements `AtLeastOnce`, crashes and overlaps included;
- `RepeatsAreOfCrashes`, `DigestsCover`, `DanglingIsAhead`: `RepeatsAreCrashes`, `PinsCover`, `DanglingIsReread`.

The invariant is `IngestInv == Typed /\ TimesTell /\ VersionsDated /\ AloneInOrder /\ DoneBehind`. Its core is
`DoneBehind`: the turns before a file's cursor, before the point a plan starts from, and of the range at hand
except those still in the queue are all on record. What could break it is a version that `put` ignores because
its id is taken, and there are two reasons why it is then of the same turn. While passes do not overlap, the
ordinal of a version is the number of versions there are, so the id is new (`AloneInOrder`). Where lines have times of
their own, the time in the id tells the turn (`TimesTell`, `VersionsDated`). `NothingSkipped` needs one of the two,
the refinement only the second. In the refinement `Write` produces, `AppendVersion` delivers or stutters,
`SetCursor` resumes, and all else stutters; only the safety part of `AtLeastOnce` is stated.

`CrashInv` adds what a crash costs. `CopiesCounted`: before the pass in progress has given a turn its version, there is
one copy of it for each crash at most, which depends on plans that start at the cursor or behind it
(`PlannedAhead`). `PinsInOrder`: digests reach to every place from which a pass has read, since the cursor a pass reads was
set by one that has pinned, or is about to pin, all before it. `DanglingAhead`: a task node whose version was not
written is of a turn that the pass at work, or the next one, reads from its cursor on.

**`RewindProofs`** - `ManifestsAreTrue`: `ManifestIsCheckpoint`; `RewindsCanBeUndone`: `RewindIsReversible`. The
invariant is `CheckpointInv`. `WatchIsTrue` and `RewindIsTrue` say of each of the two that, while nothing has disturbed
it, its scan agrees with the tree and the rows it has written with its scan; `Apart` says that they never write to
one manifest, without which the watch could add a file to the rewind's checkpoint from another scan. An edit
disturbs both and so leaves the implications empty; a restored file disturbs the watch. `QuietWatchIsDone`: `QuietIsObserved`
has the invariant `ObservedInv`. The graph is as the baseline of the engine but for what it missed, failed to ingest, or
has in hand (`BaselineIngested`); the baseline is the tree while no event waits and the engine rests
(`BaselineIsTree`). Together they are what the property says.

**`PayloadProofs`**

*Vault*. `MissingWasPurged`: `MissingIsPurged`; `VectorsDoNotSurvive`: `NoVectorSurvives`; `OneDimensionHolds`:
`OneDimension`. `VaultInv` explains each row whose content is gone and each vector, by what a command has in hand:
a purge that has shredded and not yet marked, or marked and not yet deleted the vector (`RowsExplained`,
`VectorsCovered`). Both say nothing once a command has written beside a purge, so `MetTells` is needed: two commands that
are both under way are known to have met. `DimensionHeld` follows the declaration of a dimension through the
stages of the command that makes it.

*Blobs*. `NoKeyIsLost`: `NoKeyLost`; `NoFileIsShort`: `WholeOrBeingWritten`. `BlobsInv`: every key a whole file
or an open command uses is at one of the places (`KeysKept`), because what the move of an old key unlinks has been copied
and compared, and who mints a key mints alone (`KeyAlone`), at a place that had none. It is about inodes and not names,
as a box is a box of some key whoever renames it.
`NumbersAreFresh` keeps new inodes apart from all there are, and `TmpApart` the temporary path from the names of the stores, so that
no writer truncates what is stored; one that is still filling may have been renamed by another, which is `Writes`. `OneMode` says
that all who are at the temporary file are of one kind until two kinds have met there, and what it holds is of that kind
(`Fits`): `WholeOrBeingWritten` rests on it, and leaves `mixed` out for the same reason.

*Summaries*. `RunsPayOnce`: `PaidOnce`. The invariant `PaidInv` accounts for a paid call: its summary is in
the database, or in the hands of a runner that will put it there, or was counted as wasted. Two runners hold one text
at one time only if it is in `overlap`.

**`AccountsProofs`**

`SecretsHaveTheirTurn`: `SecretsOfTheTurn`. `SecretsInv` holds of the turns on record and of those a pass has in hand
that they are faithful to the lines behind their prompt, up to the end of the pass that read it (`TurnTrue`). The
step is the pass: `Parsed` says what the parser has after each line - closed turns are faithful for good, the open one as
far as the parser is, and it remembers the paths of just the calls behind the prompt - and is carried over the lines one by
one (`LineKeeps`, `StepByStep`). That calls have numbers of their own is used, so a line cannot overwrite a remembered call.

`AuditTrailIsTrue`: `AuditIsWhatWasSent`. `AuditInv` says that what was sent is the audit trail
and, between sending and writing it down, the one alert in hand.

`TheGateHolds`: `GateHolds`, an action property. `GateInv`: as long as nobody writes, a file staged with a secret that was
not in HEAD, that git lists under its own name and that was no link, is still to be looked at, or has been counted.

`OursVerify`: `TrustedIsOurs`. `KeyInv` says that a key file which is not yet a whole key has one
process minting it, or was left so by one that died before it signed anything, and that all the store's
signers and envelopes hold the key of the file; keys are never reused.

`AccountsDoStand`: `AccountsStand`. `AccountsInv` says of all that was, or is about to be, signed for the store that today's
account tells as much (`Standing`). What accounts are made of only grows (`GraphGrows`), and an account with it; what is
altered on its way is no longer the store's. The hunks of an attribution are those of the diff that was kept with the version.

`VerdictsConverge`: `VerdictConverges`; `LinksAreComplete`: `ChangesHaveTheirAgent`. `DriftInv` says, while turns are observed
in the order of their times, that the versions of the session are its turns in that order (`Told`), that the last holds the
drift over the whole session as of the commits known then (`Compared`), and that each change around the session has
a link (`Linked`). The step is about one more turn at the end: the window grows, and nothing that was in it leaves.

**`RiskProofs`** - `HotspotsDoSurface`: `HotspotsSurface`; `CouplingHolds`: `CouplingIsEarned`. To score is to follow a plan,
one task at a time, in an order in which what is below comes first. `Progress` says of a run that nothing overtook
which nodes have their score, given what is left of the plan (`Done`); the worst over a module is the worst over its
files' worst (`FoldsWell`). `Coupling` follows an edge from the counting of commits to its counterpart. The commits it
rests on are `Settled`: they
have both files on record, and are either whole and not bulk, or were counted when they were not whole, which is what a run adds to
`caught`; recording a version takes nothing from them, since only the commit being recorded grows, and that is not settled
(`Settles`, `SettledGrows`). `BothWays` finds the counterpart of an edge in the graph, among the links of the run, or notes the edge
as torn. `Counted` says of a run that nothing overtook that it has seen the files it has read, and that what they earn is coupled or
about to be. The third part of the property needs more than an invariant: the files a change reaches
are computed by a recursive function that goes round as often as there are files, and that this suffices is proved by
counting (a round that is not the last adds a file) over the iterates themselves, without induction theorems that take an
operator.

**`ShellProofs`** - `PlainLines`: `PlainLinesExact`. The property speaks of the end of a line, where neither reader
remembers why it names what it names; the invariant, `LineInvariant`, is about every token before.
`LineInv == quirks = {} => Beside(scan, shell)`: until the line has something that only one of the readers follows, they
stand side by side. `Beside` says how the words and the stack of quotes of the scanner are the frames of the shell
(`Stacked`); which words of the innermost frame the scanner has (`Follows`); that commands which wait for a
substitution have nothing in hand that the scanner would forget (`Waits`) and change no directory (`Framed`); that both
are in the same directory, for which
`LandedIs` compares the shell's rules of `cd` with the scanner's, word for word, and finds them at one unless `MisreadCd` names
the difference; that
the same here-documents are open; and that the scanner has named what the shell has read and what the waiting commands
will read with the words they have (`ReadBelow`, `ReadAtTop`). One lemma for each kind of token carries it over a step
(`TypedKeeps`, `RedirectKeeps`, `OpenSubstKeeps`, `CloseKeeps`, ...). Below them are lemmas on the words of one command:
the shell has a word more where a substitution was, and with it the command reads the same files (`PositionalsLonger`,
`OperandsLonger`). Recursions over words are followed from the last word to the first, and what is left out is
counted by the ranks of places, without an induction theorem that takes an operator.

**`TextProofs`**

*Parser*. `PathsTold`: `PathsNameTheirScopes`; `PrintsTold`: `PrintTellsShape`. `WalkInv`: the stack is a path from
the root on which the parent of the next node is (`IsStack`), the scope holds just the definitions on it (`IsScope`),
and what is emitted is what is to be emitted of the nodes already visited, in their order, each with the path, the
kind and the print it has in the tree (`IsEmission`). `PrintsTold` is hardly about a step but about what a
fingerprint is: the depths of an outline, computed from parent to child, tell the nearest named node above each
(`IsNearest`), so that the shape rebuilt from an outline below the limit of depth is the shape of the tree.

*Redaction*. `NothingStays`: `NothingRecognisedStays`. `RedactionInv` says little more than that what is kept of a turn
is what its detectors leave of it; the proof is about the detectors. The first, for private keys, leaves a copy of the
text in which every block is one placeholder, and the copy remembers where its words were (`IsCopy`, `BlocksCopied`).
The others keep words in place. What holds after each of them is `WordsStand` - a word is still the one of the
text if none of the detectors so far recognises it, and a placeholder otherwise - and `EventsStand`, that placeholders
have their events, and that the first detector to recognise a word tells its kind. `WordsKeep` and `EventsKeep` are the
step from one detector to the next. A detector may match a placeholder, by the frame around it or because a user's
pattern does; that it then leaves a placeholder again is where the chain could have gone wrong.

*Assumptions*. `RiskAssumption` and those of `Vault` say that sets of constants are finite or disjoint: files, folders and
functions are kinds of nodes, tasks of sessions and of commits have ids of their own.

*What the proofs changed.* `HeadIsKnown` was not provable, and was false on a larger instance than TLC had run: with three
files, a newborn can derive the id of a node that the *same* batch renames away. `stolen` now records that too; the code
is as it was, and the violation `NoNodeUsedTwice` is of the same kind. `CopyFill` of `Blobs` gives back the key it has copied.
Definitions by `SelectSeq` or over sequences of sets were restated as sets or recursive functions of the same values where
the prover needs to see into them (`Verdict`, `Purge`, the decays of `Risk`, `ReadIncremental`, `Scan`), and the words or nodes at a
set of places by the rank of each (`Places`, in `ShellReads`, `Parser` and `Redaction`). The gate of compliance asks
whether a sum of counts is positive; it is now asked whether the union of what is counted is empty.

*Only model-checked*: the violations, and liveness (`PlannedIsRecorded`, `EveryFindingAlerted`), which under
fairness is beyond the prover. `LineInv` and `WalkInv`, like the other invariants,
were checked with TLC before they were proved.

## 5. Not modelled

- *Source discovery and scope*, *MCP transport*, *agent, shared library and GUI*: they find, compare and render;
  no state of theirs outlives a call, but for the vectors the agent adds, an embedding writer like `Vault`'s.
- *Model providers*: HTTP. That a model fails, or is absent, is a choice wherever one is called.
- *Server*: it runs the command line and reads the graph. Its own state is a flag that allows one refresh, and a
  bounded cache of answers whose key is computed before the answer is awaited and does not name the provider
  (`server.ts:436`). It is TypeScript in one thread, and no other part depends on that state.
- *Graph store, graph data model*: partly. Opening, migrating and encrypting the database, vector search, and the
  conversions to columns and JSON are left out.
- *Command line*: partly. `query`, `report`, `today`, `audit` and `mcp` read and render.
- Merge commits and branches (merge commits show no files to `git log`), power failures, hash collisions.

Some definitions are coarser than the code, or told apart by no property:

- `GraphIngest.Finish` is the end of the loop over commits. The risk that `cmd_ingest` computes next is `Risk`, and its branch for
  a directory without git, one snapshot of the tree, has no history to replay and is left out.
- `Vault.MarkPurged` does the UPDATEs of two tables in one step; no command reads the mark on the second one.
- `Parser.OfText`, the fingerprint of a file without a grammar, is there for the sake of completeness: the properties
  are about trees.
- `Rewind.NamePre` takes the second scan of a safety checkpoint in one step. A write between its files disturbs the rewind, and of a
  disturbed one the properties tell nothing.
- `Risk.Record` puts the version and the node of an artifact in one step, and `Risk.ScoreLeaf` both scores of a node, which are two
  statements each; a run that is overtaken in between is not fresh.

Left for later: a refinement of `Vault` by `Blobs`.

## 6. Observations

Seen while translating the code. No run states them; those marked * are the exceptions of a property in section 3.

- A deletion copies the last fingerprint, so the version before it makes it count as a revert
  (`brain0-risk/src/lib.rs:223`, `:258`).
- Diffs are never targets of a purge, though `docs/security.md:11` lists them as purgeable; purged content can be stored
  again by the next run; the summary cache keeps summaries in clear after a purge.
- Compliance, provenance and the surprise factor of risk use the drift of all versions of a session, though the latest
  one is its verdict (`driver.rs:162`). The surprise set is keyed by path, without the repository.
- Edges from a session are keyed by artifact: its second commit of a file is missing from provenance. Accounts
  carry today's paths and the session's last model. Drift is not computed anew for commits ingested later*.
- Versions of equal time are read in the order of their hashes.
- Overlapping runs of `recompute_risk` can leave a module colder than its files*.
- A second kind of secret in one file is not alerted, as the key of an alert lacks the kind; a change of model
  alerts everything again.
- Two first attestations, or two first encrypted puts, each mint a key*; a key file cut short by a crash stays so. A read
  without `--key-file` mints a fresh default key.
- A plain payload is read without a check of its hash.
- The detectors of assignments and URLs match the placeholders of earlier ones again, which only adds to
  the count; a private key whose end is cut off is not redacted as a block.
- `preflight --staged` is to "block secrets entering a commit" (`docs/governance.md:159`). It reads the working tree*, and skips
  files that git lists as renamed*, as of another type*, or under a quoted name*: without `-z` git quotes a name with non-ASCII
  characters (`main.rs:1262`), no file has that name, and the line is passed over (`:1288`). A commit with no file to check
  fails the hook.
- Bulk commits are to be "ignored — they would otherwise couple everything to everything" (`brain0-risk/src/lib.rs:328`), but
  a commit is as large as what is on record of it (`:377`): a run beside an ingest counts one of three files when two are
  there*, and edges are never taken back.
- A run of `recompute_risk` that dies between the two edges of a pair leaves it coupled one way* until another run links it again
  (`brain0-risk/src/lib.rs:397`).
- "Write to a temp file then rename for atomicity" (`payload.rs:98`): the clear and the sealed store share the temporary file
  (`:99`, `:209`), and a writer of one renames, empties or overwrites what one of the other has written*. A sealed store can
  be left with a file that is no box.
- Two definitions of one name in one scope get one qualified path; depth saturates at 255*.
- The shell scanner is "a **lower bound** of what the command read, never an upper bound" (`shell.rs:14`), but also errs
  upwards*: on `env cd a; cat a` it reports `a/a`, on `cd -P a; cat a` it reports `a`, and neither was read. What it does not follow
  are words after an unquoted substitution, a word glued to one, a `cd` whose effect ends with its pipe or subshell, in the
  background, behind a wrapper, with an option, without an operand, with two, or with a substitution, here-documents of
  one tag, parentheses in a substitution (`:11`, `:550`, `:576`).
- `brain0 today` removes duplicate commits only where they are adjacent (`today.rs:114`).
- A summary written while no model answered stays in the cache for good.
- Undoing a rewind leaves the files the rewind brought back (`rewind.rs:58`).
