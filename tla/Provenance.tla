----------------------------- MODULE Provenance -----------------------------
(***************************************************************************)
(* What brain0 answers for a commit, and signs.  The sessions behind a     *)
(* commit are those that are linked to a version it made; their turns say  *)
(* what was read, which secrets were in it and what was not declared.      *)
(* `brain0 attest` signs the account with a key that the first attestation *)
(* mints, `brain0 attribution` tells the lines, and `brain0 compliance`    *)
(* sums up.  Ingests and observes go on meanwhile, and attestations are    *)
(* copied, made by others, and altered.                                    *)
(*                                                                         *)
(* Commits are named by the order in which the store returns their tasks.  *)
(* A signature binds a key and a statement; the cipher is external.  The   *)
(* paths in an account are those artifacts have today, and the model of a  *)
(* session that of its last turn: they may differ from one account to the  *)
(* next, and are left out.  The queries of one account are one step: all   *)
(* they read only grows.                                                   *)
(***************************************************************************)
EXTENDS Naturals, FiniteSets, Tables

CONSTANTS
  Commit,      \* tasks of commits, numbers in the order of all_task_ids
  Queried,     \* sets of commits whose SHA begins with what a user types
  Changed,     \* file nodes
  Trailers,    \* commits with a trailer that names a reviewer
  DiffBy,      \* what commits change: <<commit, file>> -> hunks [start, count] on the new side
  Agent,       \* tasks of agent sessions
  TurnData,    \* what turns may record: [reads, secrets, undeclared, phantom]
  Attester,    \* processes that attest
  MaxTold,     \* bound on the turns of a session
  MaxAttests,  \* bound on the attestations begun
  MaxCopies    \* bound on the attestations of others and the altered ones

ASSUME ProvenanceAssumption ==
  /\ Commit \subseteq Nat /\ Queried \subseteq SUBSET Commit /\ Trailers \subseteq Commit
  /\ DOMAIN DiffBy \subseteq Commit \X Changed
  /\ \A v \in DOMAIN DiffBy : DiffBy[v] \subseteq [start : Nat, count : Nat]
  /\ MaxTold \in Nat /\ MaxAttests \in Nat /\ MaxCopies \in Nat

\* What the file of the signing key holds: nothing, less than a seed, or a key.
NoSeed == 0
CutShort == 1
EnvKey == 2      \* BRAIN0_ATTEST_KEY
ElsewhereKey == 3
KeyOf(attest) == 3 + attest

VARIABLES
  reviewed,     \* commits on record: whether a trailer names a reviewer
  diffs,        \* versions of artifacts, <<commit, artifact>>: their diff
  behind,       \* edges of the sessions: <<agent, artifact>> -> version
  records,      \* versions of the sessions' tasks
  keyFile,      \* the file of the signing key
  attester,     \* what each process is doing: [stage, statement, key, by]
  attests,      \* attestations begun, also the source of keys
  envelopes,    \* attestations: [statement, publicKey, signature, by]
  copies,       \* those of others and the altered ones
  attribution,  \* what brain0 attribution told last: [commit, files]
  blocked,      \* compliance --strict has failed
  twoFirst      \* two processes have been minting the key at the same time

provenanceVars == <<reviewed, diffs, behind, records, keyFile, attester, attests, envelopes,
                    copies, attribution, blocked, twoFirst>>
graphOfCommits == <<reviewed, diffs, behind, records>>

NoAttribution == [commit |-> 0, files |-> EmptyTable]

AttesterIdle == [stage |-> "idle", statement |-> <<>>, key |-> NoSeed, by |-> "store"]

ProvenanceInit ==
  /\ reviewed = EmptyTable /\ diffs = EmptyTable /\ behind = EmptyTable
  /\ records = [s \in Agent |-> {}]
  /\ keyFile = NoSeed
  /\ attester = [p \in Attester |-> AttesterIdle]
  /\ attests = 0 /\ envelopes = {} /\ copies = 0
  /\ attribution = NoAttribution /\ blocked = FALSE /\ twoFirst = FALSE

-----------------------------------------------------------------------------
(***************************************************************************)
(* The graph grows.                                                        *)
(***************************************************************************)
\* parse_review_trailers: whether the message names a reviewer.
Reviewed(c) == c \in Trailers

RecordCommit(c) ==
  /\ c \notin DOMAIN reviewed
  /\ reviewed' = InsertOrReplace(reviewed, c, Reviewed(c))
  /\ diffs' = [v \in DOMAIN diffs \cup {w \in DOMAIN DiffBy : w[1] = c} |-> DiffBy[v]]
  /\ UNCHANGED <<behind, records, keyFile, attester, attests, envelopes, copies,
                 attribution, blocked, twoFirst>>

RecordTurn(s) ==
  /\ Cardinality(records[s]) < MaxTold
  /\ \E t \in TurnData : records' = [records EXCEPT ![s] = @ \cup {t}]
  /\ UNCHANGED <<reviewed, diffs, behind, keyFile, attester, attests, envelopes, copies,
                 attribution, blocked, twoFirst>>

\* Variant with a fault: the edge follows the last version.
RelinkAgent(s, v) == behind' = InsertOrReplace(behind, <<s, v[2]>>, v)

\* reconcile: the edge of a task and an artifact stays as it was first put.
LinkAgent(s, v) == behind' = InsertOrIgnore(behind, <<s, v[2]>>, v)

Reconcile(s) ==
  /\ records[s] # {}
  /\ \E v \in DOMAIN diffs : LinkAgent(s, v)
  /\ UNCHANGED <<reviewed, diffs, records, keyFile, attester, attests, envelopes, copies,
                 attribution, blocked, twoFirst>>

-----------------------------------------------------------------------------
(***************************************************************************)
(* Accounts.                                                               *)
(***************************************************************************)
FindCommit(q) == {c \in q \cap DOMAIN reviewed : \A d \in q \cap DOMAIN reviewed : c <= d}

AgentsBehind(c) ==
  {s \in Agent : \E x \in Changed : <<s, x>> \in DOMAIN behind /\ behind[<<s, x>>] = <<c, x>>}

AgentAccount(s) ==
  [reads |-> UNION {t.reads : t \in records[s]},
   secrets |-> UNION {t.secrets : t \in records[s]},
   undeclared |-> UNION {t.undeclared : t \in records[s]},
   phantom |-> UNION {t.phantom : t \in records[s]}]

BuildProvenance(c) ==
  [commit |-> c, reviewed |-> reviewed[c],
   agents |-> [s \in AgentsBehind(c) |-> AgentAccount(s)]]

\* A hunk of no lines, where lines were only removed, is left out.
ParseHunks(diff) ==
  {[start |-> h.start, end |-> h.start + h.count - 1] : h \in {g \in diff : g.count # 0}}

\* The version the commit's edge names.
DiffOf(v) == diffs[v]

FilesOfCommit(c) == {x \in Changed : <<c, x>> \in DOMAIN diffs}

Attribute ==
  /\ \E q \in Queried : \E c \in FindCommit(q) :
       attribution' =
         [commit |-> c, files |-> [x \in FilesOfCommit(c) |-> ParseHunks(DiffOf(<<c, x>>))]]
  /\ UNCHANGED <<graphOfCommits, keyFile, attester, attests, envelopes, copies, blocked,
                 twoFirst>>

\* The rows of the report and their sum: the gate asks only whether there is anything.
SecretReads(c) == UNION {AgentAccount(s).secrets : s \in AgentsBehind(c)}

TotalSecretReads == UNION {SecretReads(c) : c \in DOMAIN reviewed}

\* brain0 compliance --strict.
Compliance ==
  /\ TotalSecretReads # {}
  /\ blocked' = TRUE
  /\ UNCHANGED <<graphOfCommits, keyFile, attester, attests, envelopes, copies,
                 attribution, twoFirst>>

-----------------------------------------------------------------------------
(***************************************************************************)
(* Attestations.                                                           *)
(***************************************************************************)
StartAttest(p) ==
  /\ attester[p].stage = "idle"
  /\ attests < MaxAttests
  /\ attests' = attests + 1
  /\ \E q \in Queried : \E c \in FindCommit(q) : \E env \in BOOLEAN :
       attester' = [attester EXCEPT ![p] =
         [stage |-> IF env THEN "sign" ELSE "load", statement |-> BuildProvenance(c),
          key |-> IF env THEN EnvKey ELSE KeyOf(attests'),
          by |-> IF env THEN "env" ELSE "store"]]
  /\ UNCHANGED <<graphOfCommits, keyFile, envelopes, copies, attribution, blocked, twoFirst>>

\* A file that is there is the key, or an error; with none, a key is generated.
LoadSigner(p) ==
  /\ attester[p].stage = "load"
  /\ \/ /\ keyFile = NoSeed
        /\ attester' = [attester EXCEPT ![p].stage = "create"]
        /\ twoFirst' = (twoFirst \/ \E o \in Attester \ {p} :
                                      attester[o].stage \in {"create", "write"})
     \/ /\ keyFile = CutShort
        /\ attester' = [attester EXCEPT ![p] = AttesterIdle]
        /\ UNCHANGED twoFirst
     \/ /\ keyFile \notin {NoSeed, CutShort}
        /\ attester' = [attester EXCEPT ![p].stage = "sign", ![p].key = keyFile]
        /\ UNCHANGED twoFirst
  /\ UNCHANGED <<graphOfCommits, keyFile, attests, envelopes, copies, attribution, blocked>>

\* std::fs::write: the file is created or cut, then filled.
CreateKeyFile(p) ==
  /\ attester[p].stage = "create"
  /\ keyFile' = CutShort
  /\ attester' = [attester EXCEPT ![p].stage = "write"]
  /\ UNCHANGED <<graphOfCommits, attests, envelopes, copies, attribution, blocked, twoFirst>>

WriteKeyFile(p) ==
  /\ attester[p].stage = "write"
  /\ keyFile' = attester[p].key
  /\ attester' = [attester EXCEPT ![p].stage = "sign"]
  /\ UNCHANGED <<graphOfCommits, attests, envelopes, copies, attribution, blocked, twoFirst>>

Envelope(statement, key, by) ==
  [statement |-> statement, publicKey |-> key, signature |-> <<key, statement>>, by |-> by]

Sign(p) ==
  /\ attester[p].stage = "sign"
  /\ envelopes' = envelopes \cup
       {Envelope(attester[p].statement, attester[p].key, attester[p].by)}
  /\ attester' = [attester EXCEPT ![p] = AttesterIdle]
  /\ UNCHANGED <<graphOfCommits, keyFile, attests, copies, attribution, blocked, twoFirst>>

KillAttester(p) ==
  /\ attester[p].stage # "idle"
  /\ attester' = [attester EXCEPT ![p] = AttesterIdle]
  /\ UNCHANGED <<graphOfCommits, keyFile, attests, envelopes, copies, attribution, blocked,
                 twoFirst>>

\* Another clone attests the same, and a statement is replaced by that of another one.
Circulate ==
  /\ copies < MaxCopies
  /\ copies' = copies + 1
  /\ \E e \in {f \in envelopes : f.by # "altered"} :
       \/ envelopes' = envelopes \cup {Envelope(e.statement, ElsewhereKey, "elsewhere")}
       \/ \E o \in envelopes :
            /\ o.statement # e.statement
            /\ envelopes' = envelopes \cup
                 {[e EXCEPT !.statement = o.statement, !.by = "altered"]}
  /\ UNCHANGED <<graphOfCommits, keyFile, attester, attests, attribution, blocked, twoFirst>>

\* Variant with a fault: the key in the envelope is preferred to the one that is given.
EmbeddedFirst(e, pubkey) == e.publicKey

\* --pubkey, or the key in the envelope.
KeyToVerify(e, pubkey) == IF pubkey # {} THEN CHOOSE k \in pubkey : TRUE ELSE e.publicKey

\* verify-attestation; pubkey holds the key that is given, if any.
Verifies(e, pubkey) == e.signature = <<KeyToVerify(e, pubkey), e.statement>>

ProvenanceNext ==
  \/ \E c \in Commit : RecordCommit(c)
  \/ \E s \in Agent : RecordTurn(s) \/ Reconcile(s)
  \/ Attribute \/ Compliance \/ Circulate
  \/ \E p \in Attester :
       \/ StartAttest(p) \/ LoadSigner(p) \/ CreateKeyFile(p) \/ WriteKeyFile(p)
       \/ Sign(p) \/ KillAttester(p)

ProvenanceSpec == ProvenanceInit /\ [][ProvenanceNext]_provenanceVars

-----------------------------------------------------------------------------
\* One account holds all that another one does.
Holds(later, earlier) ==
  /\ later.reviewed = earlier.reviewed
  /\ DOMAIN earlier.agents \subseteq DOMAIN later.agents
  /\ \A s \in DOMAIN earlier.agents : \A part \in DOMAIN earlier.agents[s] :
       earlier.agents[s][part] \subseteq later.agents[s][part]

\* The lines told of a commit are those of its own change to a file, in ranges that
\* hold a line, and remain so when later commits change the file again (cmd_attribution).
LinesOfTheCommit ==
  \A x \in DOMAIN attribution.files :
    /\ \A h \in attribution.files[x] : h.start <= h.end
    /\ UNION {h.start..h.end : h \in attribution.files[x]} =
         UNION {{h.start + k - 1 : k \in 1..h.count} : h \in DiffBy[<<attribution.commit, x>>]}

\* The accounts that were signed stand: whatever is ingested, observed and reconciled
\* after an attestation, the provenance of its commit still tells all that was signed,
\* and a gate of compliance that has failed fails again.  (build_provenance_for reads
\* edges and versions that later runs put again.)  And so do the
\* lines of the last attribution.
AccountsStand ==
  /\ \A e \in {f \in envelopes : f.by \in {"store", "env"}} :
       Holds(BuildProvenance(e.statement.commit), e.statement)
  /\ blocked => TotalSecretReads # {}
  /\ LinesOfTheCommit

\* "Use --pubkey <trusted> to check against a known key; otherwise the embedded public
\* key is used": with the key of the store's own file exactly the attestations verify
\* that were signed with it and not altered, whenever they were made; with the embedded
\* one those that were not altered, whoever made them.  It takes that no two processes
\* minted the first key at once: the one written over has signed, and is lost.
TrustedIsOurs ==
  \A e \in envelopes :
    /\ ~twoFirst => (Verifies(e, {keyFile}) <=> e.by = "store")
    /\ Verifies(e, {}) <=> e.by # "altered"
=============================================================================
