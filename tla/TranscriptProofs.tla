-------------------------- MODULE TranscriptProofs --------------------------
(***************************************************************************)
(* What the transcript ingest promises of every file behind its cursor,    *)
(* for any files, processes, passes and crashes.                           *)
(*                                                                         *)
(* A version is ignored if one has its id, and then the turn it was for    *)
(* would be lost behind the cursor.  Two arguments exclude that: passes    *)
(* that do not overlap number the versions of a session, and lines with    *)
(* timestamps of their own give every turn a time of its own.              *)
(***************************************************************************)
EXTENDS TranscriptIngest, FiniteSetTheorems, WellFoundedInduction, TLAPS

JobFields == {"stage", "plan", "file", "turns", "ordinal"}

InFile == {"turn", "node", "version", "pin", "embed"}

Row == [kind : {"prompt", "call"}, at : Nat]

Transcript == Seq(Row)

ReadRange == [from : Nat, to : Nat]

JobTyped(j) ==
  /\ DOMAIN j = JobFields
  /\ DOMAIN j.plan \subseteq File
  /\ \A f \in DOMAIN j.plan :
       /\ j.plan[f] \in ReadRange
       /\ j.plan[f].from <= j.plan[f].to /\ j.plan[f].to <= Len(log[f])
  /\ j.stage = "idle" => DOMAIN j.plan = {}
  /\ j.stage \in InFile =>
       \E f \in DOMAIN j.plan : j.file = {f} /\ j.turns \subseteq TurnsOf(f, j.plan[f])
  /\ j.stage \in {"node", "version"} => j.turns # {}
  /\ j.stage \in {"pin", "embed"} => j.turns = {}

Typed ==
  /\ log \in [File -> Transcript] /\ now \in Nat
  /\ DOMAIN cursors \subseteq File
  /\ \A f \in DOMAIN cursors : cursors[f] \in Nat /\ cursors[f] <= Len(log[f])
  /\ IsFiniteSet(DOMAIN versions)
  /\ DOMAIN job = Proc
  /\ \A p \in Proc : JobTyped(job[p])

\* With a clock, a time tells a line...
TimesTell ==
  StrictClock =>
    \A f, g \in File : \A i \in DOMAIN log[f], k \in DOMAIN log[g] :
      /\ log[f][i].at <= now
      /\ log[f][i].at = log[g][k].at => f = g /\ i = k

\* ... and a version is of the line of its time.
VersionsDated ==
  StrictClock =>
    \A v \in DOMAIN versions : \E f \in File : \E i \in DOMAIN log[f] :
      v.at = log[f][i].at /\ versions[v].turn = TurnAt(f, i)

VersionsOf(s) == {v \in DOMAIN versions : v.session = s}

\* Passes that do not overlap number the versions of a session, and read on from where
\* the cursor is.
AloneInOrder ==
  ~overlapped =>
    /\ \A p, q \in Proc : ~At(p, "idle") /\ ~At(q, "idle") => p = q
    /\ \A v \in DOMAIN versions :
         v.ordinal \in Nat /\ v.ordinal < Cardinality(VersionsOf(v.session))
    /\ \A p \in Proc : At(p, "node") \/ At(p, "version") =>
         job[p].ordinal = Cardinality(VersionsOf(SessionOf[FileOf(job[p])]))
    /\ \A p \in Proc : \A f \in DOMAIN job[p].plan : CursorOf(f) <= job[p].plan[f].to

\* The turns of the first n lines of a file are on record, but for some of these lines.
Done(f, n, rest) == \A i \in PromptLines(f, 0, n) \ rest : TurnAt(f, i) \in Recorded

JobDone(j) ==
  /\ \A f \in DOMAIN j.plan : Done(f, j.plan[f].from, {})
  /\ j.stage \in InFile => Done(FileOf(j), j.plan[FileOf(j)].to, j.turns)

Kept == ~overlapped \/ StrictClock

DoneBehind ==
  Kept =>
    /\ \A f \in File : Done(f, CursorOf(f), {})
    /\ \A p \in Proc : JobDone(job[p])
    /\ \A s \in DOMAIN embeddings : embeddings[s] \subseteq Recorded

IngestInv == Typed /\ TimesTell /\ VersionsDated /\ AloneInOrder /\ DoneBehind

-----------------------------------------------------------------------------
\* The first of some turns is one of them.
LEMMA FirstIsOne ==
  ASSUME NEW turns \in SUBSET Nat, turns # {}
  PROVE  FirstOf(turns) \in turns
<1>1. PICK i \in turns : \A k \in turns : <<k, i>> \notin OpToRel(<, Nat)
  BY NatLessThanWellFounded, WFMin
<1>2. \A k \in turns : ~(k < i)
  <2>1. SUFFICES ASSUME NEW k \in turns, k < i PROVE FALSE
    OBVIOUS
  <2>2. <<k, i>> \in Nat \X Nat /\ <<k, i>>[1] < <<k, i>>[2]
    BY <2>1
  <2>3. <<k, i>> \in OpToRel(<, Nat)
    BY <2>2, Zenon DEF OpToRel
  <2>4. QED
    BY <1>1, <2>3
<1>3. \A k \in turns : i <= k
  BY <1>2
<1>4. QED
  BY <1>3 DEF FirstOf

\* What a job in a file has in hand is of that file and within its plan.
LEMMA WhereItIs ==
  ASSUME Typed, NEW p \in Proc, job[p].stage \in InFile
  PROVE  LET f == FileOf(job[p])
         IN  /\ f \in File /\ f \in DOMAIN job[p].plan /\ job[p].file = {f}
             /\ job[p].turns \subseteq TurnsOf(f, job[p].plan[f])
             /\ job[p].plan[f] \in ReadRange
             /\ job[p].plan[f].from <= job[p].plan[f].to
             /\ job[p].plan[f].to <= Len(log[f])
<1>1. PICK f \in DOMAIN job[p].plan :
        job[p].file = {f} /\ job[p].turns \subseteq TurnsOf(f, job[p].plan[f])
  BY DEF Typed, JobTyped
<1>2. FileOf(job[p]) = f
  BY <1>1 DEF FileOf
<1>3. QED
  BY <1>1, <1>2 DEF Typed, JobTyped

\* The turn a version is written for is a prompt of the range that was read.
LEMMA TurnInHand ==
  ASSUME Typed, NEW p \in Proc, At(p, "node") \/ At(p, "version")
  PROVE  LET f == FileOf(job[p])
             i == FirstOf(job[p].turns)
         IN  /\ f \in File /\ i \in job[p].turns /\ i \in DOMAIN log[f]
             /\ i \in PromptLines(f, job[p].plan[f].from, job[p].plan[f].to)
<1> DEFINE f == FileOf(job[p])
<1>1. /\ f \in File /\ f \in DOMAIN job[p].plan
      /\ job[p].turns \subseteq TurnsOf(f, job[p].plan[f])
      /\ job[p].plan[f] \in ReadRange /\ job[p].plan[f].to <= Len(log[f])
  BY WhereItIs DEF At, InFile
<1>2. job[p].turns # {}
  BY DEF Typed, JobTyped, At
<1>3. job[p].turns \in SUBSET Nat
  BY <1>1 DEF TurnsOf, PromptLines, ReadRange
<1>4. FirstOf(job[p].turns) \in job[p].turns
  BY <1>2, <1>3, FirstIsOne
<1>5. Len(log[f]) \in Nat /\ DOMAIN log[f] = 1..Len(log[f])
  BY <1>1 DEF Typed, Transcript
<1>6. QED
  BY <1>1, <1>4, <1>5 DEF TurnsOf, PromptLines, ReadRange

\* The invariant holds at the start.
LEMMA IngestInitially == Init => IngestInv
<1> SUFFICES ASSUME Init PROVE IngestInv
  OBVIOUS
<1>1. \A p \in Proc : job[p] = Idle
  BY DEF Init
<1>2. JobTyped(Idle) /\ DOMAIN Idle.plan = {}
  BY DEF JobTyped, Idle, JobFields, EmptyTable, InFile
<1>3. Typed
  <2>1. log \in [File -> Transcript] /\ now \in Nat
    BY DEF Init, Transcript
  <2>2. DOMAIN cursors = {} /\ IsFiniteSet(DOMAIN versions)
    BY FS_EmptySet DEF Init, EmptyTable
  <2>3. DOMAIN job = Proc /\ \A p \in Proc : JobTyped(job[p])
    BY <1>1, <1>2 DEF Init
  <2>4. QED
    BY <2>1, <2>2, <2>3 DEF Typed
<1>4. TimesTell /\ VersionsDated
  BY DEF Init, TimesTell, VersionsDated, EmptyTable
<1>5. AloneInOrder
  BY <1>1, <1>2 DEF Init, AloneInOrder, At, Idle, EmptyTable
<1>6. DoneBehind
  BY <1>1, <1>2 DEF Init, DoneBehind, JobDone, Done, CursorOf, PromptLines, EmptyTable, Idle,
     InFile
<1>7. QED
  BY <1>3, <1>4, <1>5, <1>6 DEF IngestInv

-----------------------------------------------------------------------------
\* One process goes on without touching transcripts or versions.
LEMMA Move ==
  ASSUME IngestInv, NEW p \in Proc, NEW r,
         UNCHANGED <<log, now, versions>>, overlapped => overlapped',
         job' = [job EXCEPT ![p] = r],
         JobTyped(r),
         DOMAIN cursors' \subseteq File,
         \A f \in DOMAIN cursors' : cursors'[f] \in Nat /\ cursors'[f] <= Len(log[f]),
         ~overlapped' =>
           /\ r.stage # "idle" => \A q \in Proc \ {p} : At(q, "idle")
           /\ r.stage \in {"node", "version"} =>
                r.ordinal = Cardinality(VersionsOf(SessionOf[FileOf(r)]))
           /\ \A f \in DOMAIN r.plan : CursorOf(f)' <= r.plan[f].to
           /\ cursors' = cursors \/ r.stage # "idle",
         Kept =>
           /\ \A f \in File : Done(f, CursorOf(f)', {})
           /\ JobDone(r)
           /\ \A s \in DOMAIN embeddings' : embeddings'[s] \subseteq Recorded
  PROVE  IngestInv'
<1>1. /\ DOMAIN job = Proc /\ DOMAIN job' = Proc /\ job'[p] = r
      /\ \A q \in Proc \ {p} : job'[q] = job[q]
  BY DEF IngestInv, Typed
<1>2. \A j : JobTyped(j) => JobTyped(j)'
  BY DEF JobTyped, TurnsOf, PromptLines
<1>3. Typed'
  BY <1>1, <1>2 DEF IngestInv, Typed
<1>4. TimesTell' /\ VersionsDated'
  BY DEF IngestInv, TimesTell, VersionsDated
<1>5. AloneInOrder'
  <2>1. SUFFICES ASSUME ~overlapped' PROVE AloneInOrder'
    BY DEF AloneInOrder
  <2>2. /\ \A q, o \in Proc : ~At(q, "idle") /\ ~At(o, "idle") => q = o
        /\ \A v \in DOMAIN versions :
             v.ordinal \in Nat /\ v.ordinal < Cardinality(VersionsOf(v.session))
        /\ \A q \in Proc : At(q, "node") \/ At(q, "version") =>
             job[q].ordinal = Cardinality(VersionsOf(SessionOf[FileOf(job[q])]))
        /\ \A q \in Proc : \A f \in DOMAIN job[q].plan : CursorOf(f) <= job[q].plan[f].to
    BY <2>1 DEF IngestInv, AloneInOrder
  <2>3. (\A q, o \in Proc : ~At(q, "idle") /\ ~At(o, "idle") => q = o)'
    BY <1>1, <2>1, <2>2 DEF At
  <2>4. \A s : VersionsOf(s)' = VersionsOf(s)
    BY DEF VersionsOf
  <2>5. (\A v \in DOMAIN versions :
           v.ordinal \in Nat /\ v.ordinal < Cardinality(VersionsOf(v.session)))'
    BY <2>2, <2>4
  <2>6. (\A q \in Proc : At(q, "node") \/ At(q, "version") =>
           job[q].ordinal = Cardinality(VersionsOf(SessionOf[FileOf(job[q])])))'
    BY <1>1, <2>1, <2>2, <2>4, ZenonT(40) DEF At, FileOf
  <2>7. (\A q \in Proc : \A f \in DOMAIN job[q].plan : CursorOf(f) <= job[q].plan[f].to)'
    <3>1. SUFFICES ASSUME NEW q \in Proc, NEW f \in DOMAIN job'[q].plan
                   PROVE  CursorOf(f)' <= job'[q].plan[f].to
      OBVIOUS
    <3>2. CASE q = p
      BY <1>1, <2>1, <3>2
    <3>3. CASE q # p
      <4>1. job'[q] = job[q] /\ DOMAIN job[q].plan # {}
        BY <1>1, <3>3
      <4>2. ~At(q, "idle")
        BY <4>1 DEF IngestInv, Typed, JobTyped, At
      <4>3. cursors' = cursors
        BY <2>1, <3>3, <4>2
      <4>4. QED
        BY <2>2, <4>1, <4>3 DEF CursorOf
    <3>4. QED
      BY <3>2, <3>3
  <2>8. QED
    BY <2>3, <2>5, <2>6, <2>7 DEF AloneInOrder
<1>6. DoneBehind'
  <2>1. Kept' => Kept
    BY DEF Kept
  <2>2. \A f, n, rest : Done(f, n, rest)' <=> Done(f, n, rest)
    BY DEF Done, PromptLines, Recorded
  <2>3. \A j : JobDone(j)' <=> JobDone(j)
    BY <2>2 DEF JobDone, FileOf
  <2>4. Recorded' = Recorded
    BY DEF Recorded
  <2>5. QED
    BY <1>1, <2>1, <2>2, <2>3, <2>4 DEF IngestInv, DoneBehind
<1>7. QED
  BY <1>3, <1>4, <1>5, <1>6 DEF IngestInv

\* ... and without moving a cursor or replacing a vector.
LEMMA Quiet ==
  ASSUME IngestInv, NEW p \in Proc, NEW r,
         UNCHANGED <<log, now, versions, cursors, embeddings>>, overlapped => overlapped',
         job' = [job EXCEPT ![p] = r],
         JobTyped(r),
         ~overlapped' =>
           /\ r.stage # "idle" => \A q \in Proc \ {p} : At(q, "idle")
           /\ r.stage \in {"node", "version"} =>
                r.ordinal = Cardinality(VersionsOf(SessionOf[FileOf(r)]))
           /\ \A f \in DOMAIN r.plan : CursorOf(f) <= r.plan[f].to,
         Kept => JobDone(r)
  PROVE  IngestInv'
<1>1. \A f : CursorOf(f)' = CursorOf(f)
  BY DEF CursorOf
<1>2. /\ DOMAIN cursors \subseteq File
      /\ \A f \in DOMAIN cursors : cursors[f] \in Nat /\ cursors[f] <= Len(log[f])
  BY DEF IngestInv, Typed
<1>3. Kept => /\ \A f \in File : Done(f, CursorOf(f), {})
              /\ \A s \in DOMAIN embeddings : embeddings[s] \subseteq Recorded
  BY DEF IngestInv, DoneBehind
<1>4. QED
  BY <1>1, <1>2, <1>3, Move

\* What a process that is not idle keeps: it is alone if passes do not overlap.
LEMMA Goes ==
  ASSUME IngestInv, NEW p \in Proc, ~At(p, "idle")
  PROVE  /\ JobTyped(job[p])
         /\ Kept => JobDone(job[p])
         /\ ~overlapped =>
              /\ \A q \in Proc \ {p} : At(q, "idle")
              /\ \A f \in DOMAIN job[p].plan : CursorOf(f) <= job[p].plan[f].to
BY DEF IngestInv, Typed, AloneInOrder, DoneBehind

\* A job at rest promises nothing.
LEMMA IdleIsFine == JobTyped(Idle) /\ JobDone(Idle) /\ DOMAIN Idle.plan = {}
BY DEF JobTyped, JobDone, Idle, JobFields, EmptyTable, InFile

\* One lemma for each action: the step keeps the invariant.
LEMMA StartStep ==
  ASSUME IngestInv, NEW p \in Proc, Start(p)
  PROVE  IngestInv'
<1> DEFINE r == [job[p] EXCEPT !.stage = "plan"]
<1>1. JobTyped(job[p]) /\ At(p, "idle")
  BY DEF IngestInv, Typed, Start
<1>2. /\ DOMAIN r = JobFields /\ r.stage = "plan" /\ r.plan = job[p].plan
      /\ DOMAIN r.plan = {}
  BY <1>1 DEF JobTyped, JobFields, At
<1>3. JobTyped(r) /\ JobDone(r)
  BY <1>2 DEF JobTyped, JobDone, InFile
<1>4. job' = [job EXCEPT ![p] = r]
  BY DEF Start, GoTo, IngestInv, Typed
<1>5. UNCHANGED <<log, now, versions, cursors, embeddings>> /\ (overlapped => overlapped')
  BY DEF Start, store
<1>6. ~overlapped' => \A q \in Proc \ {p} : At(q, "idle")
  BY DEF Start
<1> HIDE DEF r
<1>7. QED
  BY <1>2, <1>3, <1>4, <1>5, <1>6, Quiet

LEMMA PlanStep ==
  ASSUME IngestInv, NEW p \in Proc, NEW f \in File, PlanFile(p, f)
  PROVE  IngestInv'
<1> DEFINE end == Len(log[f])
           range == [from |-> CursorOf(f), to |-> end]
           plan == InsertOrReplace(job[p].plan, f, range)
           r == [job[p] EXCEPT !.plan = plan,
                               !.stage = IF DOMAIN plan = File THEN "file" ELSE "plan"]
<1>1. /\ At(p, "plan") /\ ~At(p, "idle") /\ job' = [job EXCEPT ![p] = r]
      /\ UNCHANGED <<log, now, versions, cursors, embeddings, overlapped>>
  BY DEF PlanFile, store, At, IngestInv, Typed
<1>2. CursorOf(f) \in Nat /\ end \in Nat /\ CursorOf(f) <= end
  BY DEF IngestInv, Typed, Transcript, CursorOf
<1>3. /\ DOMAIN plan = DOMAIN job[p].plan \cup {f} /\ plan[f] = range
      /\ \A g \in DOMAIN job[p].plan \ {f} : plan[g] = job[p].plan[g]
  BY DEF InsertOrReplace
<1>4. JobTyped(job[p]) /\ (Kept => JobDone(job[p]) /\ Done(f, CursorOf(f), {}))
  BY <1>1, Goes DEF IngestInv, DoneBehind
<1>5. DOMAIN r = JobFields /\ r.plan = plan /\ r.stage \in {"file", "plan"}
  BY <1>4 DEF JobTyped, JobFields
<1> HIDE DEF r, plan
<1>6. JobTyped(r)
  BY <1>2, <1>3, <1>4, <1>5 DEF JobTyped, InFile, ReadRange
<1>7. Kept => JobDone(r)
  BY <1>3, <1>4, <1>5 DEF JobDone, InFile
<1>8. ~overlapped => /\ \A q \in Proc \ {p} : At(q, "idle")
                     /\ \A g \in DOMAIN r.plan : CursorOf(g) <= r.plan[g].to
  BY <1>1, <1>2, <1>3, <1>5, Goes
<1>9. QED
  BY <1>1, <1>5, <1>6, <1>7, <1>8, Quiet

\* The turns that are to be read of a file, and those behind it, are all of its turns.
LEMMA TakeStep ==
  ASSUME IngestInv, NEW p \in Proc, NEW f \in File, TakeFile(p, f)
  PROVE  IngestInv'
<1> DEFINE range == job[p].plan[f]
           r == [job[p] EXCEPT !.stage = "turn", !.file = {f}, !.turns = TurnsOf(f, range)]
<1>1. /\ At(p, "file") /\ ~At(p, "idle") /\ f \in DOMAIN job[p].plan
      /\ job' = [job EXCEPT ![p] = r]
      /\ UNCHANGED <<log, now, versions, cursors, embeddings, overlapped>>
  BY DEF TakeFile, store, At, IngestInv, Typed
<1>2. JobTyped(job[p]) /\ (Kept => JobDone(job[p]))
  BY <1>1, Goes
<1>3. /\ DOMAIN r = JobFields /\ r.plan = job[p].plan /\ r.stage = "turn"
      /\ r.file = {f} /\ r.turns = TurnsOf(f, range)
  BY <1>2 DEF JobTyped, JobFields
<1> HIDE DEF r
<1>4. JobTyped(r)
  BY <1>1, <1>2, <1>3 DEF JobTyped
<1>5. FileOf(r) = f
  BY <1>3 DEF FileOf
<1>6. range \in ReadRange /\ range.from <= range.to
  BY <1>1, <1>2 DEF JobTyped
<1>7. PromptLines(f, 0, range.to) \ TurnsOf(f, range) \subseteq PromptLines(f, 0, range.from)
  BY <1>6 DEF PromptLines, TurnsOf, ReadRange
<1>8. Kept => JobDone(r)
  BY <1>1, <1>2, <1>3, <1>5, <1>7 DEF JobDone, Done
<1>9. QED
  BY <1>1, <1>3, <1>4, <1>8, Goes, Quiet

LEMMA ReadPriorStep ==
  ASSUME IngestInv, NEW p \in Proc, ReadPrior(p)
  PROVE  IngestInv'
<1> DEFINE n == Cardinality({v \in DOMAIN versions : v.session = SessionOf[FileOf(job[p])]})
           r == [job[p] EXCEPT !.stage = "node", !.ordinal = n]
<1>1. /\ At(p, "turn") /\ ~At(p, "idle") /\ job[p].turns # {}
      /\ job' = [job EXCEPT ![p] = r]
      /\ UNCHANGED <<log, now, versions, cursors, embeddings, overlapped>>
  BY DEF ReadPrior, store, At, IngestInv, Typed
<1>2. JobTyped(job[p]) /\ (Kept => JobDone(job[p]))
  BY <1>1, Goes
<1>3. /\ DOMAIN r = JobFields /\ r.plan = job[p].plan /\ r.stage = "node"
      /\ r.file = job[p].file /\ r.turns = job[p].turns /\ r.ordinal = n
  BY <1>2 DEF JobTyped, JobFields
<1> HIDE DEF r
<1>4. JobTyped(r)
  BY <1>1, <1>2, <1>3 DEF JobTyped, InFile, At
<1>5. FileOf(r) = FileOf(job[p])
  BY <1>3 DEF FileOf
<1>6. Kept => JobDone(r)
  BY <1>1, <1>2, <1>3, <1>5 DEF JobDone, InFile, At
<1>7. r.ordinal = Cardinality(VersionsOf(SessionOf[FileOf(r)]))
  BY <1>3, <1>5 DEF VersionsOf
<1>8. QED
  BY <1>1, <1>3, <1>4, <1>6, <1>7, Goes, Quiet

LEMMA PutTaskNodeStep ==
  ASSUME IngestInv, NEW p \in Proc, PutTaskNode(p)
  PROVE  IngestInv'
<1> DEFINE r == [job[p] EXCEPT !.stage = "version"]
<1>1. /\ At(p, "node") /\ ~At(p, "idle") /\ job' = [job EXCEPT ![p] = r]
      /\ UNCHANGED <<log, now, versions, cursors, embeddings, overlapped>>
  BY DEF PutTaskNode, GoTo, At, IngestInv, Typed
<1>2. JobTyped(job[p]) /\ (Kept => JobDone(job[p]))
  BY <1>1, Goes
<1>3. /\ DOMAIN r = JobFields /\ r.plan = job[p].plan /\ r.stage = "version"
      /\ r.file = job[p].file /\ r.turns = job[p].turns /\ r.ordinal = job[p].ordinal
  BY <1>2 DEF JobTyped, JobFields
<1> HIDE DEF r
<1>4. JobTyped(r)
  BY <1>1, <1>2, <1>3 DEF JobTyped, InFile, At
<1>5. FileOf(r) = FileOf(job[p])
  BY <1>3 DEF FileOf
<1>6. Kept => JobDone(r)
  BY <1>1, <1>2, <1>3, <1>5 DEF JobDone, InFile, At
<1>7. ~overlapped => r.ordinal = Cardinality(VersionsOf(SessionOf[FileOf(r)]))
  BY <1>1, <1>3, <1>5 DEF IngestInv, AloneInOrder
<1>8. QED
  BY <1>1, <1>3, <1>4, <1>6, <1>7, Goes, Quiet

\* The cursor moves to the end of what was read when its turns are all on record.
LEMMA SetCursorStep ==
  ASSUME IngestInv, NEW p \in Proc, SetCursor(p)
  PROVE  IngestInv'
<1> DEFINE f == FileOf(job[p])
           range == job[p].plan[f]
           r == [job[p] EXCEPT !.stage = "pin"]
<1>1. /\ At(p, "turn") /\ ~At(p, "idle") /\ job[p].turns = {}
      /\ job' = [job EXCEPT ![p] = r]
      /\ cursors' = InsertOrReplace(cursors, f, range.to)
      /\ UNCHANGED <<log, now, versions, embeddings, overlapped>>
  BY DEF SetCursor, GoTo, ReadEnd, At, IngestInv, Typed
<1>2. JobTyped(job[p]) /\ (Kept => JobDone(job[p]))
  BY <1>1, Goes
<1>3. /\ DOMAIN r = JobFields /\ r.plan = job[p].plan /\ r.stage = "pin"
      /\ r.file = job[p].file /\ r.turns = job[p].turns
  BY <1>2 DEF JobTyped, JobFields
<1>4. f \in File /\ f \in DOMAIN job[p].plan /\ range.to \in Nat /\ range.to <= Len(log[f])
  BY <1>1, WhereItIs DEF IngestInv, InFile, At, ReadRange
<1> HIDE DEF r, range
<1>5. JobTyped(r)
  BY <1>1, <1>2, <1>3 DEF JobTyped, InFile, At
<1>6. FileOf(r) = f
  BY <1>3 DEF FileOf
<1>7. Kept => JobDone(r) /\ Done(f, range.to, {})
  BY <1>1, <1>2, <1>3, <1>6 DEF JobDone, InFile, At, range
<1>8. \A g : CursorOf(g)' = IF g = f THEN range.to ELSE CursorOf(g)
  BY <1>1 DEF CursorOf, InsertOrReplace
<1>9. /\ DOMAIN cursors' \subseteq File
      /\ \A g \in DOMAIN cursors' : cursors'[g] \in Nat /\ cursors'[g] <= Len(log[g])
  BY <1>1, <1>4 DEF InsertOrReplace, IngestInv, Typed
<1>10. Kept => /\ \A g \in File : Done(g, CursorOf(g)', {})
               /\ \A s \in DOMAIN embeddings' : embeddings'[s] \subseteq Recorded
  BY <1>1, <1>7, <1>8 DEF IngestInv, DoneBehind
<1>11. ~overlapped => /\ \A q \in Proc \ {p} : At(q, "idle")
                      /\ \A g \in DOMAIN r.plan : CursorOf(g)' <= r.plan[g].to
  BY <1>1, <1>3, <1>4, <1>8, Goes DEF range
<1>12. QED
  BY <1>1, <1>3, <1>5, <1>7, <1>9, <1>10, <1>11, Move

LEMMA PinStep ==
  ASSUME IngestInv, NEW p \in Proc, PinRange(p)
  PROVE  IngestInv'
<1> DEFINE r == [job[p] EXCEPT !.stage = "embed"]
<1>1. /\ At(p, "pin") /\ ~At(p, "idle") /\ job' = [job EXCEPT ![p] = r]
      /\ UNCHANGED <<log, now, versions, cursors, embeddings, overlapped>>
  BY DEF PinRange, GoTo, At, IngestInv, Typed
<1>2. JobTyped(job[p]) /\ (Kept => JobDone(job[p]))
  BY <1>1, Goes
<1>3. /\ DOMAIN r = JobFields /\ r.plan = job[p].plan /\ r.stage = "embed"
      /\ r.file = job[p].file /\ r.turns = job[p].turns
  BY <1>2 DEF JobTyped, JobFields
<1> HIDE DEF r
<1>4. JobTyped(r)
  BY <1>1, <1>2, <1>3 DEF JobTyped, InFile, At
<1>5. FileOf(r) = FileOf(job[p])
  BY <1>3 DEF FileOf
<1>6. Kept => JobDone(r)
  BY <1>1, <1>2, <1>3, <1>5 DEF JobDone, InFile, At
<1>7. QED
  BY <1>1, <1>3, <1>4, <1>6, Goes, Quiet

LEMMA EmbedStep ==
  ASSUME IngestInv, NEW p \in Proc, EmbedSession(p)
  PROVE  IngestInv'
<1> DEFINE f == FileOf(job[p])
           range == job[p].plan[f]
           turns == {TurnAt(f, i) : i \in TurnsOf(f, range)}
           rest == [g \in DOMAIN job[p].plan \ {f} |-> job[p].plan[g]]
           r == IF DOMAIN rest = {} THEN Idle
                ELSE [Idle EXCEPT !.stage = "file", !.plan = rest]
<1>1. /\ At(p, "embed") /\ ~At(p, "idle") /\ job' = [job EXCEPT ![p] = r]
      /\ \/ embeddings' = InsertOrReplace(embeddings, VectorKey(f), turns)
         \/ UNCHANGED embeddings
      /\ UNCHANGED <<log, now, versions, cursors, overlapped>>
  BY DEF EmbedSession, At
<1>2. JobTyped(job[p]) /\ (Kept => JobDone(job[p]))
  BY <1>1, Goes
<1>3. \/ r = Idle
      \/ DOMAIN r = JobFields /\ r.stage = "file" /\ r.plan = rest
  BY DEF Idle, JobFields
<1>4. range \in ReadRange
  BY <1>1, WhereItIs DEF IngestInv, InFile, At
<1>5. Kept => turns \subseteq Recorded
  <2>1. SUFFICES ASSUME Kept, NEW i \in TurnsOf(f, range) PROVE TurnAt(f, i) \in Recorded
    OBVIOUS
  <2>2. Done(f, range.to, {})
    BY <1>1, <1>2, <2>1 DEF JobDone, JobTyped, InFile, At
  <2>3. i \in PromptLines(f, 0, range.to)
    BY <1>4 DEF TurnsOf, PromptLines, ReadRange
  <2>4. QED
    BY <2>2, <2>3 DEF Done
<1>6. \A g \in DOMAIN rest : g \in DOMAIN job[p].plan /\ rest[g] = job[p].plan[g]
  OBVIOUS
<1> HIDE DEF r, rest, turns
<1>7. JobTyped(r) /\ (r # Idle => r.stage = "file" /\ r.plan = rest)
  <2>1. CASE r = Idle
    BY <2>1, IdleIsFine
  <2>2. CASE DOMAIN r = JobFields /\ r.stage = "file" /\ r.plan = rest
    BY <1>2, <1>6, <2>2 DEF JobTyped, InFile
  <2>3. QED
    BY <1>3, <2>1, <2>2
<1>8. Kept => JobDone(r)
  BY <1>2, <1>6, <1>7, IdleIsFine DEF JobDone, InFile
<1>9. Kept => /\ \A g \in File : Done(g, CursorOf(g)', {})
              /\ \A s \in DOMAIN embeddings' : embeddings'[s] \subseteq Recorded
  BY <1>1, <1>5 DEF IngestInv, DoneBehind, CursorOf, InsertOrReplace
<1>10. ~overlapped => /\ \A q \in Proc \ {p} : At(q, "idle")
                      /\ \A g \in DOMAIN r.plan : CursorOf(g)' <= r.plan[g].to
  BY <1>1, <1>6, <1>7, IdleIsFine, Goes DEF CursorOf
<1>11. r.stage \notin {"node", "version"}
  BY <1>7 DEF Idle
<1>12. QED
  BY <1>1, <1>7, <1>8, <1>9, <1>10, <1>11, Move DEF IngestInv, Typed

LEMMA CrashStep ==
  ASSUME IngestInv, NEW p \in Proc, Crash(p)
  PROVE  IngestInv'
<1>1. /\ job' = [job EXCEPT ![p] = Idle]
      /\ UNCHANGED <<log, now, versions, cursors, embeddings, overlapped>>
  BY DEF Crash, store
<1>2. Idle.stage = "idle"
  BY DEF Idle
<1>3. QED
  BY <1>1, <1>2, IdleIsFine, Quiet

-----------------------------------------------------------------------------
\* What was read of a transcript stays as it was while the agent writes on.
LEMMA WriteStep ==
  ASSUME IngestInv, NEW f \in File, Write(f)
  PROVE  IngestInv'
<1>1. PICK line \in Row :
        /\ log' = [log EXCEPT ![f] = Append(@, line)]
        /\ StrictClock => line.at = now'
  <2>1. PICK kind \in {"prompt", "call"}, at \in IF StrictClock THEN {now'} ELSE {now', Epoch} :
          log' = [log EXCEPT ![f] = Append(@, [kind |-> kind, at |-> at])]
    BY DEF Write
  <2>2. at \in Nat /\ (StrictClock => at = now')
    BY DEF Write, IngestInv, Typed, Epoch
  <2>3. [kind |-> kind, at |-> at] \in Row
    BY <2>2 DEF Row
  <2>4. QED
    BY <2>1, <2>2, <2>3
<1>2. /\ now \in Nat /\ now' = now + 1
      /\ UNCHANGED <<versions, cursors, embeddings, job, overlapped>>
  BY DEF Write, store, IngestInv, Typed
<1>3. /\ log \in [File -> Transcript] /\ log' \in [File -> Transcript]
      /\ \A g \in File : DOMAIN log[g] = 1..Len(log[g]) /\ Len(log[g]) \in Nat
      /\ \A g \in File \ {f} : log'[g] = log[g]
      /\ Len(log'[f]) = Len(log[f]) + 1 /\ DOMAIN log'[f] = 1..(Len(log[f]) + 1)
      /\ \A i \in 1..Len(log[f]) : log'[f][i] = log[f][i]
      /\ log'[f][Len(log[f]) + 1] = line
  BY <1>1 DEF IngestInv, Typed, Transcript
<1>4. \A g \in File : Len(log[g]) <= Len(log'[g])
                    /\ \A i \in DOMAIN log[g] : i \in DOMAIN log'[g] /\ log'[g][i] = log[g][i]
  BY <1>3
<1>5. \A g \in File, from, to \in Nat : to <= Len(log[g]) =>
        PromptLines(g, from, to)' = PromptLines(g, from, to)
  BY <1>3, <1>4 DEF PromptLines
<1>6. \A q \in Proc : JobTyped(job[q])'
  <2>1. SUFFICES ASSUME NEW j, JobTyped(j) PROVE JobTyped(j)'
    BY <1>2 DEF IngestInv, Typed
  <2>2. \A g \in DOMAIN j.plan : /\ j.plan[g].to <= Len(log'[g])
                                /\ TurnsOf(g, j.plan[g])' = TurnsOf(g, j.plan[g])
    BY <1>3, <1>4, <1>5, <2>1 DEF JobTyped, TurnsOf, ReadRange
  <2>3. QED
    BY <2>1, <2>2 DEF JobTyped
<1>7. Typed'
  BY <1>2, <1>3, <1>4, <1>6 DEF IngestInv, Typed
<1>8. TimesTell'
  <2>1. SUFFICES ASSUME StrictClock, NEW g \in File, NEW h \in File,
                        NEW i \in DOMAIN log'[g], NEW k \in DOMAIN log'[h]
                 PROVE  /\ log'[g][i].at <= now'
                        /\ log'[g][i].at = log'[h][k].at => g = h /\ i = k
    BY DEF TimesTell
  <2> DEFINE New(d, n) == d = f /\ n = Len(log[f]) + 1
  <2>2. \A d \in File : \A n \in DOMAIN log'[d] :
          \/ New(d, n) /\ log'[d][n].at = now + 1
          \/ n \in DOMAIN log[d] /\ log'[d][n] = log[d][n] /\ log[d][n].at <= now
             /\ log[d][n].at \in Nat
    <3>1. SUFFICES ASSUME NEW d \in File, NEW n \in DOMAIN log'[d]
                   PROVE  \/ New(d, n) /\ log'[d][n].at = now + 1
                          \/ /\ n \in DOMAIN log[d] /\ log'[d][n] = log[d][n]
                             /\ log[d][n].at <= now /\ log[d][n].at \in Nat
      OBVIOUS
    <3>2. CASE New(d, n)
      BY <1>1, <1>2, <1>3, <2>1, <3>2
    <3>3. CASE ~New(d, n)
      <4>1. n \in DOMAIN log[d] /\ log'[d][n] = log[d][n]
        BY <1>3, <3>3
      <4>2. \A a, b \in File : \A m \in DOMAIN log[a], o \in DOMAIN log[b] : log[a][m].at <= now
        BY <2>1 DEF IngestInv, TimesTell
      <4>3. log[d][n] \in Row
        <5>1. log[d] \in Transcript /\ n \in 1..Len(log[d])
          BY <1>3, <4>1
        <5>2. QED
          BY <5>1 DEF Transcript
      <4>4. log[d][n].at <= now
        BY <4>1, <4>2
      <4>5. QED
        BY <4>1, <4>3, <4>4 DEF Row
    <3>4. QED
      BY <3>2, <3>3
  <2>3. \A n \in DOMAIN log[g], m \in DOMAIN log[h] :
          log[g][n].at = log[h][m].at => g = h /\ n = m
    BY <2>1 DEF IngestInv, TimesTell
  <2>4. CASE New(g, i) /\ New(h, k)
    BY <1>2, <2>2, <2>4
  <2>5. CASE i \in DOMAIN log[g] /\ log'[g][i] = log[g][i] /\ log[g][i].at <= now
             /\ log[g][i].at \in Nat
    BY <1>2, <2>2, <2>3, <2>5
  <2>6. CASE k \in DOMAIN log[h] /\ log'[h][k] = log[h][k] /\ log[h][k].at <= now
             /\ log[h][k].at \in Nat
    BY <1>2, <2>2, <2>3, <2>6
  <2>7. QED
    BY <2>2, <2>4, <2>5, <2>6
<1>9. VersionsDated'
  BY <1>2, <1>4 DEF IngestInv, VersionsDated
<1>10. AloneInOrder'
  <2>1. \A s : VersionsOf(s)' = VersionsOf(s)
    BY <1>2 DEF VersionsOf
  <2>2. \A g : CursorOf(g)' = CursorOf(g)
    BY <1>2 DEF CursorOf
  <2>3. \A q \in Proc : FileOf(job[q])' = FileOf(job[q])
    BY <1>2 DEF FileOf
  <2>4. QED
    BY <1>2, <2>1, <2>2, <2>3 DEF IngestInv, AloneInOrder, At
<1>11. \A g \in File, n \in Nat : \A lines : n <= Len(log[g]) =>
         (Done(g, n, lines)' <=> Done(g, n, lines))
  BY <1>2, <1>5 DEF Done, Recorded
<1>12. \A g \in File : CursorOf(g) \in Nat /\ CursorOf(g) <= Len(log[g])
                      /\ CursorOf(g)' = CursorOf(g)
  BY <1>2, <1>3 DEF CursorOf, IngestInv, Typed
<1>13. \A q \in Proc : JobDone(job[q]) => JobDone(job[q])'
  <2>1. SUFFICES ASSUME NEW q \in Proc, JobDone(job[q]) PROVE JobDone(job[q])'
    OBVIOUS
  <2>2. JobTyped(job[q])
    BY DEF IngestInv, Typed
  <2>3. \A g \in DOMAIN job[q].plan : Done(g, job[q].plan[g].from, {})'
    BY <1>2, <1>3, <1>11, <2>1, <2>2 DEF JobDone, JobTyped, ReadRange
  <2>4. ASSUME job[q].stage \in InFile
        PROVE  Done(FileOf(job[q]), job[q].plan[FileOf(job[q])].to, job[q].turns)'
    <3>1. /\ FileOf(job[q]) \in File /\ job[q].plan[FileOf(job[q])].to \in Nat
          /\ job[q].plan[FileOf(job[q])].to <= Len(log[FileOf(job[q])])
      BY <2>4, WhereItIs DEF IngestInv, ReadRange
    <3>2. FileOf(job[q])' = FileOf(job[q]) /\ job' = job
      BY <1>2 DEF FileOf
    <3>3. QED
      BY <1>11, <2>1, <2>4, <3>1, <3>2 DEF JobDone
  <2>5. QED
    BY <1>2, <2>3, <2>4 DEF JobDone
<1>14. DoneBehind'
  BY <1>2, <1>11, <1>12, <1>13 DEF IngestInv, DoneBehind, Kept, Recorded
<1>15. QED
  BY <1>7, <1>8, <1>9, <1>10, <1>14 DEF IngestInv

\* A version that is ignored has the id of one of the same turn, and an id without a
\* clock is never on record.
LEMMA IdTells ==
  ASSUME IngestInv, NEW p \in Proc, At(p, "version")
  PROVE  LET v == NewVersion(job[p])
             f == FileOf(job[p])
             i == FirstOf(job[p].turns)
         IN  /\ ~overlapped => v \notin DOMAIN versions
             /\ StrictClock /\ v \in DOMAIN versions => versions[v].turn = TurnAt(f, i)
<1> DEFINE v == NewVersion(job[p])
           f == FileOf(job[p])
           i == FirstOf(job[p].turns)
<1>1. /\ v.session = SessionOf[f] /\ v.at = log[f][i].at /\ v.ordinal = job[p].ordinal
      /\ f \in File /\ i \in DOMAIN log[f]
  BY TurnInHand DEF NewVersion, IngestInv
<1> HIDE DEF v
<1>2. ~overlapped => v \notin DOMAIN versions
  <2>1. SUFFICES ASSUME ~overlapped, v \in DOMAIN versions PROVE FALSE
    OBVIOUS
  <2>2. v.ordinal \in Nat /\ v.ordinal < Cardinality(VersionsOf(v.session))
    BY <2>1 DEF IngestInv, AloneInOrder
  <2>3. v.ordinal = Cardinality(VersionsOf(v.session))
    BY <1>1, <2>1 DEF IngestInv, AloneInOrder
  <2>4. QED
    BY <2>2, <2>3
<1>3. ASSUME StrictClock, v \in DOMAIN versions
      PROVE  versions[v].turn = TurnAt(f, i)
  <2>1. PICK g \in File : \E k \in DOMAIN log[g] :
          v.at = log[g][k].at /\ versions[v].turn = TurnAt(g, k)
    BY <1>3 DEF IngestInv, VersionsDated
  <2>2. PICK k \in DOMAIN log[g] : v.at = log[g][k].at /\ versions[v].turn = TurnAt(g, k)
    BY <2>1
  <2>3. \A d, e \in File : \A m \in DOMAIN log[d], n \in DOMAIN log[e] :
          log[d][m].at = log[e][n].at => d = e /\ m = n
    BY <1>3 DEF IngestInv, TimesTell
  <2>4. log[g][k].at = log[f][i].at
    BY <1>1, <2>2
  <2> HIDE DEF f, i
  <2>5. g = f /\ k = i
    BY <1>1, <2>3, <2>4
  <2>6. QED
    BY <2>2, <2>5
<1>4. QED
  BY <1>2, <1>3 DEF v

LEMMA AppendVersionStep ==
  ASSUME IngestInv, NEW p \in Proc, AppendVersion(p)
  PROVE  IngestInv'
<1> DEFINE v == NewVersion(job[p])
           f == FileOf(job[p])
           i == FirstOf(job[p].turns)
           row == [turn |-> TurnAt(f, i), declared |-> Declared(f, i, job[p].plan[f].to)]
           r == [job[p] EXCEPT !.stage = "turn", !.turns = job[p].turns \ {i}]
<1>1. /\ At(p, "version") /\ ~At(p, "idle") /\ job' = [job EXCEPT ![p] = r]
      /\ versions' = InsertOrIgnore(versions, v, row)
      /\ UNCHANGED <<log, now, cursors, embeddings, overlapped>>
  BY DEF AppendVersion, At, IngestInv, Typed
<1>2. JobTyped(job[p]) /\ (Kept => JobDone(job[p]))
  BY <1>1, Goes
<1>3. /\ DOMAIN r = JobFields /\ r.plan = job[p].plan /\ r.stage = "turn"
      /\ r.file = job[p].file /\ r.turns = job[p].turns \ {i}
  BY <1>2 DEF JobTyped, JobFields
<1>4. /\ v.session = SessionOf[f] /\ v.at = log[f][i].at /\ v.ordinal = job[p].ordinal
      /\ f \in File /\ i \in DOMAIN log[f]
      /\ ~overlapped => v \notin DOMAIN versions
      /\ StrictClock /\ v \in DOMAIN versions => versions[v].turn = TurnAt(f, i)
  BY <1>1, TurnInHand, IdTells DEF NewVersion, IngestInv
<1>5. row.turn = TurnAt(f, i)
  OBVIOUS
<1> HIDE DEF r, v, row
<1>6. /\ DOMAIN versions' = DOMAIN versions \cup {v}
      /\ \A k \in DOMAIN versions : versions'[k] = versions[k]
      /\ v \notin DOMAIN versions => versions'[v] = row
  BY <1>1 DEF InsertOrIgnore
<1>7. /\ DOMAIN job' = Proc /\ job'[p] = r
      /\ \A q \in Proc \ {p} : job'[q] = job[q]
  BY <1>1 DEF IngestInv, Typed
<1>8. Typed'
  <2>1. \A j : JobTyped(j) => JobTyped(j)'
    BY <1>1 DEF JobTyped, TurnsOf, PromptLines
  <2>2. JobTyped(r)
    BY <1>1, <1>2, <1>3 DEF JobTyped, InFile, At
  <2>3. IsFiniteSet(DOMAIN versions')
    BY <1>6, FS_AddElement DEF IngestInv, Typed
  <2>4. QED
    BY <1>1, <1>7, <2>1, <2>2, <2>3 DEF IngestInv, Typed
<1>9. TimesTell'
  BY <1>1 DEF IngestInv, TimesTell
<1>10. VersionsDated'
  BY <1>1, <1>4, <1>5, <1>6 DEF IngestInv, VersionsDated
<1>11. AloneInOrder'
  <2>1. SUFFICES ASSUME ~overlapped PROVE AloneInOrder'
    BY <1>1 DEF AloneInOrder
  <2>2. /\ \A q \in Proc \ {p} : At(q, "idle")
        /\ \A q \in Proc : \A g \in DOMAIN job[q].plan : CursorOf(g) <= job[q].plan[g].to
        /\ \A k \in DOMAIN versions :
             k.ordinal \in Nat /\ k.ordinal < Cardinality(VersionsOf(k.session))
        /\ job[p].ordinal = Cardinality(VersionsOf(SessionOf[f]))
    BY <1>1, <2>1, Goes DEF IngestInv, AloneInOrder
  <2>3. \A s : /\ IsFiniteSet(VersionsOf(s)) /\ Cardinality(VersionsOf(s)) \in Nat
               /\ Cardinality(VersionsOf(s)') =
                    Cardinality(VersionsOf(s)) + (IF s = v.session THEN 1 ELSE 0)
    <3>1. TAKE s
    <3>2. IsFiniteSet(VersionsOf(s))
      BY FS_Subset DEF VersionsOf, IngestInv, Typed
    <3>3. VersionsOf(s)' = IF s = v.session THEN VersionsOf(s) \cup {v} ELSE VersionsOf(s)
      BY <1>6 DEF VersionsOf
    <3>4. v \notin VersionsOf(s)
      BY <1>4, <2>1 DEF VersionsOf
    <3>5. QED
      BY <3>2, <3>3, <3>4, FS_AddElement, FS_CardinalityType
  <2>4. \A k \in DOMAIN versions' :
          k.ordinal \in Nat /\ k.ordinal < Cardinality(VersionsOf(k.session)')
    BY <1>4, <1>6, <2>2, <2>3
  <2>5. \A q \in Proc : \A g \in DOMAIN job'[q].plan : CursorOf(g)' <= job'[q].plan[g].to
    BY <1>1, <1>3, <1>7, <2>2 DEF CursorOf
  <2>6. QED
    BY <1>3, <1>7, <2>2, <2>4, <2>5 DEF AloneInOrder, At
<1>12. DoneBehind'
  <2>1. SUFFICES ASSUME Kept PROVE DoneBehind'
    BY <1>1 DEF DoneBehind, Kept
  <2>2. Recorded \subseteq Recorded'
    BY <1>6 DEF Recorded
  <2>3. TurnAt(f, i) \in Recorded'
    BY <1>4, <1>5, <1>6, <2>1 DEF Recorded, Kept
  <2>4. \A g, n, lines : Done(g, n, lines) => Done(g, n, lines)'
    BY <1>1, <2>2 DEF Done, PromptLines
  <2>5. \A j : JobDone(j) => JobDone(j)'
    BY <2>4 DEF JobDone, FileOf
  <2>6. ASSUME NEW j, j = r
        PROVE  JobDone(j)'
    <3>1. PICK g : g = f
      OBVIOUS
    <3>2. /\ FileOf(j) = g /\ j.plan = job[p].plan /\ j.stage = "turn"
          /\ j.turns = job[p].turns \ {i}
      BY <1>3, <2>6, <3>1 DEF FileOf
    <3>3. /\ \A h \in DOMAIN j.plan : Done(h, j.plan[h].from, {})
          /\ Done(g, j.plan[g].to, job[p].turns)
      BY <1>1, <1>2, <2>1, <3>1, <3>2 DEF JobDone, InFile, At
    <3>4. \A h \in DOMAIN j.plan : Done(h, j.plan[h].from, {})'
      BY <2>4, <3>3
    <3>5. Done(g, j.plan[g].to, j.turns)'
      <4>1. \A k \in PromptLines(g, 0, j.plan[g].to) \ job[p].turns : TurnAt(g, k) \in Recorded
        BY <3>3 DEF Done
      <4>2. \A k \in PromptLines(g, 0, j.plan[g].to) \ j.turns : TurnAt(g, k) \in Recorded'
        BY <2>2, <2>3, <3>1, <3>2, <4>1
      <4>3. PromptLines(g, 0, j.plan[g].to)' = PromptLines(g, 0, j.plan[g].to)
        BY <1>1 DEF PromptLines
      <4>4. QED
        BY <4>2, <4>3 DEF Done
    <3>6. FileOf(j)' = g
      BY <3>2 DEF FileOf
    <3>7. QED
      BY <3>4, <3>5, <3>6 DEF JobDone
  <2>7. \A q \in Proc : JobDone(job[q])'
    <3>1. SUFFICES ASSUME NEW q \in Proc, NEW j, j = job'[q] PROVE JobDone(j)'
      OBVIOUS
    <3>2. CASE q = p
      BY <1>7, <2>6, <3>1, <3>2
    <3>3. CASE q # p
      BY <1>7, <2>1, <2>5, <3>1, <3>3 DEF IngestInv, DoneBehind
    <3>4. QED
      BY <3>2, <3>3
  <2>8. \A g \in File : Done(g, CursorOf(g), {})'
    <3>1. SUFFICES ASSUME NEW g \in File, NEW n, n = CursorOf(g)' PROVE Done(g, n, {})'
      OBVIOUS
    <3>2. n = CursorOf(g)
      BY <1>1, <3>1 DEF CursorOf
    <3>3. QED
      BY <2>1, <2>4, <3>2 DEF IngestInv, DoneBehind
  <2>9. \A s \in DOMAIN embeddings' : embeddings'[s] \subseteq Recorded'
    BY <1>1, <2>1, <2>2 DEF IngestInv, DoneBehind
  <2>10. QED
    BY <2>7, <2>8, <2>9 DEF DoneBehind
<1>13. QED
  BY <1>8, <1>9, <1>10, <1>11, <1>12 DEF IngestInv

\* So every step keeps it.
LEMMA IngestInductive == IngestInv /\ [Next]_vars => IngestInv'
<1> SUFFICES ASSUME IngestInv, [Next]_vars PROVE IngestInv'
  OBVIOUS
<1>1. CASE UNCHANGED vars
  <2>1. UNCHANGED <<log, now, versions, cursors, embeddings, job, overlapped>>
    BY <1>1 DEF vars, store
  <2>2. /\ \A s : VersionsOf(s)' = VersionsOf(s)
        /\ \A f : CursorOf(f)' = CursorOf(f)
        /\ \A j : FileOf(j)' = FileOf(j)
        /\ \A f, n, lines : Done(f, n, lines)' <=> Done(f, n, lines)
        /\ Recorded' = Recorded
    BY <2>1 DEF VersionsOf, CursorOf, FileOf, Done, PromptLines, Recorded
  <2>3. \A j : (JobTyped(j)' <=> JobTyped(j)) /\ (JobDone(j)' <=> JobDone(j))
    BY <2>1, <2>2 DEF JobTyped, JobDone, TurnsOf, PromptLines
  <2>4. Typed' /\ TimesTell' /\ VersionsDated'
    BY <2>1, <2>3 DEF IngestInv, Typed, TimesTell, VersionsDated
  <2>5. AloneInOrder' /\ DoneBehind'
    BY <2>1, <2>2, <2>3 DEF IngestInv, AloneInOrder, At, DoneBehind, Kept
  <2>6. QED
    BY <2>4, <2>5 DEF IngestInv
<1>2. ASSUME NEW f \in File, Write(f) PROVE IngestInv'
  BY <1>2, WriteStep
<1>3. ASSUME NEW p \in Proc, Start(p) \/ Observe(p) \/ Crash(p) PROVE IngestInv'
  BY <1>3, StartStep, PlanStep, TakeStep, ReadPriorStep, PutTaskNodeStep, AppendVersionStep,
     SetCursorStep, PinStep, EmbedStep, CrashStep DEF Observe
<1>4. QED
  BY <1>1, <1>2, <1>3 DEF Next

\* And it holds always.
LEMMA Invariance == Spec => []IngestInv
BY IngestInitially, IngestInductive, PTL DEF Spec

\* No turn is skipped: whatever crashed, and whatever ran beside it if lines have times
\* of their own, all that lies behind a cursor is on record.
THEOREM NoTurnIsSkipped == Spec => []NothingSkipped
<1>1. IngestInv => NothingSkipped
  BY DEF IngestInv, DoneBehind, Kept, NothingSkipped, Done
<1>2. QED
  BY <1>1, Invariance, PTL

\* No vector is of a turn that is not on record, under the same condition.
THEOREM VectorsAreOfTheRecord == Spec => []EmbeddedIsRecorded
<1>1. IngestInv => EmbeddedIsRecorded
  BY DEF IngestInv, DoneBehind, Kept, EmbeddedIsRecorded
<1>2. QED
  BY <1>1, Invariance, PTL

\* Where passes do not overlap, the plan of the one that runs reads on from the cursor.
THEOREM CursorNeverFallsBack == Spec => CursorAdvances
<1>1. IngestInv /\ [Next]_vars =>
        [~overlapped => \A f \in File : CursorOf(f)' >= CursorOf(f)]_vars
  <2> SUFFICES ASSUME IngestInv, [Next]_vars, ~overlapped, NEW f \in File
               PROVE  CursorOf(f)' >= CursorOf(f)
    OBVIOUS
  <2>1. CursorOf(f) \in Nat
    BY DEF IngestInv, Typed, CursorOf
  <2>2. CASE UNCHANGED cursors
    BY <2>1, <2>2 DEF CursorOf
  <2>3. ASSUME NEW p \in Proc, SetCursor(p)
        PROVE  CursorOf(f)' >= CursorOf(f)
    <3> DEFINE g == FileOf(job[p])
               to == job[p].plan[g].to
    <3>1. At(p, "turn") /\ cursors' = InsertOrReplace(cursors, g, to)
      BY <2>3 DEF SetCursor, ReadEnd
    <3>2. g \in DOMAIN job[p].plan /\ to \in Nat
      BY <3>1, WhereItIs DEF IngestInv, InFile, At, ReadRange
    <3>3. CursorOf(g) <= to
      BY <3>2 DEF IngestInv, AloneInOrder
    <3> HIDE DEF g, to
    <3>4. CursorOf(f)' = IF f = g THEN to ELSE CursorOf(f)
      BY <3>1 DEF CursorOf, InsertOrReplace
    <3>5. QED
      BY <2>1, <3>2, <3>3, <3>4
  <2>4. CASE UNCHANGED vars
    BY <2>2, <2>4 DEF vars, store
  <2>5. CASE \E g \in File : Write(g)
    BY <2>2, <2>5 DEF Write, store
  <2>6. ASSUME NEW p \in Proc, Start(p) \/ Crash(p) \/ (Observe(p) /\ ~SetCursor(p))
        PROVE  UNCHANGED cursors
    BY <2>6 DEF Start, Crash, store, Observe, PlanFile, TakeFile, ReadPrior, PutTaskNode,
       AppendVersion, PinRange, EmbedSession
  <2>7. QED
    BY <2>2, <2>3, <2>4, <2>5, <2>6 DEF Next, Observe
<1>2. QED
  BY <1>1, Invariance, PTL DEF Spec, CursorAdvances

-----------------------------------------------------------------------------
\* The detailed ingest implements the abstract promise, where lines have times of their
\* own: writing a line produces, appending a version delivers, and setting a cursor
\* resumes; every other step, crashes and overlaps included, is a stutter.
LEMMA PromiseInitially == Init => Promise!Init
BY DEF Init, Promise!Init, Turns, PromptLines, Recorded, CursorOf, EmptyTable

\* Refinement, action by action: a line that is written is produced.
LEMMA WriteProduces ==
  ASSUME IngestInv, NEW f \in File, Write(f)
  PROVE  Promise!Produce(f)
<1>1. PICK kind \in {"prompt", "call"}, at \in {now', Epoch} :
        log' = [log EXCEPT ![f] = Append(@, [kind |-> kind, at |-> at])]
  BY DEF Write
<1>2. UNCHANGED <<versions, cursors>>
  BY DEF Write, store
<1>3. /\ \A g \in File : Len(log[g]) \in Nat
      /\ \A g \in File \ {f} : log'[g] = log[g]
      /\ Len(log'[f]) = Len(log[f]) + 1
      /\ \A i \in 1..Len(log[f]) : log'[f][i] = log[f][i]
      /\ log'[f][Len(log[f]) + 1].kind = kind
  BY <1>1 DEF IngestInv, Typed, Transcript
<1> DEFINE Prompts(g) == PromptLines(g, 0, Len(log[g]))
<1>4. \A g \in File \ {f} : Prompts(g)' = Prompts(g)
  BY <1>3 DEF PromptLines
<1>5. Prompts(f)' = Prompts(f) \cup (IF kind = "prompt" THEN {Len(log[f]) + 1} ELSE {})
  BY <1>3 DEF PromptLines
<1>6. Turns = UNION {{TurnAt(g, i) : i \in Prompts(g)} : g \in File}
  BY DEF Turns
<1>7. Turns' = UNION {{TurnAt(g, i) : i \in Prompts(g)'} : g \in File}
  BY DEF Turns, TurnAt
<1> HIDE DEF Prompts
<1>8. Turns' = Turns \cup
        (IF kind = "prompt" THEN {[file |-> f, line |-> Len(log[f]) + 1]} ELSE {})
  BY <1>4, <1>5, <1>6, <1>7 DEF TurnAt
<1>9. [g \in File |-> Len(log[g])]' = [[g \in File |-> Len(log[g])] EXCEPT ![f] = @ + 1]
  BY <1>3
<1>10. Recorded' = Recorded /\ [g \in File |-> CursorOf(g)]' = [g \in File |-> CursorOf(g)]
  BY <1>2 DEF Recorded, CursorOf
<1>11. QED
  BY <1>8, <1>9, <1>10 DEF Promise!Produce

\* A version on record delivers its turn, or one delivered before.
LEMMA VersionDelivers ==
  ASSUME IngestInv, NEW p \in Proc, AppendVersion(p)
  PROVE  (\E t \in Turns : Promise!Deliver(t)) \/ UNCHANGED Promise!vars
<1> DEFINE f == FileOf(job[p])
           i == FirstOf(job[p].turns)
           v == NewVersion(job[p])
<1>1. /\ f \in File /\ i \in DOMAIN log[f]
      /\ i \in PromptLines(f, job[p].plan[f].from, job[p].plan[f].to)
      /\ job[p].plan[f].from \in Nat /\ job[p].plan[f].to \in Nat
      /\ job[p].plan[f].to <= Len(log[f]) /\ Len(log[f]) \in Nat
  BY TurnInHand, WhereItIs
     DEF AppendVersion, IngestInv, Typed, Transcript, InFile, At, ReadRange
<1>2. TurnAt(f, i) \in Turns
  <2>1. i \in PromptLines(f, 0, Len(log[f]))
    BY <1>1 DEF PromptLines
  <2>2. QED
    BY <1>1, <2>1 DEF Turns
<1>3. UNCHANGED <<log, cursors>>
  BY DEF AppendVersion
<1>4. Turns' = Turns /\ UNCHANGED <<[g \in File |-> Len(log[g])], [g \in File |-> CursorOf(g)]>>
  BY <1>3 DEF Turns, PromptLines, CursorOf
<1>5. PICK row : row.turn = TurnAt(f, i) /\ versions' = InsertOrIgnore(versions, v, row)
  BY DEF AppendVersion
<1> HIDE DEF v
<1>6. Recorded' = IF v \in DOMAIN versions THEN Recorded ELSE Recorded \cup {TurnAt(f, i)}
  BY <1>5 DEF InsertOrIgnore, Recorded
<1>7. CASE v \in DOMAIN versions
  BY <1>4, <1>6, <1>7 DEF Promise!vars
<1>8. CASE v \notin DOMAIN versions
  BY <1>2, <1>4, <1>6, <1>8 DEF Promise!Deliver
<1>9. QED
  BY <1>7, <1>8

\* A cursor that is set resumes behind what was delivered.
LEMMA CursorResumes ==
  ASSUME StrictClock, IngestInv, NEW p \in Proc, SetCursor(p)
  PROVE  \E f \in File : \E n \in 0..Len(log[f]) : Promise!Resume(f, n)
<1> DEFINE f == FileOf(job[p])
           n == job[p].plan[f].to
<1>1. /\ At(p, "turn") /\ ~At(p, "idle") /\ job[p].turns = {}
      /\ cursors' = InsertOrReplace(cursors, f, n) /\ UNCHANGED <<log, versions>>
  BY DEF SetCursor, ReadEnd, At
<1>2. f \in File /\ n \in 0..Len(log[f])
  BY <1>1, WhereItIs DEF IngestInv, Typed, Transcript, InFile, At, ReadRange
<1>3. Done(f, n, {})
  BY <1>1, Goes DEF Kept, JobDone, InFile, At
<1>4. UNCHANGED <<[g \in File |-> Len(log[g])], Turns, Recorded>>
  BY <1>1 DEF Turns, PromptLines, Recorded
<1> HIDE DEF f, n
<1>5. Promise!Before(f, n) \subseteq Recorded
  BY <1>2, <1>3 DEF Promise!Before, Turns, TurnAt, Done, PromptLines
<1>6. [g \in File |-> CursorOf(g)]' = [[g \in File |-> CursorOf(g)] EXCEPT ![f] = n]
  BY <1>1 DEF CursorOf, InsertOrReplace
<1>7. QED
  BY <1>2, <1>4, <1>5, <1>6 DEF Promise!Resume

\* So each step is one of the promise, or none.
LEMMA StepsKeepThePromise ==
  ASSUME StrictClock
  PROVE  IngestInv /\ [Next]_vars => [Promise!Next]_(Promise!vars)
<1> SUFFICES ASSUME IngestInv, [Next]_vars
             PROVE  Promise!Next \/ UNCHANGED Promise!vars
  OBVIOUS
<1>1. CASE UNCHANGED <<log, versions, cursors>>
  BY <1>1 DEF Promise!vars, Turns, PromptLines, Recorded, CursorOf
<1>2. CASE \E f \in File : Write(f)
  BY <1>2, WriteProduces DEF Promise!Next
<1>3. ASSUME NEW p \in Proc, AppendVersion(p)
      PROVE  Promise!Next \/ UNCHANGED Promise!vars
  BY <1>3, VersionDelivers DEF Promise!Next
<1>4. ASSUME NEW p \in Proc, SetCursor(p)
      PROVE  Promise!Next
  <2>1. PICK f \in File : \E n \in 0..Len(log[f]) : Promise!Resume(f, n)
    BY <1>4, CursorResumes
  <2>2. [g \in File |-> Len(log[g])][f] = Len(log[f])
    OBVIOUS
  <2>3. QED
    BY <2>1, <2>2 DEF Promise!Next
<1>5. ASSUME NEW p \in Proc,
             Start(p) \/ Crash(p) \/ (Observe(p) /\ ~SetCursor(p) /\ ~AppendVersion(p))
      PROVE  UNCHANGED <<log, versions, cursors>>
  BY <1>5 DEF Start, Crash, store, Observe, PlanFile, TakeFile, ReadPrior, PutTaskNode,
     PinRange, EmbedSession
<1>6. CASE UNCHANGED vars
  BY <1>1, <1>6 DEF vars, store
<1>7. QED
  BY <1>1, <1>2, <1>3, <1>4, <1>5, <1>6 DEF Next, Observe

\* Every pass delivers at least once, whatever crashes and however passes overlap.
THEOREM DeliveredAtLeastOnce ==
  ASSUME StrictClock
  PROVE  Spec => DeliversAtLeastOnce
BY PromiseInitially, StepsKeepThePromise, Invariance, PTL
   DEF Spec, DeliversAtLeastOnce, Promise!Spec


-----------------------------------------------------------------------------
(***************************************************************************)
(* What a crash costs: a digest, a repetition, a task node that points to  *)
(* nothing.  Each is counted by an invariant of its own, which the         *)
(* invariant above supports.                                               *)
(***************************************************************************)

\* A pass that runs alone has planned each file from its cursor or beyond.
PlannedAhead ==
  /\ crashes \in Nat
  /\ ~overlapped => \A p \in Proc : \A f \in DOMAIN job[p].plan :
       ~(job[p].stage \in {"pin", "embed"} /\ job[p].file = {f}) =>
         CursorOf(f) <= job[p].plan[f].from

Covered(f, i) ==
  \/ \E r \in pins : r.file = f /\ r.from < i /\ i <= r.to
  \/ \E p \in Proc :
       /\ At(p, "pin") /\ job[p].file = {f}
       /\ job[p].plan[f].from < i /\ i <= job[p].plan[f].to

CoveredTo(f, n) == \A i \in 1..n : Covered(f, i)

\* Digests reach to every place a pass has read from or is to read from.
PinsInOrder ==
  crashes = 0 =>
    /\ \A f \in File : CoveredTo(f, CursorOf(f))
    /\ \A p \in Proc : \A f \in DOMAIN job[p].plan : CoveredTo(f, job[p].plan[f].from)

\* The pass at file f is through with line i.
Given(f, i) ==
  \E p \in Proc :
    /\ job[p].stage \in {"turn", "node", "version"} /\ job[p].file = {f}
    /\ i <= job[p].plan[f].to /\ i \notin job[p].turns

\* Before a pass has given a turn its version, there is one for each crash at most.
CopiesCounted ==
  ~overlapped =>
    \A f \in File : \A i \in Nat :
      /\ Copies(TurnAt(f, i)) <= 1 + crashes
      /\ CursorOf(f) < i /\ ~Given(f, i) => Copies(TurnAt(f, i)) <= crashes

\* The turn at line i is read again, by the pass that runs or by the next one.
Ahead(f, i) ==
  /\ i \in PromptLines(f, CursorOf(f), Len(log[f]))
  /\ \A p \in Proc : f \in DOMAIN job[p].plan =>
       /\ job[p].plan[f].from < i /\ i <= job[p].plan[f].to
       /\ job[p].stage \in InFile /\ job[p].file = {f} => i \in job[p].turns

DanglingAhead ==
  ~overlapped =>
    /\ \A s \in DOMAIN taskNodes :
         taskNodes[s] \notin DOMAIN versions =>
           \E f \in File : \E i \in Nat :
             SessionOf[f] = s /\ Ahead(f, i) /\ taskNodes[s].at = log[f][i].at
    /\ \A p \in Proc : At(p, "version") =>
         LET v == NewVersion(job[p])
         IN  v.session \in DOMAIN taskNodes /\ taskNodes[v.session] = v

CrashInv == IngestInv /\ PlannedAhead /\ PinsInOrder /\ CopiesCounted /\ DanglingAhead

\* What each step does to the job it belongs to.
Moves(p) == /\ DOMAIN job = Proc /\ DOMAIN job' = Proc
            /\ \A q \in Proc \ {p} : job'[q] = job[q]

Stays(p) == /\ job'[p].plan = job[p].plan /\ job'[p].file = job[p].file

Rest == UNCHANGED <<log, crashes, overlapped>>

\* What each action does to cursors, versions and pins.
LEMMA StartDoes ==
  ASSUME IngestInv, NEW p \in Proc, Start(p)
  PROVE  /\ Moves(p) /\ job[p].stage = "idle" /\ job'[p].stage = "plan"
         /\ DOMAIN job[p].plan = {} /\ DOMAIN job'[p].plan = {}
         /\ UNCHANGED <<log, crashes, taskNodes, versions, cursors, pins>>
         /\ ~overlapped' => ~overlapped /\ \A q \in Proc : job[q].stage = "idle"
<1>1. JobTyped(job[p]) /\ DOMAIN job = Proc
  BY DEF IngestInv, Typed
<1>2. QED
  BY <1>1 DEF Start, GoTo, store, Moves, At, JobTyped, JobFields

LEMMA PlanDoes ==
  ASSUME IngestInv, NEW p \in Proc, NEW f \in File, PlanFile(p, f)
  PROVE  /\ Moves(p) /\ Rest /\ job[p].stage = "plan" /\ job'[p].stage \in {"plan", "file"}
         /\ DOMAIN job'[p].plan = DOMAIN job[p].plan \cup {f} /\ f \notin DOMAIN job[p].plan
         /\ job'[p].plan[f].from = CursorOf(f) /\ job'[p].plan[f].to = Len(log[f])
         /\ \A g \in DOMAIN job[p].plan : job'[p].plan[g] = job[p].plan[g]
         /\ UNCHANGED <<taskNodes, versions, cursors, pins>>
<1>1. JobTyped(job[p]) /\ DOMAIN job = Proc
  BY DEF IngestInv, Typed
<1> DEFINE plan == InsertOrReplace(job[p].plan, f, [from |-> CursorOf(f), to |-> Len(log[f])])
<1>2. /\ DOMAIN plan = DOMAIN job[p].plan \cup {f}
      /\ plan[f] = [from |-> CursorOf(f), to |-> Len(log[f])]
      /\ \A g \in DOMAIN job[p].plan \ {f} : plan[g] = job[p].plan[g]
  BY DEF InsertOrReplace
<1>3. /\ job' = [job EXCEPT ![p].plan = plan,
                           ![p].stage = IF DOMAIN plan = File THEN "file" ELSE "plan"]
      /\ job[p].stage = "plan" /\ f \notin DOMAIN job[p].plan
      /\ UNCHANGED <<log, crashes, overlapped, taskNodes, versions, cursors, pins>>
  BY DEF PlanFile, store, At
<1> HIDE DEF plan
<1>4. job'[p].plan = plan /\ job'[p].stage \in {"plan", "file"} /\ Moves(p)
  BY <1>1, <1>3 DEF Moves, JobTyped, JobFields
<1>5. job'[p].plan[f].from = CursorOf(f) /\ job'[p].plan[f].to = Len(log[f])
  BY <1>2, <1>4
<1>6. QED
  BY <1>2, <1>3, <1>4, <1>5 DEF Rest

LEMMA TakeDoes ==
  ASSUME IngestInv, NEW p \in Proc, NEW f \in File, TakeFile(p, f)
  PROVE  /\ Moves(p) /\ Rest /\ job[p].stage = "file" /\ job'[p].stage = "turn"
         /\ f \in DOMAIN job[p].plan /\ job'[p].plan = job[p].plan /\ job'[p].file = {f}
         /\ job'[p].turns = TurnsOf(f, job[p].plan[f])
         /\ UNCHANGED <<taskNodes, versions, cursors, pins>>
<1>1. JobTyped(job[p]) /\ DOMAIN job = Proc
  BY DEF IngestInv, Typed
<1>2. QED
  BY <1>1 DEF TakeFile, store, Moves, Rest, At, JobTyped, JobFields

LEMMA ReadPriorDoes ==
  ASSUME IngestInv, NEW p \in Proc, ReadPrior(p)
  PROVE  /\ Moves(p) /\ Rest /\ Stays(p) /\ job'[p].turns = job[p].turns
         /\ job[p].stage = "turn" /\ job'[p].stage = "node"
         /\ UNCHANGED <<taskNodes, versions, cursors, pins>>
<1>1. JobTyped(job[p]) /\ DOMAIN job = Proc
  BY DEF IngestInv, Typed
<1>2. QED
  BY <1>1 DEF ReadPrior, store, Moves, Stays, Rest, At, JobTyped, JobFields

LEMMA PutTaskNodeDoes ==
  ASSUME IngestInv, NEW p \in Proc, PutTaskNode(p)
  PROVE  LET v == NewVersion(job[p])
         IN  /\ Moves(p) /\ Rest /\ Stays(p) /\ job'[p].turns = job[p].turns
             /\ job[p].stage = "node" /\ job'[p].stage = "version"
             /\ NewVersion(job'[p]) = v
             /\ taskNodes' = InsertOrReplace(taskNodes, v.session, v)
             /\ UNCHANGED <<versions, cursors, pins>>
<1>1. JobTyped(job[p]) /\ DOMAIN job = Proc
  BY DEF IngestInv, Typed
<1>2. /\ Moves(p) /\ Rest /\ Stays(p) /\ job'[p].turns = job[p].turns
      /\ job'[p].ordinal = job[p].ordinal
      /\ job[p].stage = "node" /\ job'[p].stage = "version"
      /\ UNCHANGED <<log, versions, cursors, pins>>
  BY <1>1 DEF PutTaskNode, GoTo, Moves, Stays, Rest, At, JobTyped, JobFields
<1>3. QED
  BY <1>2 DEF PutTaskNode, NewVersion, FileOf, Stays

LEMMA AppendVersionDoes ==
  ASSUME IngestInv, NEW p \in Proc, AppendVersion(p)
  PROVE  LET v == NewVersion(job[p])
             f == FileOf(job[p])
             i == FirstOf(job[p].turns)
         IN  /\ Moves(p) /\ Rest /\ Stays(p) /\ job'[p].turns = job[p].turns \ {i}
             /\ job[p].stage = "version" /\ job'[p].stage = "turn"
             /\ DOMAIN versions' = DOMAIN versions \cup {v}
             /\ \A k \in DOMAIN versions : versions'[k] = versions[k]
             /\ v \notin DOMAIN versions => versions'[v].turn = TurnAt(f, i)
             /\ UNCHANGED <<taskNodes, cursors, pins>>
<1>1. JobTyped(job[p]) /\ DOMAIN job = Proc
  BY DEF IngestInv, Typed
<1>2. PICK row :
        /\ row.turn = TurnAt(FileOf(job[p]), FirstOf(job[p].turns))
        /\ versions' = InsertOrIgnore(versions, NewVersion(job[p]), row)
  BY DEF AppendVersion
<1>3. /\ Moves(p) /\ Rest /\ Stays(p) /\ job'[p].turns = job[p].turns \ {FirstOf(job[p].turns)}
      /\ job[p].stage = "version" /\ job'[p].stage = "turn"
      /\ UNCHANGED <<taskNodes, cursors, pins>>
  BY <1>1 DEF AppendVersion, Moves, Stays, Rest, At, JobTyped, JobFields
<1>4. QED
  BY <1>2, <1>3 DEF InsertOrIgnore

LEMMA SetCursorDoes ==
  ASSUME IngestInv, NEW p \in Proc, SetCursor(p)
  PROVE  LET f == FileOf(job[p])
         IN  /\ Moves(p) /\ Rest /\ Stays(p) /\ job'[p].turns = job[p].turns
             /\ job[p].stage = "turn" /\ job[p].turns = {} /\ job'[p].stage = "pin"
             /\ \A g : CursorOf(g)' = IF g = f THEN job[p].plan[f].to ELSE CursorOf(g)
             /\ UNCHANGED <<taskNodes, versions, pins>>
<1>1. JobTyped(job[p]) /\ DOMAIN job = Proc
  BY DEF IngestInv, Typed
<1>2. QED
  BY <1>1 DEF SetCursor, GoTo, ReadEnd, Moves, Stays, Rest, At, JobTyped, JobFields, CursorOf,
     InsertOrReplace

LEMMA PinDoes ==
  ASSUME IngestInv, NEW p \in Proc, PinRange(p)
  PROVE  LET f == FileOf(job[p])
             r == job[p].plan[f]
         IN  /\ Moves(p) /\ Rest /\ Stays(p) /\ job'[p].turns = job[p].turns
             /\ job[p].stage = "pin" /\ job'[p].stage = "embed"
             /\ pins \subseteq pins'
             /\ r.to > r.from => [file |-> f, from |-> r.from, to |-> r.to] \in pins'
             /\ UNCHANGED <<taskNodes, versions, cursors>>
<1>1. JobTyped(job[p]) /\ DOMAIN job = Proc
  BY DEF IngestInv, Typed
<1>2. QED
  BY <1>1 DEF PinRange, GoTo, Consumed, Moves, Stays, Rest, At, JobTyped, JobFields

LEMMA EmbedDoes ==
  ASSUME IngestInv, NEW p \in Proc, EmbedSession(p)
  PROVE  /\ Moves(p) /\ Rest /\ job[p].stage = "embed" /\ job'[p].stage \in {"idle", "file"}
         /\ \A g \in DOMAIN job'[p].plan :
              /\ g \in DOMAIN job[p].plan /\ g # FileOf(job[p])
              /\ job'[p].plan[g] = job[p].plan[g]
         /\ UNCHANGED <<taskNodes, versions, cursors, pins>>
<1> DEFINE f == FileOf(job[p])
           rest == [g \in DOMAIN job[p].plan \ {f} |-> job[p].plan[g]]
<1>1. /\ job' = [job EXCEPT ![p] =
           IF DOMAIN rest = {} THEN Idle ELSE [Idle EXCEPT !.stage = "file", !.plan = rest]]
      /\ job[p].stage = "embed" /\ Rest
      /\ UNCHANGED <<taskNodes, versions, cursors, pins>>
  BY DEF EmbedSession, Rest, At
<1>2. DOMAIN job = Proc
  BY DEF IngestInv, Typed
<1>3. \A g \in DOMAIN rest : g \in DOMAIN job[p].plan /\ g # f /\ rest[g] = job[p].plan[g]
  OBVIOUS
<1> HIDE DEF rest
<1>4. \/ job'[p].stage = "idle" /\ DOMAIN job'[p].plan = {}
      \/ job'[p].stage = "file" /\ job'[p].plan = rest
  BY <1>1, <1>2 DEF Idle, EmptyTable
<1>5. QED
  BY <1>1, <1>2, <1>3, <1>4 DEF Moves

LEMMA CrashDoes ==
  ASSUME IngestInv, NEW p \in Proc, Crash(p)
  PROVE  /\ Moves(p) /\ job[p].stage # "idle" /\ job'[p].stage = "idle"
         /\ DOMAIN job'[p].plan = {} /\ crashes' = crashes + 1
         /\ UNCHANGED <<log, overlapped, taskNodes, versions, cursors, pins>>
<1>1. DOMAIN job = Proc /\ Idle.stage = "idle" /\ DOMAIN Idle.plan = {}
  BY DEF IngestInv, Typed, Idle, EmptyTable
<1>2. QED
  BY <1>1 DEF Crash, store, Moves, At

LEMMA WriteDoes ==
  ASSUME IngestInv, NEW f \in File, Write(f)
  PROVE  /\ \A g \in File : /\ Len(log[g]) \in Nat /\ Len(log'[g]) \in Nat
                            /\ Len(log[g]) <= Len(log'[g])
                            /\ \A i \in 1..Len(log[g]) : log'[g][i] = log[g][i]
         /\ UNCHANGED <<crashes, overlapped, job, taskNodes, versions, cursors, pins>>
<1>1. PICK line : log' = [log EXCEPT ![f] = Append(@, line)]
  BY DEF Write
<1>2. log \in [File -> Seq(Row)]
  BY DEF IngestInv, Typed, Transcript
<1>3. \A g \in File : /\ log[g] \in Seq(Row)
                     /\ log'[g] = IF g = f THEN Append(log[g], line) ELSE log[g]
  BY <1>1, <1>2
<1>4. \A s \in Seq(Row) : /\ Len(s) \in Nat /\ Len(Append(s, line)) = Len(s) + 1
                          /\ \A i \in 1..Len(s) : Append(s, line)[i] = s[i]
  OBVIOUS
<1>5. QED
  BY <1>3, <1>4 DEF Write, store

\* A plan stays within the files as they are now.
LEMMA JobNow ==
  ASSUME IngestInv, NEW p \in Proc
  PROVE  /\ DOMAIN job[p].plan \subseteq File
         /\ \A f \in DOMAIN job[p].plan :
              /\ job[p].plan[f].from \in Nat /\ job[p].plan[f].to \in Nat
              /\ job[p].plan[f].from <= job[p].plan[f].to
              /\ job[p].plan[f].to <= Len(log[f])
         /\ job[p].stage = "idle" => DOMAIN job[p].plan = {}
         /\ job[p].stage \in InFile =>
              /\ job[p].file = {FileOf(job[p])} /\ FileOf(job[p]) \in DOMAIN job[p].plan
              /\ job[p].turns \subseteq
                   PromptLines(FileOf(job[p]), job[p].plan[FileOf(job[p])].from,
                               job[p].plan[FileOf(job[p])].to)
         /\ job[p].stage \in {"pin", "embed"} => job[p].turns = {}
<1>1. JobTyped(job[p])
  BY DEF IngestInv, Typed
<1>2. job[p].stage \in InFile =>
        /\ job[p].file = {FileOf(job[p])} /\ FileOf(job[p]) \in DOMAIN job[p].plan
        /\ job[p].turns \subseteq TurnsOf(FileOf(job[p]), job[p].plan[FileOf(job[p])])
  BY WhereItIs DEF IngestInv
<1>3. QED
  BY <1>1, <1>2 DEF JobTyped, ReadRange, TurnsOf

\* While passes have not overlapped, one works and the others rest.
LEMMA Alone ==
  ASSUME IngestInv, ~overlapped, NEW p \in Proc, job[p].stage # "idle"
  PROVE  \A q \in Proc \ {p} : job[q].stage = "idle" /\ DOMAIN job[q].plan = {}
<1>1. \A q \in Proc \ {p} : job[q].stage = "idle"
  BY DEF IngestInv, AloneInOrder, At
<1>2. QED
  BY <1>1, JobNow

\* A cursor is within its file.
LEMMA CursorsAre ==
  IngestInv => \A f \in File : CursorOf(f) \in Nat /\ CursorOf(f) <= Len(log[f])
<1> SUFFICES ASSUME IngestInv, NEW f \in File
             PROVE  CursorOf(f) \in Nat /\ CursorOf(f) <= Len(log[f])
  OBVIOUS
<1>1. log[f] \in Transcript
  BY DEF IngestInv, Typed
<1>2. QED
  BY <1>1 DEF IngestInv, Typed, CursorOf, Transcript

\* Every step keeps plans ahead of cursors.
LEMMA PlannedAheadStep == IngestInv /\ PlannedAhead /\ [Next]_vars => PlannedAhead'
<1> SUFFICES ASSUME IngestInv, PlannedAhead, [Next]_vars PROVE PlannedAhead'
  OBVIOUS
<1> DEFINE Good(q) == \A f \in DOMAIN job[q].plan :
                        ~(job[q].stage \in {"pin", "embed"} /\ job[q].file = {f}) =>
                          CursorOf(f) <= job[q].plan[f].from
<1>1. crashes \in Nat /\ (~overlapped => \A q \in Proc : Good(q))
  BY DEF PlannedAhead
<1>2. \A q \in Proc : (UNCHANGED <<cursors, job[q]>> /\ Good(q)) => Good(q)'
  BY DEF CursorOf
<1>3. ASSUME crashes' \in Nat, overlapped => overlapped',
             ~overlapped' => \A q \in Proc : Good(q)'
      PROVE  PlannedAhead'
  BY <1>3 DEF PlannedAhead
<1>4. CASE UNCHANGED vars
  BY <1>1, <1>2, <1>3, <1>4 DEF vars, store
<1>5. ASSUME NEW f \in File, Write(f) PROVE PlannedAhead'
  BY <1>1, <1>2, <1>3, <1>5, WriteDoes
<1>6. ASSUME NEW p \in Proc, Start(p) PROVE PlannedAhead'
  <2>1. Good(p)'
    BY <1>6, StartDoes
  <2>2. ~overlapped' => \A q \in Proc \ {p} : Good(q)'
    BY <1>1, <1>2, <1>6, StartDoes DEF Moves
  <2>3. QED
    BY <1>1, <1>3, <1>6, <2>1, <2>2, StartDoes
<1>7. ASSUME NEW p \in Proc, Crash(p) PROVE PlannedAhead'
  <2>1. Good(p)'
    BY <1>7, CrashDoes
  <2>2. ~overlapped' => \A q \in Proc \ {p} : Good(q)'
    BY <1>1, <1>2, <1>7, CrashDoes DEF Moves
  <2>3. QED
    BY <1>1, <1>3, <1>7, <2>1, <2>2, CrashDoes
<1>8. ASSUME NEW p \in Proc, Moves(p), Rest, UNCHANGED cursors, Good(p) => Good(p)'
      PROVE  PlannedAhead'
  <2>1. ~overlapped' => \A q \in Proc : Good(q)'
    BY <1>1, <1>2, <1>8 DEF Moves, Rest
  <2>2. QED
    BY <1>1, <1>3, <1>8, <2>1 DEF Rest
<1>9. ASSUME NEW p \in Proc, Observe(p) PROVE PlannedAhead'
  <2>1. ASSUME NEW f \in File, PlanFile(p, f) PROVE PlannedAhead'
    <3>1. \A g : CursorOf(g)' = CursorOf(g)
      BY <2>1, PlanDoes DEF CursorOf
    <3>2. /\ job[p].stage = "plan" /\ job'[p].plan[f].from = CursorOf(f)
          /\ DOMAIN job'[p].plan = DOMAIN job[p].plan \cup {f}
          /\ \A g \in DOMAIN job[p].plan : job'[p].plan[g] = job[p].plan[g]
      BY <2>1, PlanDoes
    <3>3. CursorOf(f) <= CursorOf(f)
      BY CursorsAre
    <3>4. ASSUME Good(p)
          PROVE  \A g \in DOMAIN job[p].plan : CursorOf(g) <= job[p].plan[g].from
      BY <3>2, <3>4
    <3>5. ASSUME Good(p)
          PROVE  \A g \in DOMAIN job'[p].plan : CursorOf(g)' <= job'[p].plan[g].from
      BY <3>1, <3>2, <3>3, <3>4, <3>5
    <3>6. QED
      BY <1>8, <2>1, <3>5, PlanDoes
  <2>2. ASSUME NEW f \in File, TakeFile(p, f) PROVE PlannedAhead'
    <3>1. Good(p) => Good(p)'
      BY <2>2, TakeDoes DEF CursorOf
    <3>2. QED
      BY <1>8, <2>2, <3>1, TakeDoes
  <2>3. CASE ReadPrior(p) \/ PutTaskNode(p) \/ AppendVersion(p) \/ PinRange(p)
    <3>1. /\ Moves(p) /\ Rest /\ Stays(p) /\ UNCHANGED cursors
          /\ job[p].stage \in {"pin", "embed"} => job'[p].stage \in {"pin", "embed"}
      BY <2>3, ReadPriorDoes, PutTaskNodeDoes, AppendVersionDoes, PinDoes
    <3>2. Good(p) => Good(p)'
      BY <3>1 DEF CursorOf, Stays
    <3>3. QED
      BY <1>8, <3>1, <3>2
  <2>4. CASE SetCursor(p)
    <3>1. Moves(p) /\ Rest /\ Stays(p) /\ job[p].stage = "turn" /\ job'[p].stage = "pin"
      BY <2>4, SetCursorDoes
    <3>2. \A g : CursorOf(g)' =
            IF g = FileOf(job[p]) THEN job[p].plan[FileOf(job[p])].to ELSE CursorOf(g)
      BY <2>4, SetCursorDoes
    <3>3. job[p].file = {FileOf(job[p])}
      BY <3>1, JobNow DEF InFile
    <3>4. Good(p) => Good(p)'
      BY <3>1, <3>2, <3>3 DEF Stays
    <3>5. ~overlapped => \A q \in Proc \ {p} : Good(q)'
      BY <3>1, Alone DEF Moves
    <3>6. QED
      BY <1>1, <1>3, <3>1, <3>4, <3>5 DEF Rest
  <2>5. CASE EmbedSession(p)
    <3>1. \A g : CursorOf(g)' = CursorOf(g)
      BY <2>5, EmbedDoes DEF CursorOf
    <3>2. job[p].file = {FileOf(job[p])}
      BY <2>5, EmbedDoes, JobNow DEF InFile
    <3>3. Good(p) => Good(p)'
      BY <2>5, <3>1, <3>2, EmbedDoes
    <3>4. QED
      BY <1>8, <2>5, <3>3, EmbedDoes
  <2>6. QED
    BY <1>9, <2>1, <2>2, <2>3, <2>4, <2>5 DEF Observe
<1>10. QED
  BY <1>4, <1>5, <1>6, <1>7, <1>9 DEF Next

\* What is covered stays so, but for a crash.
LEMMA CoveredStays ==
  ASSUME IngestInv, NEW p \in Proc, Moves(p), pins \subseteq pins',
         job[p].stage # "pin" \/ PinRange(p)
  PROVE  \A f, i : i \in Nat /\ Covered(f, i) => Covered(f, i)'
<1> SUFFICES ASSUME NEW f, NEW i \in Nat, Covered(f, i) PROVE Covered(f, i)'
  OBVIOUS
<1>1. CASE \E r \in pins : r.file = f /\ r.from < i /\ i <= r.to
  BY <1>1 DEF Covered
<1>2. CASE \E q \in Proc :
             /\ At(q, "pin") /\ job[q].file = {f}
             /\ job[q].plan[f].from < i /\ i <= job[q].plan[f].to
  <2>1. PICK q \in Proc :
             /\ At(q, "pin") /\ job[q].file = {f}
             /\ job[q].plan[f].from < i /\ i <= job[q].plan[f].to
    BY <1>2
  <2>2. CASE q # p
    BY <2>1, <2>2 DEF Covered, Moves, At
  <2>3. CASE q = p
    <3>1. PinRange(p) /\ FileOf(job[p]) = f
      BY <2>1, <2>3 DEF At, FileOf
    <3>2. f \in DOMAIN job[p].plan
      BY <2>1, <2>3, <3>1, JobNow DEF At, InFile
    <3>3. job[p].plan[f].to > job[p].plan[f].from
      BY <2>1, <2>3, <3>2, JobNow
    <3>4. [file |-> f, from |-> job[p].plan[f].from, to |-> job[p].plan[f].to] \in pins'
      BY <3>1, <3>3, PinDoes
    <3>5. QED
      BY <2>1, <2>3, <3>4 DEF Covered
  <2>4. QED
    BY <2>2, <2>3
<1>3. QED
  BY <1>1, <1>2 DEF Covered

\* Every step keeps each line behind a cursor pinned, or about to be.
LEMMA PinsStep == IngestInv /\ PlannedAhead /\ PinsInOrder /\ [Next]_vars => PinsInOrder'
<1> SUFFICES ASSUME IngestInv, PlannedAhead, PinsInOrder, [Next]_vars, crashes' = 0
             PROVE  PinsInOrder'
  BY DEF PinsInOrder
<1> DEFINE Good(q) == \A f \in DOMAIN job[q].plan : CoveredTo(f, job[q].plan[f].from)
<1>1. crashes = 0 => (\A f \in File : CoveredTo(f, CursorOf(f))) /\ (\A q \in Proc : Good(q))
  BY DEF PinsInOrder
<1>2. ASSUME UNCHANGED <<crashes, cursors, job, pins>>
      PROVE  PinsInOrder'
  <2>1. \A f, n : CoveredTo(f, n) => CoveredTo(f, n)'
    BY <1>2 DEF CoveredTo, Covered, At
  <2>2. \A f : CursorOf(f)' = CursorOf(f)
    BY <1>2 DEF CursorOf
  <2>3. QED
    BY <1>1, <1>2, <2>1, <2>2 DEF PinsInOrder
<1>3. ASSUME NEW p \in Proc, Moves(p), pins \subseteq pins', crashes' = crashes,
             job[p].stage # "pin" \/ PinRange(p),
             \A f \in File : CursorOf(f)' = CursorOf(f),
             \A f \in DOMAIN job'[p].plan :
               \/ f \in DOMAIN job[p].plan /\ job'[p].plan[f].from = job[p].plan[f].from
               \/ f \in File /\ job'[p].plan[f].from = CursorOf(f)
      PROVE  PinsInOrder'
  <2>1. \A f, n : CoveredTo(f, n) => CoveredTo(f, n)'
    BY <1>3, CoveredStays DEF CoveredTo
  <2>2. \A f \in File : CoveredTo(f, CursorOf(f))'
    <3>1. SUFFICES ASSUME NEW f \in File, NEW n, n = CursorOf(f)' PROVE CoveredTo(f, n)'
      OBVIOUS
    <3>2. QED
      BY <1>1, <1>3, <2>1, <3>1
  <2>3. \A q \in Proc : Good(q)'
    <3>1. SUFFICES ASSUME NEW q \in Proc, NEW f \in DOMAIN job'[q].plan,
                          NEW n, n = job'[q].plan[f].from
                   PROVE  CoveredTo(f, n)'
      OBVIOUS
    <3>2. CoveredTo(f, n)
      BY <1>1, <1>3, <3>1 DEF Moves
    <3>3. QED
      BY <2>1, <3>2
  <2>4. QED
    BY <2>2, <2>3 DEF PinsInOrder
<1>4. ASSUME NEW p \in Proc, Start(p) PROVE PinsInOrder'
  <2>1. \A f \in File : CursorOf(f)' = CursorOf(f)
    BY <1>4, StartDoes DEF CursorOf
  <2>2. QED
    BY <1>3, <1>4, <2>1, StartDoes
<1>5. ASSUME NEW p \in Proc, SetCursor(p) PROVE PinsInOrder'
  <2>0. PICK f : f = FileOf(job[p])
    OBVIOUS
  <2>1. /\ Moves(p) /\ Stays(p) /\ job[p].stage = "turn" /\ job'[p].stage = "pin"
        /\ crashes = 0 /\ pins' = pins
        /\ \A g : CursorOf(g)' = IF g = f THEN job[p].plan[f].to ELSE CursorOf(g)
    BY <1>5, <2>0, SetCursorDoes DEF Rest
  <2>2. /\ f \in DOMAIN job[p].plan /\ job[p].file = {f}
        /\ job[p].plan[f].from \in Nat /\ job[p].plan[f].to \in Nat
    BY <2>0, <2>1, JobNow DEF InFile
  <2>3. \A g, n : CoveredTo(g, n) => CoveredTo(g, n)'
    BY <2>1, CoveredStays DEF CoveredTo
  <2>4. \A q \in Proc : Good(q)'
    <3>1. SUFFICES ASSUME NEW q \in Proc, NEW g \in DOMAIN job'[q].plan,
                          NEW n, n = job'[q].plan[g].from
                   PROVE  CoveredTo(g, n)'
      OBVIOUS
    <3>2. job'[q].plan = job[q].plan
      BY <2>1 DEF Moves, Stays
    <3>3. QED
      BY <1>1, <2>1, <2>3, <3>1, <3>2
  <2>5. ASSUME NEW n, n = job[p].plan[f].to
        PROVE  CoveredTo(f, n)'
    <3>1. SUFFICES ASSUME NEW i \in 1..n PROVE Covered(f, i)'
      BY DEF CoveredTo
    <3>2. CASE i <= job[p].plan[f].from
      <4>1. CoveredTo(f, job[p].plan[f].from)
        BY <1>1, <2>1, <2>2
      <4>2. i \in 1..job[p].plan[f].from
        BY <2>2, <2>5, <3>2
      <4>3. Covered(f, i)
        BY <4>1, <4>2 DEF CoveredTo
      <4>4. QED
        BY <2>1, <4>2, <4>3, CoveredStays
    <3>3. CASE i > job[p].plan[f].from
      BY <2>1, <2>2, <2>5, <3>3 DEF Covered, At, Stays
    <3>4. QED
      BY <2>2, <2>5, <3>2, <3>3
  <2>6. \A g \in File : CoveredTo(g, CursorOf(g))'
    <3>1. SUFFICES ASSUME NEW g \in File, NEW n, n = CursorOf(g)' PROVE CoveredTo(g, n)'
      OBVIOUS
    <3>2. CASE g = f
      <4>1. n = job[p].plan[f].to
        BY <2>1, <3>1, <3>2
      <4>2. QED
        BY <2>5, <3>2, <4>1
    <3>3. CASE g # f
      BY <1>1, <2>1, <2>3, <3>1, <3>3
    <3>4. QED
      BY <3>2, <3>3
  <2>7. QED
    BY <2>4, <2>6 DEF PinsInOrder
<1>6. ASSUME NEW p \in Proc, Observe(p), ~SetCursor(p) PROVE PinsInOrder'
  <2>1. ASSUME NEW f \in File, PlanFile(p, f) PROVE PinsInOrder'
    <3>1. \A g \in File : CursorOf(g)' = CursorOf(g)
      BY <2>1, PlanDoes DEF CursorOf
    <3>2. \A g \in DOMAIN job'[p].plan :
            \/ g \in DOMAIN job[p].plan /\ job'[p].plan[g].from = job[p].plan[g].from
            \/ g \in File /\ job'[p].plan[g].from = CursorOf(g)
      BY <2>1, PlanDoes
    <3>3. Moves(p) /\ pins' = pins /\ crashes' = crashes /\ job[p].stage # "pin"
      BY <2>1, PlanDoes DEF Rest
    <3>4. QED
      BY <1>3, <3>1, <3>2, <3>3
  <2>2. ASSUME NEW f \in File, TakeFile(p, f) PROVE PinsInOrder'
    <3>1. \A g \in File : CursorOf(g)' = CursorOf(g)
      BY <2>2, TakeDoes DEF CursorOf
    <3>2. QED
      BY <1>3, <2>2, <3>1, TakeDoes DEF Rest
  <2>3. CASE ReadPrior(p) \/ PutTaskNode(p) \/ AppendVersion(p) \/ PinRange(p)
    <3>1. /\ Moves(p) /\ Rest /\ Stays(p) /\ pins \subseteq pins' /\ UNCHANGED cursors
          /\ job[p].stage # "pin" \/ PinRange(p)
      BY <2>3, ReadPriorDoes, PutTaskNodeDoes, AppendVersionDoes, PinDoes
    <3>2. \A g \in File : CursorOf(g)' = CursorOf(g)
      BY <3>1 DEF CursorOf
    <3>3. QED
      BY <1>3, <3>1, <3>2 DEF Rest, Stays
  <2>4. CASE EmbedSession(p)
    <3>1. \A g \in File : CursorOf(g)' = CursorOf(g)
      BY <2>4, EmbedDoes DEF CursorOf
    <3>2. QED
      BY <1>3, <2>4, <3>1, EmbedDoes DEF Rest
  <2>5. QED
    BY <1>6, <2>1, <2>2, <2>3, <2>4 DEF Observe
<1>7. ASSUME NEW p \in Proc, Crash(p) PROVE FALSE
  BY <1>7, CrashDoes DEF PlannedAhead
<1>8. CASE UNCHANGED vars
  BY <1>2, <1>8 DEF vars, store
<1>9. ASSUME NEW f \in File, Write(f) PROVE PinsInOrder'
  BY <1>2, <1>9, WriteDoes
<1>10. QED
  BY <1>4, <1>5, <1>6, <1>7, <1>8, <1>9 DEF Next

-----------------------------------------------------------------------------
\* Copies of a turn are counted.
LEMMA CopiesAre ==
  ASSUME IngestInv
  PROVE  \A t : Copies(t) \in Nat
<1> SUFFICES ASSUME NEW t PROVE Copies(t) \in Nat
  OBVIOUS
<1>1. IsFiniteSet({v \in DOMAIN versions : versions[v].turn = t})
  BY FS_Subset DEF IngestInv, Typed
<1>2. QED
  BY <1>1, FS_CardinalityType DEF Copies

\* A version adds one to the copies of the turn in hand, and to those of no other.
LEMMA AppendCounts ==
  ASSUME IngestInv, NEW p \in Proc, AppendVersion(p), NEW t
  PROVE  LET n == TurnAt(FileOf(job[p]), FirstOf(job[p].turns))
         IN  /\ t # n => Copies(t)' = Copies(t)
             /\ Copies(t)' <= Copies(t) + 1
<1> DEFINE Of == {v \in DOMAIN versions : versions[v].turn = t}
<1>1. PICK v, n :
        /\ n = TurnAt(FileOf(job[p]), FirstOf(job[p].turns))
        /\ DOMAIN versions' = DOMAIN versions \cup {v}
        /\ \A k \in DOMAIN versions : versions'[k] = versions[k]
        /\ v \notin DOMAIN versions => versions'[v].turn = n
  BY AppendVersionDoes
<1>2. IsFiniteSet(Of) /\ Cardinality(Of) \in Nat
  BY FS_Subset, FS_CardinalityType DEF IngestInv, Typed
<1>3. Of' \in {Of, Of \cup {v}} /\ (t # n => Of' = Of)
  BY <1>1
<1>4. Copies(t) = Cardinality(Of) /\ Copies(t)' = Cardinality(Of')
  BY DEF Copies
<1> HIDE DEF Of
<1>5. Cardinality(Of \cup {v}) <= Cardinality(Of) + 1
  BY <1>2, FS_AddElement
<1>6. QED
  BY <1>1, <1>2, <1>3, <1>4, <1>5

\* Steps that write no version, and are no crash, keep the count of copies.
LEMMA CopiesStay ==
  ASSUME CopiesCounted, UNCHANGED <<versions, crashes>>, overlapped => overlapped',
         \A f \in File : \A i \in Nat :
           ~overlapped' /\ CursorOf(f)' < i /\ ~Given(f, i)' => CursorOf(f) < i /\ ~Given(f, i)
  PROVE  CopiesCounted'
<1>1. \A t : Copies(t)' = Copies(t)
  BY DEF Copies
<1>2. \A f, i : TurnAt(f, i)' = TurnAt(f, i)
  BY DEF TurnAt
<1>3. QED
  BY <1>1, <1>2 DEF CopiesCounted

\* ... which holds when no cursor moves, and the step's pass is not through with a file.
LEMMA GivenStays ==
  ASSUME IngestInv, CopiesCounted, NEW p \in Proc, Moves(p),
         UNCHANGED <<versions, crashes, cursors>>, overlapped => overlapped',
         \/ job[p].stage \notin {"turn", "node", "version"}
         \/ Stays(p) /\ job'[p].turns = job[p].turns
            /\ job'[p].stage \in {"turn", "node", "version"}
  PROVE  CopiesCounted'
<1>1. \A f : CursorOf(f)' = CursorOf(f)
  BY DEF CursorOf
<1>2. \A f, i : Given(f, i) => Given(f, i)'
  BY DEF Given, Moves, Stays
<1>3. QED
  BY <1>1, <1>2, CopiesStay

\* Every step keeps it, a crash by counting itself.
LEMMA CopiesStep == IngestInv /\ PlannedAhead /\ CopiesCounted /\ [Next]_vars => CopiesCounted'
<1> SUFFICES ASSUME IngestInv, PlannedAhead, CopiesCounted, [Next]_vars PROVE CopiesCounted'
  OBVIOUS
<1>1. crashes \in Nat
  BY DEF PlannedAhead
<1>2. ASSUME UNCHANGED <<versions, crashes, cursors, job, overlapped>>
      PROVE  CopiesCounted'
  <2>1. \A f, i : /\ CursorOf(f)' = CursorOf(f) /\ Given(f, i)' = Given(f, i)
    BY <1>2 DEF CursorOf, Given
  <2>2. QED
    BY <1>2, <2>1, CopiesStay
<1>3. CASE UNCHANGED vars
  BY <1>2, <1>3 DEF vars, store
<1>4. ASSUME NEW f \in File, Write(f) PROVE CopiesCounted'
  BY <1>2, <1>4, WriteDoes
<1>5. ASSUME NEW p \in Proc, Start(p) PROVE CopiesCounted'
  <2>1. overlapped => overlapped'
    BY <1>5 DEF Start
  <2>2. QED
    BY <1>5, <2>1, StartDoes, GivenStays
<1>6. ASSUME NEW p \in Proc, Crash(p) PROVE CopiesCounted'
  <2>1. crashes' = crashes + 1 /\ UNCHANGED <<versions, overlapped>>
    BY <1>6, CrashDoes
  <2>2. \A t : Copies(t)' = Copies(t) /\ Copies(t) \in Nat
    BY <2>1, CopiesAre DEF Copies
  <2>3. \A f, i : TurnAt(f, i)' = TurnAt(f, i)
    BY DEF TurnAt
  <2>4. \A f \in File : \A i \in Nat : ~overlapped => Copies(TurnAt(f, i))' <= crashes'
    BY <1>1, <2>1, <2>2, <2>3 DEF CopiesCounted
  <2>5. \A f \in File : \A i \in Nat : ~overlapped => Copies(TurnAt(f, i))' <= 1 + crashes'
    BY <1>1, <2>1, <2>2, <2>3 DEF CopiesCounted
  <2>6. QED
    BY <2>1, <2>4, <2>5 DEF CopiesCounted
<1>7. ASSUME NEW p \in Proc, SetCursor(p) PROVE CopiesCounted'
  <2>0. PICK f : f = FileOf(job[p])
    OBVIOUS
  <2>1. /\ Moves(p) /\ Stays(p) /\ job[p].stage = "turn" /\ Rest /\ UNCHANGED versions
        /\ \A g : CursorOf(g)' = IF g = f THEN job[p].plan[f].to ELSE CursorOf(g)
    BY <1>7, <2>0, SetCursorDoes
  <2>2. f \in File /\ f \in DOMAIN job[p].plan /\ job[p].file = {f} /\ job[p].plan[f].to \in Nat
    BY <2>0, <2>1, JobNow DEF InFile
  <2>3. CursorOf(f) \in Nat /\ (~overlapped => CursorOf(f) <= job[p].plan[f].to)
    BY <2>1, <2>2, CursorsAre DEF IngestInv, AloneInOrder
  <2>4. \A g \in File : \A i \in Nat : ~overlapped /\ CursorOf(g)' < i => CursorOf(g) < i
    BY <2>1, <2>2, <2>3
  <2>5. ASSUME NEW g \in File, NEW i \in Nat, Given(g, i), ~overlapped
        PROVE  Given(g, i)' \/ ~(CursorOf(g)' < i)
    <3>1. PICK q \in Proc : /\ job[q].stage \in {"turn", "node", "version"} /\ job[q].file = {g}
                            /\ i <= job[q].plan[g].to /\ i \notin job[q].turns
      BY <2>5 DEF Given
    <3>2. q = p
      BY <2>1, <2>5, <3>1, Alone
    <3>3. g = f
      BY <2>2, <3>1, <3>2
    <3>4. QED
      BY <2>1, <2>2, <3>1, <3>2, <3>3
  <2>6. QED
    BY <2>1, <2>4, <2>5, CopiesStay DEF Rest
<1>8. ASSUME NEW p \in Proc, AppendVersion(p) PROVE CopiesCounted'
  <2>0. PICK f, n : f = FileOf(job[p]) /\ n = FirstOf(job[p].turns)
    OBVIOUS
  <2>1. /\ Moves(p) /\ Stays(p) /\ job[p].stage = "version" /\ job'[p].stage = "turn" /\ Rest
        /\ job'[p].turns = job[p].turns \ {n} /\ UNCHANGED cursors
    BY <1>8, <2>0, AppendVersionDoes
  <2>2. SUFFICES ASSUME ~overlapped PROVE CopiesCounted'
    BY <2>1 DEF CopiesCounted, Rest
  <2>3. /\ f \in File /\ f \in DOMAIN job[p].plan /\ job[p].file = {f} /\ n \in job[p].turns
        /\ n \in PromptLines(f, job[p].plan[f].from, job[p].plan[f].to)
    BY <2>0, <2>1, JobNow, TurnInHand DEF InFile, At, IngestInv
  <2>4. /\ n \in Nat /\ n <= job[p].plan[f].to /\ job[p].plan[f].from < n
        /\ CursorOf(f) <= job[p].plan[f].from /\ CursorOf(f) \in Nat
        /\ job[p].plan[f].from \in Nat
    BY <2>1, <2>2, <2>3, JobNow, CursorsAre DEF PromptLines, PlannedAhead
  <2>5. ~Given(f, n)
    BY <2>1, <2>2, <2>3, Alone DEF Given
  <2>6. Copies(TurnAt(f, n)) <= crashes
    BY <2>2, <2>3, <2>4, <2>5 DEF CopiesCounted
  <2>7. Given(f, n)'
    BY <2>1, <2>3, <2>4 DEF Given, Stays
  <2>8. \A t : /\ Copies(t) \in Nat /\ Copies(t)' <= Copies(t) + 1
               /\ t # TurnAt(f, n) => Copies(t)' = Copies(t)
    BY <1>8, <2>0, CopiesAre, AppendCounts
  <2>9. \A t : Copies(t)' \in Nat
    <3>1. IngestInv'
      BY <1>8, AppendVersionStep
    <3>2. (\A t : Copies(t) \in Nat)'
      BY <3>1, CopiesAre, PTL
    <3>3. QED
      BY <3>2
  <2>10. \A g, i : Given(g, i) => Given(g, i)'
    BY <2>1 DEF Given, Moves, Stays
  <2>11. \A g : CursorOf(g)' = CursorOf(g)
    BY <2>1 DEF CursorOf
  <2>12. ASSUME NEW g \in File, NEW i \in Nat
         PROVE  /\ Copies(TurnAt(g, i))' <= 1 + crashes
                /\ CursorOf(g)' < i /\ ~Given(g, i)' => Copies(TurnAt(g, i))' <= crashes
    <3>1. CASE g = f /\ i = n
      <4>1. PICK t : t = TurnAt(f, n)
        OBVIOUS
      <4>2. Copies(t)' <= 1 + crashes
        BY <1>1, <2>6, <2>8, <2>9, <4>1
      <4>3. TurnAt(g, i)' = t /\ TurnAt(g, i) = t
        BY <3>1, <4>1 DEF TurnAt
      <4>4. QED
        BY <2>7, <3>1, <4>2, <4>3
    <3>2. CASE ~(g = f /\ i = n)
      <4>1. PICK t : t = TurnAt(g, i)
        OBVIOUS
      <4>2. t # TurnAt(f, n) /\ TurnAt(g, i)' = t
        BY <3>2, <4>1 DEF TurnAt
      <4>3. Copies(t)' = Copies(t)
        BY <2>8, <4>2
      <4>4. /\ Copies(t) <= 1 + crashes
            /\ CursorOf(g) < i /\ ~Given(g, i) => Copies(t) <= crashes
        BY <2>2, <4>1 DEF CopiesCounted
      <4>5. QED
        BY <2>10, <2>11, <4>2, <4>3, <4>4
    <3>3. QED
      BY <3>1, <3>2
  <2>13. QED
    BY <2>1, <2>12 DEF CopiesCounted, Rest
<1>9. ASSUME NEW p \in Proc, Observe(p), ~SetCursor(p), ~AppendVersion(p) PROVE CopiesCounted'
  <2>1. ASSUME NEW f \in File, PlanFile(p, f) PROVE CopiesCounted'
    BY <2>1, PlanDoes, GivenStays DEF Rest
  <2>2. ASSUME NEW f \in File, TakeFile(p, f) PROVE CopiesCounted'
    BY <2>2, TakeDoes, GivenStays DEF Rest
  <2>3. CASE ReadPrior(p) \/ PutTaskNode(p)
    BY <2>3, ReadPriorDoes, PutTaskNodeDoes, GivenStays DEF Rest
  <2>4. CASE PinRange(p)
    <3>1. /\ Moves(p) /\ Rest /\ UNCHANGED <<versions, cursors>>
          /\ job[p].stage \notin {"turn", "node", "version"}
      BY <2>4, PinDoes
    <3>2. QED
      BY <3>1, GivenStays DEF Rest
  <2>5. CASE EmbedSession(p)
    BY <2>5, EmbedDoes, GivenStays DEF Rest
  <2>6. QED
    BY <1>9, <2>1, <2>2, <2>3, <2>4, <2>5 DEF Observe
<1>10. QED
  BY <1>3, <1>4, <1>5, <1>6, <1>7, <1>8, <1>9 DEF Next

-----------------------------------------------------------------------------
\* A turn that is ahead stays so if the pass that steps has not just been through with it.
LEMMA AheadStays ==
  ASSUME IngestInv, NEW p \in Proc, Moves(p), UNCHANGED log,
         NEW f \in File, NEW i, Ahead(f, i), CursorOf(f)' = CursorOf(f),
         f \in DOMAIN job'[p].plan =>
           /\ job'[p].plan[f].from < i /\ i <= job'[p].plan[f].to
           /\ job'[p].stage \in InFile /\ job'[p].file = {f} => i \in job'[p].turns
  PROVE  Ahead(f, i)'
<1>1. PromptLines(f, CursorOf(f), Len(log[f]))' = PromptLines(f, CursorOf(f), Len(log[f]))
  BY DEF PromptLines
<1>2. QED
  BY <1>1 DEF Ahead, Moves

\* Every step keeps dangling nodes ahead of the cursor.
LEMMA DanglingStep ==
  IngestInv /\ PlannedAhead /\ DanglingAhead /\ [Next]_vars => DanglingAhead'
<1> SUFFICES ASSUME IngestInv, PlannedAhead, DanglingAhead, [Next]_vars, ~overlapped'
             PROVE  DanglingAhead'
  BY DEF DanglingAhead
<1> DEFINE Waits(s) == \E f \in File : \E i \in Nat :
                         SessionOf[f] = s /\ Ahead(f, i) /\ taskNodes[s].at = log[f][i].at
           Named(q) == LET v == NewVersion(job[q])
                       IN  v.session \in DOMAIN taskNodes /\ taskNodes[v.session] = v
<1>1. /\ ~overlapped
      /\ \A s \in DOMAIN taskNodes : taskNodes[s] \notin DOMAIN versions => Waits(s)
      /\ \A q \in Proc : At(q, "version") => Named(q)
  <2>1. overlapped => overlapped'
    BY DEF Next, Write, Start, Crash, Observe, PlanFile, TakeFile, ReadPrior, PutTaskNode,
       AppendVersion, SetCursor, PinRange, EmbedSession, vars
  <2>2. QED
    BY <2>1, ZenonT(40) DEF DanglingAhead
<1>2. ASSUME \A s \in DOMAIN taskNodes' : taskNodes'[s] \notin DOMAIN versions' => Waits(s)',
             \A q \in Proc : At(q, "version")' => Named(q)'
      PROVE  DanglingAhead'
  BY <1>2 DEF DanglingAhead
<1>3. ASSUME NEW p \in Proc, Moves(p), UNCHANGED <<log, taskNodes, versions, cursors>>,
             job'[p].stage # "version", \A q \in Proc \ {p} : job[q].stage = "idle",
             \A f \in File : \A i \in Nat : Ahead(f, i) /\ f \in DOMAIN job'[p].plan =>
               /\ job'[p].plan[f].from < i /\ i <= job'[p].plan[f].to
               /\ job'[p].stage \in InFile /\ job'[p].file = {f} => i \in job'[p].turns
      PROVE  DanglingAhead'
  <2>1. \A f : CursorOf(f)' = CursorOf(f)
    BY <1>3 DEF CursorOf
  <2>2. \A f \in File : \A i \in Nat : Ahead(f, i) => Ahead(f, i)'
    BY <1>3, <2>1, AheadStays
  <2>3. \A s : Waits(s) => Waits(s)'
    BY <1>3, <2>2
  <2>4. \A q \in Proc : ~At(q, "version")'
    BY <1>3 DEF At, Moves
  <2> HIDE DEF Waits, Named
  <2>5. QED
    BY <1>1, <1>2, <1>3, <2>3, <2>4
<1>4. ASSUME NEW p \in Proc, Start(p) PROVE DanglingAhead'
  BY <1>3, <1>4, StartDoes
<1>5. ASSUME NEW p \in Proc, Crash(p) PROVE DanglingAhead'
  <2>1. \A q \in Proc \ {p} : job[q].stage = "idle"
    BY <1>1, <1>5, CrashDoes, Alone
  <2>2. QED
    BY <1>3, <1>5, <2>1, CrashDoes
<1>6. ASSUME NEW p \in Proc, Observe(p)
      PROVE  job[p].stage # "idle" /\ \A q \in Proc \ {p} : job[q].stage = "idle"
                                                      /\ DOMAIN job[q].plan = {}
  <2>1. job[p].stage # "idle"
    BY <1>6 DEF Observe, PlanFile, TakeFile, ReadPrior, PutTaskNode, AppendVersion, SetCursor,
       PinRange, EmbedSession, At
  <2>2. QED
    BY <1>1, <2>1, Alone
<1>7. ASSUME NEW p \in Proc, NEW f \in File, PlanFile(p, f) PROVE DanglingAhead'
  <2>1. /\ Moves(p) /\ job[p].stage = "plan" /\ job'[p].stage \in {"plan", "file"}
        /\ DOMAIN job'[p].plan = DOMAIN job[p].plan \cup {f}
        /\ job'[p].plan[f].from = CursorOf(f) /\ job'[p].plan[f].to = Len(log[f])
        /\ \A g \in DOMAIN job[p].plan : job'[p].plan[g] = job[p].plan[g]
        /\ f \notin DOMAIN job[p].plan
        /\ UNCHANGED <<log, taskNodes, versions, cursors>>
    BY <1>7, PlanDoes DEF Rest
  <2>2. \A i : Ahead(f, i) => CursorOf(f) < i /\ i <= Len(log[f])
    <3>1. log[f] \in Transcript
      BY DEF IngestInv, Typed
    <3>2. CursorOf(f) \in Nat /\ Len(log[f]) \in Nat
      BY <3>1, CursorsAre DEF Transcript
    <3>3. QED
      BY <3>2 DEF Ahead, PromptLines
  <2>3. ASSUME NEW g \in File, NEW i \in Nat, Ahead(g, i), g \in DOMAIN job'[p].plan
        PROVE  job'[p].plan[g].from < i /\ i <= job'[p].plan[g].to
    <3>1. CASE g = f
      BY <2>1, <2>2, <2>3, <3>1
    <3>2. CASE g # f
      BY <2>1, <2>3, <3>2 DEF Ahead
    <3>3. QED
      BY <3>1, <3>2
  <2>4. job'[p].stage \notin InFile
    BY <2>1 DEF InFile
  <2>5. \A q \in Proc \ {p} : job[q].stage = "idle"
    BY <1>6, <1>7 DEF Observe
  <2>6. QED
    BY <1>3, <2>1, <2>3, <2>4, <2>5 DEF InFile
<1>8. ASSUME NEW p \in Proc, NEW f \in File, TakeFile(p, f) PROVE DanglingAhead'
  <2>1. /\ Moves(p) /\ job'[p].stage = "turn" /\ f \in DOMAIN job[p].plan
        /\ job'[p].plan = job[p].plan /\ job'[p].file = {f}
        /\ job'[p].turns = TurnsOf(f, job[p].plan[f])
        /\ UNCHANGED <<log, taskNodes, versions, cursors>>
    BY <1>8, TakeDoes DEF Rest
  <2>2. ASSUME NEW g \in File, NEW i \in Nat, Ahead(g, i), g \in DOMAIN job'[p].plan
        PROVE  /\ job'[p].plan[g].from < i /\ i <= job'[p].plan[g].to
               /\ job'[p].file = {g} => i \in job'[p].turns
    <3>1. job[p].plan[g].from < i /\ i <= job[p].plan[g].to /\ log[g][i].kind = "prompt"
      BY <2>1, <2>2 DEF Ahead, PromptLines
    <3>2. job[p].plan[g].from \in Nat /\ job[p].plan[g].to \in Nat
      BY <2>1, <2>2, JobNow
    <3>3. CASE g = f
      <4>1. i \in PromptLines(f, job[p].plan[f].from, job[p].plan[f].to)
        BY <3>1, <3>2, <3>3 DEF PromptLines
      <4>2. QED
        BY <2>1, <3>1, <3>3, <4>1 DEF TurnsOf
    <3>4. CASE g # f
      BY <2>1, <3>1, <3>4
    <3>5. QED
      BY <3>3, <3>4
  <2>3. \A q \in Proc \ {p} : job[q].stage = "idle"
    BY <1>6, <1>8 DEF Observe
  <2>4. QED
    BY <1>3, <2>1, <2>2, <2>3
<1>9. ASSUME NEW p \in Proc, ReadPrior(p) \/ PinRange(p) PROVE DanglingAhead'
  <2>1. /\ Moves(p) /\ Stays(p) /\ job'[p].turns = job[p].turns
        /\ job[p].stage \in InFile /\ job'[p].stage # "version"
        /\ UNCHANGED <<log, taskNodes, versions, cursors>>
    BY <1>9, ReadPriorDoes, PinDoes DEF Rest, InFile
  <2>2. \A q \in Proc \ {p} : job[q].stage = "idle"
    BY <1>6, <1>9 DEF Observe
  <2>3. QED
    BY <1>3, <2>1, <2>2 DEF Stays, Ahead
<1>10. ASSUME NEW p \in Proc, EmbedSession(p) PROVE DanglingAhead'
  <2>1. /\ Moves(p) /\ job'[p].stage \in {"idle", "file"}
        /\ \A g \in DOMAIN job'[p].plan :
             g \in DOMAIN job[p].plan /\ job'[p].plan[g] = job[p].plan[g]
        /\ UNCHANGED <<log, taskNodes, versions, cursors>>
    BY <1>10, EmbedDoes DEF Rest
  <2>2. \A q \in Proc \ {p} : job[q].stage = "idle"
    BY <1>6, <1>10 DEF Observe
  <2>3. QED
    BY <1>3, <2>1, <2>2 DEF InFile, Ahead
<1>11. ASSUME NEW p \in Proc, SetCursor(p) PROVE DanglingAhead'
  <2>0. PICK f : f = FileOf(job[p])
    OBVIOUS
  <2>1. /\ Moves(p) /\ Stays(p) /\ job[p].stage = "turn" /\ job'[p].stage = "pin"
        /\ job[p].turns = {} /\ job'[p].turns = job[p].turns
        /\ \A g : CursorOf(g)' = IF g = f THEN job[p].plan[f].to ELSE CursorOf(g)
        /\ UNCHANGED <<log, taskNodes, versions>>
    BY <1>11, <2>0, SetCursorDoes DEF Rest
  <2>2. f \in DOMAIN job[p].plan /\ job[p].file = {f}
    BY <2>0, <2>1, JobNow DEF InFile
  <2>3. ASSUME NEW g \in File, NEW i \in Nat, Ahead(g, i)
        PROVE  Ahead(g, i)'
    <3>1. g # f
      BY <2>1, <2>2, <2>3 DEF Ahead, InFile
    <3>2. CursorOf(g)' = CursorOf(g)
      BY <2>1, <3>1
    <3>3. g \in DOMAIN job'[p].plan => job'[p].plan[g].from < i /\ i <= job'[p].plan[g].to
      BY <2>1, <2>3 DEF Stays, Ahead
    <3>4. job'[p].file # {g}
      BY <2>1, <2>2, <3>1 DEF Stays
    <3>5. QED
      BY <2>1, <2>3, <3>2, <3>3, <3>4, AheadStays
  <2>4. \A s : Waits(s) => Waits(s)'
    BY <2>1, <2>3
  <2>5. \A q \in Proc : ~At(q, "version")'
    BY <1>6, <1>11, <2>1 DEF At, Moves, Observe
  <2> HIDE DEF Waits, Named
  <2>6. QED
    BY <1>1, <1>2, <2>1, <2>4, <2>5
<1>12. ASSUME NEW p \in Proc, PutTaskNode(p) PROVE DanglingAhead'
  <2>0. PICK f, n, v : f = FileOf(job[p]) /\ n = FirstOf(job[p].turns) /\ v = NewVersion(job[p])
    OBVIOUS
  <2>1. /\ Moves(p) /\ Stays(p) /\ job'[p].turns = job[p].turns
        /\ job[p].stage = "node" /\ job'[p].stage = "version" /\ NewVersion(job'[p]) = v
        /\ taskNodes' = InsertOrReplace(taskNodes, v.session, v)
        /\ UNCHANGED <<log, versions, cursors>>
    BY <1>12, <2>0, PutTaskNodeDoes DEF Rest
  <2>2. /\ f \in File /\ f \in DOMAIN job[p].plan /\ job[p].file = {f} /\ n \in job[p].turns
        /\ n \in PromptLines(f, job[p].plan[f].from, job[p].plan[f].to)
        /\ v.session = SessionOf[f] /\ v.at = log[f][n].at
    BY <2>0, <2>1, JobNow, TurnInHand DEF InFile, At, IngestInv, NewVersion
  <2>3. \A g : CursorOf(g)' = CursorOf(g)
    BY <2>1 DEF CursorOf
  <2>4. \A g \in File : \A i \in Nat : Ahead(g, i) => Ahead(g, i)'
    <3>1. SUFFICES ASSUME NEW g \in File, NEW i \in Nat, Ahead(g, i) PROVE Ahead(g, i)'
      OBVIOUS
    <3>2. g \in DOMAIN job'[p].plan =>
            /\ job'[p].plan[g].from < i /\ i <= job'[p].plan[g].to
            /\ job'[p].file = {g} => i \in job'[p].turns
      BY <2>1, <3>1 DEF Stays, Ahead, InFile
    <3>3. QED
      BY <2>1, <2>3, <3>1, <3>2, AheadStays
  <2>5. n \in Nat /\ Ahead(f, n)
    <3>1. /\ CursorOf(f) \in Nat /\ CursorOf(f) <= job[p].plan[f].from
          /\ job[p].plan[f].from \in Nat /\ job[p].plan[f].to \in Nat
          /\ job[p].plan[f].to <= Len(log[f])
      BY <1>1, <2>1, <2>2, JobNow, CursorsAre DEF PlannedAhead
    <3>2. log[f] \in Transcript
      BY <2>2 DEF IngestInv, Typed
    <3>3. Len(log[f]) \in Nat
      BY <3>2 DEF Transcript
    <3>4. n \in Nat /\ job[p].plan[f].from < n /\ n <= job[p].plan[f].to
      BY <2>2, <3>1 DEF PromptLines
    <3>5. n \in PromptLines(f, CursorOf(f), Len(log[f]))
      BY <2>2, <3>1, <3>3, <3>4 DEF PromptLines
    <3>6. \A q \in Proc \ {p} : DOMAIN job[q].plan = {}
      BY <1>6, <1>12 DEF Observe
    <3>7. QED
      BY <2>2, <3>4, <3>5, <3>6 DEF Ahead
  <2>6. /\ DOMAIN taskNodes' = DOMAIN taskNodes \cup {v.session} /\ taskNodes'[v.session] = v
        /\ \A s \in DOMAIN taskNodes \ {v.session} : taskNodes'[s] = taskNodes[s]
    BY <2>1 DEF InsertOrReplace
  <2>7. ASSUME NEW s \in DOMAIN taskNodes', taskNodes'[s] \notin DOMAIN versions'
        PROVE  Waits(s)'
    <3>1. CASE s = v.session
      BY <2>1, <2>2, <2>4, <2>5, <2>6, <3>1
    <3>2. CASE s # v.session
      BY <1>1, <2>1, <2>4, <2>6, <2>7, <3>2
    <3>3. QED
      BY <3>1, <3>2
  <2>8. ASSUME NEW q \in Proc, At(q, "version")'
        PROVE  Named(q)'
    <3>1. q = p
      BY <1>6, <1>12, <2>1, <2>8 DEF At, Moves, Observe
    <3>2. NewVersion(job[q])' = v
      BY <2>1, <3>1 DEF NewVersion, FileOf
    <3>3. QED
      BY <2>6, <3>2
  <2>9. QED
    BY <1>2, <2>7, <2>8
<1>13. ASSUME NEW p \in Proc, AppendVersion(p) PROVE DanglingAhead'
  <2>0. PICK f, n, v : f = FileOf(job[p]) /\ n = FirstOf(job[p].turns) /\ v = NewVersion(job[p])
    OBVIOUS
  <2>1. /\ Moves(p) /\ Stays(p) /\ job'[p].turns = job[p].turns \ {n}
        /\ job[p].stage = "version" /\ job'[p].stage = "turn"
        /\ DOMAIN versions' = DOMAIN versions \cup {v}
        /\ UNCHANGED <<log, taskNodes, cursors>>
    BY <1>13, <2>0, AppendVersionDoes DEF Rest
  <2>2. job[p].file = {f} /\ v.session = SessionOf[f] /\ taskNodes[v.session] = v
    BY <1>1, <2>0, <2>1, JobNow DEF InFile, At, NewVersion
  <2>3. \A g : CursorOf(g)' = CursorOf(g)
    BY <2>1 DEF CursorOf
  <2>4. \A g \in File : \A i \in Nat : g # f /\ Ahead(g, i) => Ahead(g, i)'
    <3>1. SUFFICES ASSUME NEW g \in File, NEW i \in Nat, g # f, Ahead(g, i)
                   PROVE  Ahead(g, i)'
      OBVIOUS
    <3>2. g \in DOMAIN job'[p].plan =>
            job'[p].plan[g].from < i /\ i <= job'[p].plan[g].to /\ job'[p].file # {g}
      BY <2>1, <2>2, <3>1 DEF Stays, Ahead
    <3>3. QED
      BY <2>1, <2>3, <3>1, <3>2, AheadStays
  <2>5. ASSUME NEW s \in DOMAIN taskNodes', taskNodes'[s] \notin DOMAIN versions'
        PROVE  Waits(s)'
    <3>1. s # SessionOf[f] /\ taskNodes[s] \notin DOMAIN versions /\ s \in DOMAIN taskNodes
      BY <2>1, <2>2, <2>5
    <3>2. QED
      BY <1>1, <2>1, <2>4, <3>1
  <2>6. \A q \in Proc : ~At(q, "version")'
    BY <1>6, <1>13, <2>1 DEF At, Moves, Observe
  <2> HIDE DEF Waits, Named
  <2>7. QED
    BY <1>2, <2>5, <2>6
<1>14. ASSUME NEW g \in File, Write(g) PROVE DanglingAhead'
  <2>1. /\ \A f \in File : /\ Len(log[f]) \in Nat /\ Len(log'[f]) \in Nat
                           /\ Len(log[f]) <= Len(log'[f])
                           /\ \A i \in 1..Len(log[f]) : log'[f][i] = log[f][i]
        /\ UNCHANGED <<job, taskNodes, versions, cursors>>
    BY <1>14, WriteDoes
  <2>2. \A f : CursorOf(f)' = CursorOf(f)
    BY <2>1 DEF CursorOf
  <2>3. \A f \in File : \A i \in Nat : Ahead(f, i) =>
          Ahead(f, i)' /\ log'[f][i] = log[f][i]
    <3>1. SUFFICES ASSUME NEW f \in File, NEW i \in Nat, Ahead(f, i)
                   PROVE  Ahead(f, i)' /\ log'[f][i] = log[f][i]
      OBVIOUS
    <3>2. /\ i \in (CursorOf(f) + 1)..Len(log[f]) /\ log[f][i].kind = "prompt"
          /\ CursorOf(f) \in Nat
      BY <3>1, CursorsAre DEF Ahead, PromptLines
    <3>3. log'[f][i] = log[f][i] /\ i \in (CursorOf(f) + 1)..Len(log'[f])
      BY <2>1, <3>2
    <3>4. (i \in PromptLines(f, CursorOf(f), Len(log[f])))'
      BY <2>2, <3>2, <3>3 DEF PromptLines
    <3>5. QED
      BY <2>1, <3>1, <3>3, <3>4 DEF Ahead
  <2>4. \A s : Waits(s) => Waits(s)'
    BY <2>1, <2>3
  <2>5. ASSUME NEW q \in Proc, At(q, "version")'
        PROVE  Named(q)'
    <3>1. At(q, "version") /\ Named(q)
      BY <1>1, <2>1, <2>5 DEF At
    <3>2. /\ FileOf(job[q]) \in File
          /\ FirstOf(job[q].turns) \in 1..Len(log[FileOf(job[q])])
      <4>1. FileOf(job[q]) \in File /\ FirstOf(job[q].turns) \in DOMAIN log[FileOf(job[q])]
        BY <3>1, TurnInHand DEF IngestInv
      <4>2. log[FileOf(job[q])] \in Transcript
        BY <4>1 DEF IngestInv, Typed
      <4>3. QED
        BY <4>1, <4>2 DEF Transcript
    <3>3. log'[FileOf(job[q])][FirstOf(job[q].turns)] =
            log[FileOf(job[q])][FirstOf(job[q].turns)]
      BY <2>1, <3>2
    <3>4. NewVersion(job[q])' = NewVersion(job[q])
      BY <2>1, <3>3 DEF NewVersion, FileOf, FirstOf
    <3>5. QED
      BY <2>1, <3>1, <3>4
  <2> HIDE DEF Waits, Named
  <2>6. QED
    BY <1>1, <1>2, <2>1, <2>4, <2>5
<1>15. CASE UNCHANGED vars
  <2>1. UNCHANGED <<log, taskNodes, versions, cursors, job>>
    BY <1>15 DEF vars, store
  <2>2. \A f, i : Ahead(f, i)' = Ahead(f, i)
    BY <2>1 DEF Ahead, PromptLines, CursorOf
  <2>3. \A s : Waits(s) => Waits(s)'
    BY <2>1, <2>2
  <2>4. \A q \in Proc : Named(q) => Named(q)'
    BY <2>1 DEF NewVersion, FileOf, FirstOf
  <2> HIDE DEF Waits, Named
  <2>5. QED
    BY <1>1, <1>2, <2>1, <2>3, <2>4 DEF At
<1>16. QED
  BY <1>4, <1>5, <1>7, <1>8, <1>9, <1>10, <1>11, <1>12, <1>13, <1>14, <1>15 DEF Next, Observe

\* These hold at the start.
LEMMA CrashInitially == Init => CrashInv
<1> SUFFICES ASSUME Init PROVE CrashInv
  OBVIOUS
<1>1. IngestInv
  BY IngestInitially
<1>2. /\ \A p \in Proc : job[p] = Idle
      /\ DOMAIN Idle.plan = {} /\ Idle.stage = "idle"
      /\ \A f : CursorOf(f) = 0
      /\ crashes = 0 /\ versions = EmptyTable /\ taskNodes = EmptyTable
  BY DEF Init, Idle, EmptyTable, CursorOf
<1>3. PlannedAhead /\ PinsInOrder
  BY <1>2 DEF PlannedAhead, PinsInOrder, CoveredTo
<1>4. CopiesCounted
  <2>1. \A t : {v \in DOMAIN versions : versions[v].turn = t} = {}
    BY <1>2 DEF EmptyTable
  <2>2. \A t : Copies(t) = 0
    BY <2>1, FS_EmptySet DEF Copies
  <2>3. QED
    BY <1>2, <2>2 DEF CopiesCounted
<1>5. DanglingAhead
  BY <1>2 DEF DanglingAhead, EmptyTable, At
<1>6. QED
  BY <1>1, <1>3, <1>4, <1>5 DEF CrashInv

\* And always.
LEMMA CrashInvariance == Spec => []CrashInv
<1>1. CrashInv /\ [Next]_vars => CrashInv'
  BY IngestInductive, PlannedAheadStep, PinsStep, CopiesStep, DanglingStep DEF CrashInv
<1>2. QED
  BY <1>1, CrashInitially, PTL DEF Spec

\* Passes that do not overlap repeat a turn once for each crash at most.
THEOREM RepeatsAreOfCrashes == Spec => []RepeatsAreCrashes
<1>1. CrashInv => RepeatsAreCrashes
  BY DEF CrashInv, CopiesCounted, RepeatsAreCrashes, Turns, PromptLines, TurnAt, IngestInv,
     Typed, Transcript
<1>2. QED
  BY <1>1, CrashInvariance, PTL

\* Where no pass crashes, however passes overlap, digests cover what lies behind a cursor
\* up to the range a pass has just moved it over.
THEOREM DigestsCover == Spec => []PinsCover
<1>1. CrashInv => PinsCover
  BY DEF CrashInv, PinsInOrder, CoveredTo, Covered, PinsCover
<1>2. QED
  BY <1>1, CrashInvariance, PTL

\* A task node that points to no version is of a turn that is ahead of the cursor.
THEOREM DanglingIsAhead == Spec => []DanglingIsReread
<1>1. ASSUME CrashInv, ~overlapped,
             NEW s \in DOMAIN taskNodes, taskNodes[s] \notin DOMAIN versions
      PROVE  \E t \in Turns : /\ SessionOf[t.file] = s /\ t.line > CursorOf(t.file)
                              /\ log[t.file][t.line].at = taskNodes[s].at
  <2>1. PICK f \in File : \E i \in Nat :
          SessionOf[f] = s /\ Ahead(f, i) /\ taskNodes[s].at = log[f][i].at
    BY <1>1 DEF CrashInv, DanglingAhead
  <2>2. PICK i \in Nat : SessionOf[f] = s /\ Ahead(f, i) /\ taskNodes[s].at = log[f][i].at
    BY <2>1
  <2>3. CursorOf(f) \in Nat
    BY <1>1, CursorsAre DEF CrashInv
  <2>4. i > CursorOf(f) /\ i \in PromptLines(f, 0, Len(log[f]))
    BY <2>2, <2>3 DEF Ahead, PromptLines
  <2>5. TurnAt(f, i) \in Turns /\ TurnAt(f, i).file = f /\ TurnAt(f, i).line = i
    BY <2>1, <2>4 DEF Turns, TurnAt
  <2>6. QED
    BY <2>2, <2>4, <2>5
<1>2. CrashInv => DanglingIsReread
  BY <1>1 DEF DanglingIsReread
<1>3. QED
  BY <1>2, CrashInvariance, PTL
=============================================================================
