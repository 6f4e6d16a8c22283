---------------------------- MODULE RewindProofs ----------------------------
(***************************************************************************)
(* What the manifests of checkpoints hold, for any trees, edits, watches   *)
(* and rewinds, and whatever fails: if nothing was written between the     *)
(* scans of a checkpoint, its manifest is the tree it names, and the one a *)
(* rewind makes first holds all that the rewind may write over.            *)
(***************************************************************************)
EXTENDS Rewind, TLAPS

Contents == Text \cup {NoFile}
Partial == UNION {[S -> Contents] : S \in SUBSET Path}
Manifest == [of : Tree, rows : Partial, disturbed : BOOLEAN, whole : BOOLEAN]

WatchSet ==
  [stage : {"off", "recv", "scan", "ingest", "rescan"}, baseline : Tree, scan : Partial,
   change : SUBSET Path, manifest : Nat, disturbed : BOOLEAN]
RewindSet ==
  [stage : {"off", "scan", "persist", "restore"}, target : Nat, scan : Partial, pre : Nat,
   left : SUBSET Path, start : Tree, disturbed : BOOLEAN]

Typed ==
  /\ tree \in Tree
  /\ manifests \in Seq(Manifest)
  /\ watch \in WatchSet
  /\ rewind \in RewindSet

\* The rows of a manifest come from the second scan, which is over.
RowsOf(m, scan) ==
  \A f \in DOMAIN manifests[m].rows : DOMAIN scan = Path /\ manifests[m].rows[f] = scan[f]

Agrees(scan, t) == \A f \in DOMAIN scan : scan[f] = t[f]

\* A manifest of the watch is of the scan before, and the tree has not moved since then
\* unless the watch was disturbed.
WatchIsTrue ==
  /\ watch.stage = "rescan" =>
       /\ watch.manifest \in DOMAIN manifests
       /\ manifests[watch.manifest].of = watch.baseline
       /\ ~manifests[watch.manifest].whole
       /\ RowsOf(watch.manifest, watch.scan)
  /\ ~watch.disturbed =>
       /\ watch.stage \in {"scan", "rescan"} => Agrees(watch.scan, tree)
       /\ watch.stage \in {"ingest", "rescan"} => watch.baseline = tree

\* And so of the rewind's own checkpoint, as long as nothing is restored.
RewindIsTrue ==
  /\ rewind.stage \in {"scan", "persist", "restore"} => rewind.target \in DOMAIN manifests
  /\ rewind.stage \in {"persist", "restore"} =>
       /\ rewind.pre \in DOMAIN manifests
       /\ DOMAIN rewind.scan = Path
       /\ RowsOf(rewind.pre, rewind.scan)
  /\ rewind.stage = "persist" =>
       /\ ~manifests[rewind.pre].whole
       /\ ~rewind.disturbed => manifests[rewind.pre].of = rewind.start
  /\ rewind.stage = "restore" =>
       /\ rewind.left \subseteq DOMAIN manifests[rewind.target].rows
       /\ Persisted(rewind.pre, Files(rewind.scan))
  /\ ~rewind.disturbed =>
       /\ Agrees(rewind.scan, rewind.start)
       /\ rewind.stage \in {"scan", "persist"} => tree = rewind.start

\* The watch and the rewind never write to one manifest.
Apart ==
  watch.stage = "rescan" /\ rewind.stage \in {"persist", "restore"} =>
    watch.manifest # rewind.pre

CheckpointInv == Typed /\ WatchIsTrue /\ RewindIsTrue /\ Apart /\ ManifestIsCheckpoint

-----------------------------------------------------------------------------
\* What a partial table holds.
LEMMA PartialTable == ASSUME NEW t \in Partial PROVE DOMAIN t \subseteq Path
                                                   /\ \A f \in DOMAIN t : t[f] \in Contents
BY DEF Partial

\* A table of nothing is one.
LEMMA EmptyIsPartial == EmptyTable \in Partial /\ DOMAIN EmptyTable = {}
<1>1. EmptyTable \in [{} -> Contents]
  BY DEF EmptyTable
<1>2. QED
  BY <1>1 DEF Partial, EmptyTable

\* One more row in a scan, or in a manifest.
LEMMA Inserted ==
  ASSUME NEW t \in Partial, NEW f \in Path, NEW c \in Contents
  PROVE  /\ InsertOrReplace(t, f, c) \in Partial
         /\ DOMAIN InsertOrReplace(t, f, c) = DOMAIN t \cup {f}
         /\ InsertOrReplace(t, f, c)[f] = c
         /\ \A g \in DOMAIN t \ {f} : InsertOrReplace(t, f, c)[g] = t[g]
         /\ InsertOrIgnore(t, f, c) \in Partial
         /\ DOMAIN InsertOrIgnore(t, f, c) = DOMAIN t \cup {f}
         /\ \A g \in DOMAIN t : InsertOrIgnore(t, f, c)[g] = t[g]
         /\ f \notin DOMAIN t => InsertOrIgnore(t, f, c)[f] = c
<1>1. DOMAIN t \cup {f} \in SUBSET Path /\ \A g \in DOMAIN t : t[g] \in Contents
  BY PartialTable
<1>2. /\ InsertOrReplace(t, f, c) \in [DOMAIN t \cup {f} -> Contents]
      /\ InsertOrIgnore(t, f, c) \in [DOMAIN t \cup {f} -> Contents]
  BY <1>1 DEF InsertOrReplace, InsertOrIgnore
<1>3. InsertOrReplace(t, f, c) \in Partial /\ InsertOrIgnore(t, f, c) \in Partial
  BY <1>1, <1>2 DEF Partial
<1>4. QED
  BY <1>3 DEF InsertOrReplace, InsertOrIgnore

\* Trees are total tables.
LEMMA TreeTyped == Tree = [Path -> Contents] /\ EmptyTree \in Tree
BY DEF Tree, Contents, EmptyTree

\* A partial table of all paths is a tree.
LEMMA WholeScan == ASSUME NEW s \in Partial, DOMAIN s = Path PROVE s \in Tree
BY TreeTyped DEF Partial

\* Watch and rewind at rest have their types.
LEMMA OffTyped == WatchOff \in WatchSet /\ RewindOff \in RewindSet
<1>1. NoScan \in Partial /\ EmptyTree \in Tree
  BY TreeTyped, EmptyIsPartial DEF NoScan
<1>2. WatchOff \in WatchSet
  BY <1>1 DEF WatchOff, WatchSet
<1>3. RewindOff \in RewindSet
  BY <1>1 DEF RewindOff, RewindSet
<1>4. QED
  BY <1>2, <1>3

\* At the start there are no manifests and nothing runs.
LEMMA CheckpointInitially == RewindInit => CheckpointInv
<1> SUFFICES ASSUME RewindInit PROVE CheckpointInv
  OBVIOUS
<1>1. Typed
  <2>1. manifests \in Seq(Manifest)
    BY DEF RewindInit
  <2>2. WatchOff \in WatchSet
    BY OffTyped
  <2>4. RewindOff \in RewindSet
    BY OffTyped
  <2>3. QED
    BY <2>1, <2>2, <2>4 DEF RewindInit, Typed
<1>2. WatchIsTrue /\ RewindIsTrue /\ Apart
  BY EmptyIsPartial DEF RewindInit, WatchIsTrue, RewindIsTrue, Apart, WatchOff, RewindOff,
     NoScan, Agrees
<1>3. ManifestIsCheckpoint
  BY DEF RewindInit, ManifestIsCheckpoint
<1>4. QED
  BY <1>1, <1>2, <1>3 DEF CheckpointInv

-----------------------------------------------------------------------------
(***************************************************************************)
(* The three statements that write a manifest.                             *)
(***************************************************************************)
\* A new checkpoint is the last manifest and leaves the others as they are.
LEMMA Added ==
  ASSUME Typed, NEW of \in Tree, NEW d \in BOOLEAN, manifests' = NewCheckpoint(of, d)
  PROVE  /\ manifests' \in Seq(Manifest)
         /\ Len(manifests) \in Nat /\ DOMAIN manifests = 1..Len(manifests)
         /\ DOMAIN manifests' = DOMAIN manifests \cup {Len(manifests) + 1}
         /\ \A m \in DOMAIN manifests : manifests'[m] = manifests[m]
         /\ manifests'[Len(manifests) + 1].of = of
         /\ ~manifests'[Len(manifests) + 1].whole
         /\ DOMAIN manifests'[Len(manifests) + 1].rows = {}
<1> DEFINE new == [of |-> of, rows |-> EmptyTable, disturbed |-> d, whole |-> FALSE]
<1>1. new \in Manifest
  BY EmptyIsPartial DEF Manifest
<1>2. manifests \in Seq(Manifest)
  BY DEF Typed
<1>3. manifests' = Append(manifests, new)
  BY DEF NewCheckpoint
<1>4. /\ new.of = of /\ ~new.whole /\ DOMAIN new.rows = {}
  BY EmptyIsPartial
<1> HIDE DEF new
<1>5. QED
  BY <1>1, <1>2, <1>3, <1>4

\* A row goes into one manifest and leaves the others as they are.
LEMMA RowAdded ==
  ASSUME Typed, NEW m \in DOMAIN manifests, NEW scan \in Partial, DOMAIN scan = Path,
         PersistRow(m, scan, Files(scan))
  PROVE  /\ manifests' \in Seq(Manifest)
         /\ DOMAIN manifests' = DOMAIN manifests
         /\ \A k \in DOMAIN manifests \ {m} : manifests'[k] = manifests[k]
         /\ manifests'[m].of = manifests[m].of
         /\ manifests'[m].whole = manifests[m].whole
         /\ manifests'[m].disturbed = manifests[m].disturbed
         /\ DOMAIN manifests[m].rows \subseteq DOMAIN manifests'[m].rows
         /\ \A f \in DOMAIN manifests'[m].rows :
              manifests'[m].rows[f] =
                IF f \in DOMAIN manifests[m].rows THEN manifests[m].rows[f]
                ELSE scan[f]
<1>1. PICK f \in Files(scan) \ DOMAIN manifests[m].rows :
        manifests' = [manifests EXCEPT ![m].rows = InsertOrIgnore(@, f, scan[f])]
  BY DEF PersistRow
<1> DEFINE rows == InsertOrIgnore(manifests[m].rows, f, scan[f])
<1>2. manifests \in Seq(Manifest) /\ manifests[m] \in Manifest
  BY DEF Typed
<1>3. f \in Path /\ scan[f] \in Contents /\ manifests[m].rows \in Partial
  BY <1>2, PartialTable DEF Files, Manifest
<1>4. /\ rows \in Partial
      /\ DOMAIN rows = DOMAIN manifests[m].rows \cup {f}
      /\ \A g \in DOMAIN manifests[m].rows : rows[g] = manifests[m].rows[g]
      /\ rows[f] = scan[f]
  <2>1. f \notin DOMAIN manifests[m].rows
    BY <1>1
  <2> DEFINE old == manifests[m].rows
             text == scan[f]
  <2>2. old \in Partial /\ f \in Path /\ text \in Contents /\ f \notin DOMAIN old
    BY <1>3, <2>1
  <2>3. rows = InsertOrIgnore(old, f, text)
    OBVIOUS
  <2> HIDE DEF old, text, rows
  <2>4. /\ rows \in Partial
        /\ DOMAIN rows = DOMAIN old \cup {f}
        /\ \A g \in DOMAIN old : rows[g] = old[g]
        /\ rows[f] = text
    BY <2>2, <2>3, Inserted
  <2>5. QED
    BY <2>4 DEF old, text
<1>5. manifests' = [manifests EXCEPT ![m].rows = rows]
  BY <1>1
<1> HIDE DEF rows
<1>6. [manifests[m] EXCEPT !.rows = rows] \in Manifest
  BY <1>2, <1>4 DEF Manifest
<1>7. manifests' = [manifests EXCEPT ![m] = [manifests[m] EXCEPT !.rows = rows]]
  BY <1>5
<1>8. manifests' \in Seq(Manifest)
  BY <1>2, <1>6, <1>7
<1>9. /\ manifests'[m] = [manifests[m] EXCEPT !.rows = rows]
      /\ DOMAIN manifests' = DOMAIN manifests
      /\ \A k \in DOMAIN manifests \ {m} : manifests'[k] = manifests[k]
  BY <1>7
<1>10. manifests'[m].rows = rows /\ manifests'[m].of = manifests[m].of
       /\ manifests'[m].whole = manifests[m].whole
       /\ manifests'[m].disturbed = manifests[m].disturbed
  BY <1>2, <1>9 DEF Manifest
<1>11. QED
  BY <1>1, <1>4, <1>8, <1>9, <1>10

\* Closing one manifest leaves its rows and the others as they are.
LEMMA Ended ==
  ASSUME Typed, NEW m \in DOMAIN manifests, NEW d \in BOOLEAN,
         manifests' = [manifests EXCEPT ![m].whole = TRUE, ![m].disturbed = d]
  PROVE  /\ manifests' \in Seq(Manifest)
         /\ DOMAIN manifests' = DOMAIN manifests
         /\ \A k \in DOMAIN manifests \ {m} : manifests'[k] = manifests[k]
         /\ manifests'[m].of = manifests[m].of
         /\ manifests'[m].rows = manifests[m].rows
         /\ manifests'[m].disturbed = d
<1>1. manifests \in Seq(Manifest) /\ manifests[m] \in Manifest
  BY DEF Typed
<1> DEFINE new == [manifests[m] EXCEPT !.whole = TRUE, !.disturbed = d]
<1>2. /\ new \in Manifest
      /\ new.of = manifests[m].of /\ new.rows = manifests[m].rows /\ new.disturbed = d
  BY <1>1 DEF Manifest
<1>3. manifests' = [manifests EXCEPT ![m] = new]
  OBVIOUS
<1> HIDE DEF new
<1>4. manifests' \in Seq(Manifest)
  <2>1. new \in Manifest /\ manifests \in Seq(Manifest)
    BY <1>1, <1>2
  <2>2. QED
    BY ONLY <1>3, <2>1
<1>5. /\ DOMAIN manifests' = DOMAIN manifests /\ manifests'[m] = new
      /\ \A k \in DOMAIN manifests \ {m} : manifests'[k] = manifests[k]
  BY <1>1, <1>3
<1>6. QED
  BY <1>2, <1>4, <1>5

-----------------------------------------------------------------------------
(***************************************************************************)
(* A step keeps the invariant.                                             *)
(***************************************************************************)
\* One lemma for each action. An edit disturbs both scans, so they say nothing from there on.
LEMMA EditKeeps == CheckpointInv /\ Edit => CheckpointInv'
<1> SUFFICES ASSUME CheckpointInv, Edit PROVE CheckpointInv'
  OBVIOUS
<1> USE DEF CheckpointInv
<1>t. Typed'
  <2>1. watch' \in WatchSet /\ rewind' \in RewindSet /\ manifests' \in Seq(Manifest)
    BY DEF Edit, Typed, WatchSet, RewindSet
  <2>2. PICK f \in Path, c \in Contents : tree' = [tree EXCEPT ![f] = c]
    BY DEF Edit, Written, Contents
  <2>3. tree' \in Tree
    BY <2>2, TreeTyped DEF Typed
  <2>4. QED
    BY <2>1, <2>3 DEF Typed
<1>w. WatchIsTrue'
  BY DEF WatchIsTrue, RowsOf, Edit
<1>r. RewindIsTrue'
  BY DEF RewindIsTrue, RowsOf, Persisted, Edit
<1>a. Apart'
  BY DEF Apart, Edit
<1>m. ManifestIsCheckpoint'
  BY DEF ManifestIsCheckpoint, Edit
<1>q. QED
  BY <1>t, <1>w, <1>r, <1>a, <1>m

LEMMA StartWatchKeeps == CheckpointInv /\ StartWatch => CheckpointInv'
<1> SUFFICES ASSUME CheckpointInv, StartWatch PROVE CheckpointInv'
  OBVIOUS
<1> USE DEF CheckpointInv
<1>1. NoScan \in Partial /\ DOMAIN NoScan = {} /\ EmptyTree \in Tree
  BY EmptyIsPartial, TreeTyped DEF NoScan
<1>t. Typed'
  BY <1>1 DEF Typed, WatchSet, StartWatch, WatchOff
<1>w. WatchIsTrue'
  BY DEF WatchIsTrue, StartWatch
<1>r. RewindIsTrue'
  BY DEF RewindIsTrue, RowsOf, Persisted, StartWatch
<1>a. Apart'
  BY DEF Apart, StartWatch
<1>m. ManifestIsCheckpoint'
  BY DEF ManifestIsCheckpoint, StartWatch
<1>q. QED
  BY <1>t, <1>w, <1>r, <1>a, <1>m

LEMMA DrainKeeps == CheckpointInv /\ Drain => CheckpointInv'
<1> SUFFICES ASSUME CheckpointInv, Drain PROVE CheckpointInv'
  OBVIOUS
<1> USE DEF CheckpointInv
<1>1. NoScan \in Partial /\ DOMAIN NoScan = {} /\ EmptyTree \in Tree
  BY EmptyIsPartial, TreeTyped DEF NoScan
<1>t. Typed'
  BY <1>1 DEF Typed, WatchSet, Drain
<1>w. WatchIsTrue'
  BY <1>1 DEF WatchIsTrue, Agrees, Drain
<1>r. RewindIsTrue'
  BY DEF RewindIsTrue, RowsOf, Persisted, Drain
<1>a. Apart'
  BY DEF Apart, Drain
<1>m. ManifestIsCheckpoint'
  BY DEF ManifestIsCheckpoint, Drain
<1>q. QED
  BY <1>t, <1>w, <1>r, <1>a, <1>m

LEMMA WatchReadKeeps == CheckpointInv /\ WatchRead => CheckpointInv'
<1> SUFFICES ASSUME CheckpointInv, WatchRead PROVE CheckpointInv'
  OBVIOUS
<1> USE DEF CheckpointInv
<1>1. PICK f \in Path \ DOMAIN watch.scan :
        watch' = [watch EXCEPT !.scan = InsertOrReplace(@, f, tree[f])]
  BY DEF WatchRead
<1> DEFINE scan == InsertOrReplace(watch.scan, f, tree[f])
<1>2. /\ scan \in Partial
      /\ DOMAIN scan = DOMAIN watch.scan \cup {f}
      /\ scan[f] = tree[f]
      /\ \A g \in DOMAIN watch.scan \ {f} : scan[g] = watch.scan[g]
  <2> DEFINE old == watch.scan
             text == tree[f]
  <2>1. old \in Partial /\ f \in Path /\ text \in Contents
    BY TreeTyped DEF Typed, WatchSet
  <2> HIDE DEF old, text
  <2>2. /\ InsertOrReplace(old, f, text) \in Partial
        /\ DOMAIN InsertOrReplace(old, f, text) = DOMAIN old \cup {f}
        /\ InsertOrReplace(old, f, text)[f] = text
        /\ \A g \in DOMAIN old \ {f} : InsertOrReplace(old, f, text)[g] = old[g]
    BY <2>1, Inserted
  <2>3. QED
    BY <2>2 DEF old, text
<1>3. watch' = [watch EXCEPT !.scan = scan]
  BY <1>1
<1> HIDE DEF scan
<1>t. Typed'
  BY <1>2, <1>3 DEF Typed, WatchSet, WatchRead
<1>w. WatchIsTrue'
  BY <1>2, <1>3 DEF WatchIsTrue, RowsOf, Agrees, Typed, WatchSet, WatchRead
<1>r. RewindIsTrue'
  BY DEF RewindIsTrue, RowsOf, Persisted, WatchRead
<1>a. Apart'
  BY DEF Apart, WatchRead
<1>m. ManifestIsCheckpoint'
  BY DEF ManifestIsCheckpoint, WatchRead
<1>q. QED
  BY <1>t, <1>w, <1>r, <1>a, <1>m

LEMMA CheckpointKeeps == CheckpointInv /\ Checkpoint => CheckpointInv'
<1> SUFFICES ASSUME CheckpointInv, Checkpoint PROVE CheckpointInv'
  OBVIOUS
<1> USE DEF CheckpointInv
<1>1. watch.scan \in Tree
  BY WholeScan DEF Checkpoint, Scanned, Typed, WatchSet
<1>2. ~watch.disturbed => watch.scan = tree
  <2>1. ~watch.disturbed => \A f \in Path : watch.scan[f] = tree[f]
    BY DEF Checkpoint, Scanned, WatchIsTrue, Agrees
  <2>2. QED
    BY <1>1, <2>1 DEF Typed, Tree
<1>3. ChangedFiles(watch.baseline, watch.scan) \in SUBSET Path
  BY DEF ChangedFiles
<1>t. Typed'
  BY <1>1, <1>3 DEF Typed, WatchSet, Checkpoint
<1>w. WatchIsTrue'
  BY <1>2 DEF WatchIsTrue, Checkpoint
<1>r. RewindIsTrue'
  BY DEF RewindIsTrue, RowsOf, Persisted, Checkpoint
<1>a. Apart'
  BY DEF Apart, Checkpoint
<1>m. ManifestIsCheckpoint'
  BY DEF ManifestIsCheckpoint, Checkpoint
<1>q. QED
  BY <1>t, <1>w, <1>r, <1>a, <1>m

LEMMA IngestChangeKeeps == CheckpointInv /\ IngestChange => CheckpointInv'
<1> SUFFICES ASSUME CheckpointInv, IngestChange PROVE CheckpointInv'
  OBVIOUS
<1> USE DEF CheckpointInv
<1>1. /\ manifests' \in Seq(Manifest)
      /\ Len(manifests) \in Nat /\ DOMAIN manifests = 1..Len(manifests)
      /\ DOMAIN manifests' = DOMAIN manifests \cup {Len(manifests) + 1}
      /\ \A m \in DOMAIN manifests : manifests'[m] = manifests[m]
      /\ manifests'[Len(manifests) + 1].of = watch.baseline
      /\ ~manifests'[Len(manifests) + 1].whole
      /\ DOMAIN manifests'[Len(manifests) + 1].rows = {}
  BY Added DEF IngestChange, Typed, WatchSet
<1>2. Len(manifests) + 1 \notin DOMAIN manifests
  BY <1>1
<1>3. NoScan \in Partial /\ DOMAIN NoScan = {}
  BY EmptyIsPartial DEF NoScan
<1>t. Typed'
  <2>1. tree' \in Tree /\ rewind' \in RewindSet
    BY DEF IngestChange, Typed
  <2>2. Len(manifests) + 1 \in Nat
    BY <1>1
  <2>3. PICK n \in Nat :
          watch' = [watch EXCEPT !.stage = "rescan", !.scan = NoScan, !.manifest = n]
    BY <2>2 DEF IngestChange
  <2>4. watch' \in WatchSet
    BY <1>3, <2>3 DEF Typed, WatchSet
  <2>5. manifests' \in Seq(Manifest)
    BY <1>1
  <2>6. QED
    BY <2>1, <2>4, <2>5 DEF Typed
<1>w. WatchIsTrue'
  BY <1>1, <1>3 DEF WatchIsTrue, RowsOf, Agrees, Typed, WatchSet, IngestChange
<1>r. RewindIsTrue'
  BY <1>1 DEF RewindIsTrue, RowsOf, Persisted, IngestChange
<1>a. Apart'
  BY <1>2 DEF Apart, IngestChange, RewindIsTrue
<1>m. ManifestIsCheckpoint'
  BY <1>1 DEF ManifestIsCheckpoint
<1>q. QED
  BY <1>t, <1>w, <1>r, <1>a, <1>m

LEMMA IngestFailsKeeps == CheckpointInv /\ IngestFails => CheckpointInv'
<1> SUFFICES ASSUME CheckpointInv, IngestFails PROVE CheckpointInv'
  OBVIOUS
<1> USE DEF CheckpointInv
<1>1. /\ manifests' \in Seq(Manifest)
      /\ Len(manifests) \in Nat /\ DOMAIN manifests = 1..Len(manifests)
      /\ DOMAIN manifests' = DOMAIN manifests \cup {Len(manifests) + 1}
      /\ \A m \in DOMAIN manifests : manifests'[m] = manifests[m]
      /\ manifests'[Len(manifests) + 1].of = watch.baseline
      /\ ~manifests'[Len(manifests) + 1].whole
      /\ DOMAIN manifests'[Len(manifests) + 1].rows = {}
  BY Added DEF IngestFails, Typed, WatchSet
<1>2. NoScan \in Partial /\ DOMAIN NoScan = {}
  BY EmptyIsPartial DEF NoScan
<1>t. Typed'
  <2>1. tree' \in Tree /\ rewind' \in RewindSet
    BY DEF IngestFails, Typed
  <2>2. Len(manifests) + 1 \in Nat
    BY <1>1
  <2>3. PICK n \in Nat :
          watch' = [watch EXCEPT !.stage = "rescan", !.scan = NoScan, !.manifest = n]
    BY <2>2 DEF IngestFails
  <2>4. watch' \in WatchSet
    BY <1>2, <2>3 DEF Typed, WatchSet
  <2>5. manifests' \in Seq(Manifest)
    BY <1>1
  <2>6. QED
    BY <2>1, <2>4, <2>5 DEF Typed
<1>w. WatchIsTrue'
  BY <1>1, <1>2 DEF WatchIsTrue, RowsOf, Agrees, Typed, WatchSet, IngestFails
<1>r. RewindIsTrue'
  BY <1>1 DEF RewindIsTrue, RowsOf, Persisted, IngestFails
<1>a. Apart'
  BY DEF Apart, IngestFails, RewindIsTrue
<1>m. ManifestIsCheckpoint'
  BY <1>1 DEF ManifestIsCheckpoint
<1>q. QED
  BY <1>t, <1>w, <1>r, <1>a, <1>m

LEMMA WatchPersistKeeps == CheckpointInv /\ WatchPersist => CheckpointInv'
<1> SUFFICES ASSUME CheckpointInv, WatchPersist PROVE CheckpointInv'
  OBVIOUS
<1> USE DEF CheckpointInv
<1>1. /\ watch.manifest \in DOMAIN manifests /\ watch.scan \in Partial
      /\ DOMAIN watch.scan = Path
  BY DEF WatchPersist, Scanned, Typed, WatchSet, WatchIsTrue
<1>2. /\ manifests' \in Seq(Manifest)
      /\ DOMAIN manifests' = DOMAIN manifests
      /\ \A k \in DOMAIN manifests \ {watch.manifest} : manifests'[k] = manifests[k]
      /\ manifests'[watch.manifest].of = manifests[watch.manifest].of
      /\ manifests'[watch.manifest].whole = manifests[watch.manifest].whole
      /\ manifests'[watch.manifest].disturbed = manifests[watch.manifest].disturbed
      /\ DOMAIN manifests[watch.manifest].rows
           \subseteq DOMAIN manifests'[watch.manifest].rows
      /\ \A f \in DOMAIN manifests'[watch.manifest].rows :
           manifests'[watch.manifest].rows[f] =
             IF f \in DOMAIN manifests[watch.manifest].rows THEN manifests[watch.manifest].rows[f]
             ELSE watch.scan[f]
  BY <1>1, RowAdded DEF WatchPersist, Listed
<1>t. Typed'
  BY <1>2 DEF Typed, WatchPersist
<1>w. WatchIsTrue'
  BY <1>1, <1>2 DEF WatchIsTrue, RowsOf, WatchPersist
<1>r. RewindIsTrue'
  BY <1>2 DEF RewindIsTrue, RowsOf, Persisted, WatchPersist, Apart
<1>a. Apart'
  BY DEF Apart, WatchPersist
<1>m. ManifestIsCheckpoint'
  BY <1>2 DEF ManifestIsCheckpoint
<1>q. QED
  BY <1>t, <1>w, <1>r, <1>a, <1>m

LEMMA RewindPersistKeeps == CheckpointInv /\ RewindPersist => CheckpointInv'
<1> SUFFICES ASSUME CheckpointInv, RewindPersist PROVE CheckpointInv'
  OBVIOUS
<1> USE DEF CheckpointInv
<1>1. /\ rewind.pre \in DOMAIN manifests /\ rewind.scan \in Partial
      /\ DOMAIN rewind.scan = Path
  BY DEF RewindPersist, Typed, RewindSet, RewindIsTrue
<1>2. /\ manifests' \in Seq(Manifest)
      /\ DOMAIN manifests' = DOMAIN manifests
      /\ \A k \in DOMAIN manifests \ {rewind.pre} : manifests'[k] = manifests[k]
      /\ manifests'[rewind.pre].of = manifests[rewind.pre].of
      /\ manifests'[rewind.pre].whole = manifests[rewind.pre].whole
      /\ manifests'[rewind.pre].disturbed = manifests[rewind.pre].disturbed
      /\ DOMAIN manifests[rewind.pre].rows \subseteq DOMAIN manifests'[rewind.pre].rows
      /\ \A f \in DOMAIN manifests'[rewind.pre].rows :
           manifests'[rewind.pre].rows[f] =
             IF f \in DOMAIN manifests[rewind.pre].rows THEN manifests[rewind.pre].rows[f]
             ELSE rewind.scan[f]
  BY <1>1, RowAdded DEF RewindPersist
<1>t. Typed'
  BY <1>2 DEF Typed, RewindPersist
<1>w. WatchIsTrue'
  BY <1>2 DEF WatchIsTrue, RowsOf, RewindPersist, Apart
<1>r. RewindIsTrue'
  BY <1>2 DEF RewindIsTrue, RowsOf, RewindPersist
<1>a. Apart'
  BY DEF Apart, RewindPersist
<1>m. ManifestIsCheckpoint'
  BY <1>2 DEF ManifestIsCheckpoint
<1>q. QED
  BY <1>t, <1>w, <1>r, <1>a, <1>m

LEMMA EndPersistKeeps == CheckpointInv /\ EndPersist => CheckpointInv'
<1> SUFFICES ASSUME CheckpointInv, EndPersist PROVE CheckpointInv'
  OBVIOUS
<1> USE DEF CheckpointInv
<1>1. watch.manifest \in DOMAIN manifests
  BY DEF EndPersist, WatchIsTrue
<1>2. /\ manifests' \in Seq(Manifest)
      /\ DOMAIN manifests' = DOMAIN manifests
      /\ \A k \in DOMAIN manifests \ {watch.manifest} : manifests'[k] = manifests[k]
      /\ manifests'[watch.manifest].of = manifests[watch.manifest].of
      /\ manifests'[watch.manifest].rows = manifests[watch.manifest].rows
      /\ manifests'[watch.manifest].disturbed = watch.disturbed
  BY <1>1, Ended DEF EndPersist, Typed, WatchSet
<1>t. Typed'
  BY <1>2 DEF Typed, WatchSet, EndPersist
<1>w. WatchIsTrue'
  BY DEF WatchIsTrue, EndPersist
<1>r. RewindIsTrue'
  BY DEF RewindIsTrue, RowsOf, Persisted, EndPersist, Apart
<1>a. Apart'
  BY DEF Apart, EndPersist
<1>m. ManifestIsCheckpoint'
  BY DEF ManifestIsCheckpoint, EndPersist, WatchIsTrue, RowsOf, Agrees, Persisted, Listed,
     Scanned, Files
<1>q. QED
  BY <1>t, <1>w, <1>r, <1>a, <1>m

LEMMA BeginRestoreKeeps == CheckpointInv /\ BeginRestore => CheckpointInv'
<1> SUFFICES ASSUME CheckpointInv, BeginRestore PROVE CheckpointInv'
  OBVIOUS
<1> USE DEF CheckpointInv
<1>1. rewind.pre \in DOMAIN manifests
  BY DEF BeginRestore, RewindIsTrue
<1>2. /\ manifests' \in Seq(Manifest)
      /\ DOMAIN manifests' = DOMAIN manifests
      /\ \A k \in DOMAIN manifests \ {rewind.pre} : manifests'[k] = manifests[k]
      /\ manifests'[rewind.pre].of = manifests[rewind.pre].of
      /\ manifests'[rewind.pre].rows = manifests[rewind.pre].rows
      /\ manifests'[rewind.pre].disturbed = rewind.disturbed
  BY <1>1, Ended DEF BeginRestore, Typed, RewindSet
<1>t. Typed'
  <2>1. tree' \in Tree /\ watch' \in WatchSet
    BY DEF BeginRestore, Typed
  <2>2. rewind.target \in DOMAIN manifests
    BY DEF BeginRestore, RewindIsTrue
  <2>3. manifests[rewind.target] \in Manifest
    BY <2>2 DEF Typed
  <2>4. DOMAIN manifests[rewind.target].rows \in SUBSET Path
    BY <2>3, PartialTable DEF Manifest
  <2>5. rewind' \in RewindSet
    BY <2>4 DEF BeginRestore, Typed, RewindSet
  <2>6. manifests' \in Seq(Manifest)
    BY <1>2
  <2>7. QED
    BY <2>1, <2>5, <2>6 DEF Typed
<1>w. WatchIsTrue'
  BY DEF WatchIsTrue, RowsOf, BeginRestore, Apart
<1>r. RewindIsTrue'
  BY <1>2 DEF RewindIsTrue, RowsOf, Persisted, BeginRestore, Kept
<1>a. Apart'
  BY DEF Apart, BeginRestore
<1>m. ManifestIsCheckpoint'
  BY DEF ManifestIsCheckpoint, BeginRestore, RewindIsTrue, RowsOf, Agrees, Persisted,
     Kept, Files
<1>q. QED
  BY <1>t, <1>w, <1>r, <1>a, <1>m

LEMMA StopWatchKeeps == CheckpointInv /\ StopWatch => CheckpointInv'
<1> SUFFICES ASSUME CheckpointInv, StopWatch PROVE CheckpointInv'
  OBVIOUS
<1> USE DEF CheckpointInv
<1>1. NoScan \in Partial /\ DOMAIN NoScan = {} /\ EmptyTree \in Tree
  BY EmptyIsPartial, TreeTyped DEF NoScan
<1>t. Typed'
  BY <1>1 DEF Typed, WatchSet, StopWatch, WatchOff
<1>w. WatchIsTrue'
  BY DEF WatchIsTrue, StopWatch, WatchOff
<1>r. RewindIsTrue'
  BY DEF RewindIsTrue, RowsOf, Persisted, StopWatch
<1>a. Apart'
  BY DEF Apart, StopWatch, WatchOff
<1>m. ManifestIsCheckpoint'
  BY DEF ManifestIsCheckpoint, StopWatch
<1>q. QED
  BY <1>t, <1>w, <1>r, <1>a, <1>m

LEMMA StartRewindKeeps == CheckpointInv /\ StartRewind => CheckpointInv'
<1> SUFFICES ASSUME CheckpointInv, StartRewind PROVE CheckpointInv'
  OBVIOUS
<1> USE DEF CheckpointInv
<1>1. NoScan \in Partial /\ DOMAIN NoScan = {} /\ EmptyTree \in Tree
  BY EmptyIsPartial, TreeTyped DEF NoScan
<1>t. Typed'
  <2>1. tree' \in Tree /\ watch' \in WatchSet /\ manifests' \in Seq(Manifest)
    BY DEF StartRewind, Typed
  <2>2. PICK m \in Restorable :
          rewind' = [RewindOff EXCEPT !.stage = "scan", !.target = m, !.start = tree]
    BY DEF StartRewind
  <2>3. m \in Nat
    BY DEF Restorable, Typed
  <2>4. rewind' \in RewindSet
    BY <2>2, <2>3, OffTyped DEF Typed, RewindSet
  <2>5. QED
    BY <2>1, <2>4 DEF Typed
<1>w. WatchIsTrue'
  BY DEF WatchIsTrue, RowsOf, StartRewind
<1>r. RewindIsTrue'
  BY <1>1 DEF RewindIsTrue, Agrees, StartRewind, RewindOff, Restorable
<1>a. Apart'
  BY DEF Apart, StartRewind
<1>m. ManifestIsCheckpoint'
  BY DEF ManifestIsCheckpoint, StartRewind
<1>q. QED
  BY <1>t, <1>w, <1>r, <1>a, <1>m

LEMMA RewindReadKeeps == CheckpointInv /\ RewindRead => CheckpointInv'
<1> SUFFICES ASSUME CheckpointInv, RewindRead PROVE CheckpointInv'
  OBVIOUS
<1> USE DEF CheckpointInv
<1>1. PICK f \in Path \ DOMAIN rewind.scan :
        rewind' = [rewind EXCEPT !.scan = InsertOrReplace(@, f, tree[f])]
  BY DEF RewindRead
<1> DEFINE scan == InsertOrReplace(rewind.scan, f, tree[f])
<1>2. /\ scan \in Partial
      /\ DOMAIN scan = DOMAIN rewind.scan \cup {f}
      /\ scan[f] = tree[f]
      /\ \A g \in DOMAIN rewind.scan \ {f} : scan[g] = rewind.scan[g]
  <2> DEFINE old == rewind.scan
             text == tree[f]
  <2>1. old \in Partial /\ f \in Path /\ text \in Contents
    BY TreeTyped DEF Typed, RewindSet
  <2> HIDE DEF old, text
  <2>2. /\ InsertOrReplace(old, f, text) \in Partial
        /\ DOMAIN InsertOrReplace(old, f, text) = DOMAIN old \cup {f}
        /\ InsertOrReplace(old, f, text)[f] = text
        /\ \A g \in DOMAIN old \ {f} : InsertOrReplace(old, f, text)[g] = old[g]
    BY <2>1, Inserted
  <2>3. QED
    BY <2>2 DEF old, text
<1>3. rewind' = [rewind EXCEPT !.scan = scan]
  BY <1>1
<1> HIDE DEF scan
<1>t. Typed'
  BY <1>2, <1>3 DEF Typed, RewindSet, RewindRead
<1>w. WatchIsTrue'
  BY DEF WatchIsTrue, RowsOf, RewindRead
<1>r. RewindIsTrue'
  BY <1>2, <1>3 DEF RewindIsTrue, Agrees, Typed, RewindSet, RewindRead
<1>a. Apart'
  BY DEF Apart, RewindRead
<1>m. ManifestIsCheckpoint'
  BY DEF ManifestIsCheckpoint, RewindRead
<1>q. QED
  BY <1>t, <1>w, <1>r, <1>a, <1>m

LEMMA NamePreKeeps == CheckpointInv /\ NamePre => CheckpointInv'
<1> SUFFICES ASSUME CheckpointInv, NamePre PROVE CheckpointInv'
  OBVIOUS
<1> USE DEF CheckpointInv
<1>1. /\ manifests' \in Seq(Manifest)
      /\ Len(manifests) \in Nat /\ DOMAIN manifests = 1..Len(manifests)
      /\ DOMAIN manifests' = DOMAIN manifests \cup {Len(manifests) + 1}
      /\ \A m \in DOMAIN manifests : manifests'[m] = manifests[m]
      /\ manifests'[Len(manifests) + 1].of = tree
      /\ ~manifests'[Len(manifests) + 1].whole
      /\ DOMAIN manifests'[Len(manifests) + 1].rows = {}
  BY Added DEF NamePre, Typed, RewindSet
<1>2. Len(manifests) + 1 \notin DOMAIN manifests
  BY <1>1
<1>t. Typed'
  <2>1. tree' \in Tree /\ watch' \in WatchSet
    BY DEF NamePre, Typed
  <2>2. Len(manifests) + 1 \in Nat
    BY <1>1
  <2>3. PICK n \in Nat : rewind' = [rewind EXCEPT !.stage = "persist", !.pre = n]
    BY <2>2 DEF NamePre
  <2>4. rewind' \in RewindSet
    BY <2>3 DEF Typed, RewindSet
  <2>5. manifests' \in Seq(Manifest)
    BY <1>1
  <2>6. QED
    BY <2>1, <2>4, <2>5 DEF Typed
<1>w. WatchIsTrue'
  BY <1>1 DEF WatchIsTrue, RowsOf, NamePre
<1>r. RewindIsTrue'
  BY <1>1 DEF RewindIsTrue, RowsOf, NamePre, Scanned
<1>a. Apart'
  BY <1>2 DEF Apart, NamePre, WatchIsTrue
<1>m. ManifestIsCheckpoint'
  BY <1>1 DEF ManifestIsCheckpoint
<1>q. QED
  BY <1>t, <1>w, <1>r, <1>a, <1>m

LEMMA RestoreFileKeeps == CheckpointInv /\ RestoreFile => CheckpointInv'
<1> SUFFICES ASSUME CheckpointInv, RestoreFile PROVE CheckpointInv'
  OBVIOUS
<1> USE DEF CheckpointInv
<1>t. Typed'
  <2>1. watch' \in WatchSet /\ manifests' \in Seq(Manifest)
    BY DEF RestoreFile, Typed, WatchSet
  <2>2. PICK f \in rewind.left : /\ Written(f, manifests[rewind.target].rows[f])
                             /\ rewind' = [rewind EXCEPT !.left = @ \ {f}]
    BY DEF RestoreFile
  <2>3. rewind' \in RewindSet
    BY <2>2 DEF Typed, RewindSet
  <2>4. rewind.target \in DOMAIN manifests /\ f \in DOMAIN manifests[rewind.target].rows
    BY DEF RestoreFile, RewindIsTrue
  <2>5. manifests[rewind.target] \in Manifest
    BY <2>4 DEF Typed
  <2>6. manifests[rewind.target].rows[f] \in Contents
    BY <2>4, <2>5, PartialTable DEF Manifest
  <2>7. tree' \in Tree
    BY <2>2, <2>6, TreeTyped DEF Written, Typed
  <2>8. QED
    BY <2>1, <2>3, <2>7 DEF Typed
<1>w. WatchIsTrue'
  BY DEF WatchIsTrue, RowsOf, RestoreFile
<1>r. RewindIsTrue'
  BY DEF RewindIsTrue, RowsOf, Persisted, RestoreFile
<1>a. Apart'
  BY DEF Apart, RestoreFile
<1>m. ManifestIsCheckpoint'
  BY DEF ManifestIsCheckpoint, RestoreFile
<1>q. QED
  BY <1>t, <1>w, <1>r, <1>a, <1>m

LEMMA EndRewindKeeps == CheckpointInv /\ EndRewind => CheckpointInv'
<1> SUFFICES ASSUME CheckpointInv, EndRewind PROVE CheckpointInv'
  OBVIOUS
<1> USE DEF CheckpointInv
<1>1. NoScan \in Partial /\ DOMAIN NoScan = {} /\ EmptyTree \in Tree
  BY EmptyIsPartial, TreeTyped DEF NoScan
<1>t. Typed'
  BY <1>1 DEF Typed, RewindSet, EndRewind, RewindOff
<1>w. WatchIsTrue'
  BY DEF WatchIsTrue, RowsOf, EndRewind
<1>r. RewindIsTrue'
  BY <1>1 DEF RewindIsTrue, Agrees, EndRewind, RewindOff
<1>a. Apart'
  BY DEF Apart, EndRewind, RewindOff
<1>m. ManifestIsCheckpoint'
  BY DEF ManifestIsCheckpoint, EndRewind
<1>q. QED
  BY <1>t, <1>w, <1>r, <1>a, <1>m

LEMMA AbortRewindKeeps == CheckpointInv /\ AbortRewind => CheckpointInv'
<1> SUFFICES ASSUME CheckpointInv, AbortRewind PROVE CheckpointInv'
  OBVIOUS
<1> USE DEF CheckpointInv
<1>1. NoScan \in Partial /\ DOMAIN NoScan = {} /\ EmptyTree \in Tree
  BY EmptyIsPartial, TreeTyped DEF NoScan
<1>t. Typed'
  BY <1>1 DEF Typed, RewindSet, AbortRewind, RewindOff
<1>w. WatchIsTrue'
  BY DEF WatchIsTrue, RowsOf, AbortRewind
<1>r. RewindIsTrue'
  BY <1>1 DEF RewindIsTrue, Agrees, AbortRewind, RewindOff
<1>a. Apart'
  BY DEF Apart, AbortRewind, RewindOff
<1>m. ManifestIsCheckpoint'
  BY DEF ManifestIsCheckpoint, AbortRewind
<1>q. QED
  BY <1>t, <1>w, <1>r, <1>a, <1>m

\* So every step keeps the invariant of checkpoints.
LEMMA CheckpointStep == CheckpointInv /\ [RewindNext]_rewindVars => CheckpointInv'
<1>1. ASSUME CheckpointInv, UNCHANGED rewindVars PROVE CheckpointInv'
  BY <1>1 DEF rewindVars, CheckpointInv, Typed, WatchIsTrue, RewindIsTrue, Apart,
     ManifestIsCheckpoint, RowsOf, Agrees, Persisted
<1>2. QED
  BY <1>1, EditKeeps, StartWatchKeeps, DrainKeeps, WatchReadKeeps, CheckpointKeeps,
     IngestChangeKeeps, IngestFailsKeeps, WatchPersistKeeps, EndPersistKeeps,
     StopWatchKeeps, StartRewindKeeps, RewindReadKeeps, NamePreKeeps, RewindPersistKeeps,
     BeginRestoreKeeps, RestoreFileKeeps, EndRewindKeeps, AbortRewindKeeps DEF RewindNext,
     WatchStep, RewindStep

\* Everything that is known of the manifests while the watch and a rewind write them
\* (cmd_watch, cmd_rewind) holds in every state.
THEOREM CheckpointInvariance == RewindSpec => []CheckpointInv
<1>1. QED
  BY CheckpointInitially, CheckpointStep, PTL DEF RewindSpec

\* A manifest that was written to its end, with no write between the scans it comes
\* from, holds the tree its id is a hash of (persist_manifest), for any number of
\* watches and rewinds that fail or die.
THEOREM ManifestsAreTrue == RewindSpec => []ManifestIsCheckpoint
<1>1. CheckpointInv => ManifestIsCheckpoint
  BY DEF CheckpointInv
<1>2. QED
  BY <1>1, CheckpointInvariance, PTL

\* Before a rewind writes its first file, and at every file after it, all that was in
\* the tree is in the manifest of the checkpoint it made first (cmd_rewind).
THEOREM RewindsCanBeUndone == RewindSpec => []RewindIsReversible
<1>1. ASSUME CheckpointInv PROVE RewindIsReversible
  <2>1. SUFFICES ASSUME rewind.stage = "restore", ~rewind.disturbed,
                        NEW f \in Files(rewind.start)
                 PROVE  /\ f \in DOMAIN manifests[rewind.pre].rows
                        /\ manifests[rewind.pre].rows[f] = rewind.start[f]
    BY DEF RewindIsReversible
  <2>2. f \in Path /\ DOMAIN rewind.scan = Path /\ rewind.scan[f] = rewind.start[f]
    BY <1>1, <2>1 DEF CheckpointInv, RewindIsTrue, Agrees, Files
  <2>3. f \in Files(rewind.scan)
    BY <2>2 DEF Files
  <2>4. QED
    BY <1>1, <2>1, <2>2, <2>3 DEF CheckpointInv, RewindIsTrue, RowsOf, Persisted
<1>2. QED
  BY <1>1, CheckpointInvariance, PTL

-----------------------------------------------------------------------------
(***************************************************************************)
(* What the graph knows of the tree.                                       *)
(***************************************************************************)
\* A file the engine has not seen is not in its baseline; and but for those, for what it
\* failed to ingest and for what it has still to, the graph is as the baseline is.
BaselineIngested ==
  Watching =>
    /\ \A f \in missed : watch.baseline[f] = NoFile
    /\ \A f \in Path \ (missed \cup lost) :
         \/ graph[f] = watch.baseline[f]
         \/ watch.stage = "ingest" /\ f \in watch.change

\* While no event waits, what has been scanned is what there is.
BaselineIsTree ==
  (Watching /\ ~events) =>
    /\ watch.stage = "scan" => Agrees(watch.scan, tree)
    /\ \/ watch.stage \in {"ingest", "rescan"}
       \/ watch.stage = "recv" /\ watch.baseline # EmptyTree
       => watch.baseline = tree

ObservedInv ==
  /\ graph \in Tree /\ missed \subseteq Path
  /\ BaselineIngested /\ BaselineIsTree

\* At the start nothing is watched.
LEMMA ObservedInitially == RewindInit => ObservedInv
BY TreeTyped DEF RewindInit, ObservedInv, BaselineIngested, BaselineIsTree, Watching, WatchOff

\* Steps that the graph, the tree and the watch of it take no notice of.
LEMMA ElsewhereObserved ==
  ASSUME ObservedInv, UNCHANGED <<tree, events, graph, missed, lost>>,
         UNCHANGED <<watch.stage, watch.baseline, watch.scan, watch.change>>
  PROVE  ObservedInv'
BY DEF ObservedInv, BaselineIngested, BaselineIsTree, Watching, Agrees

\* After a write an event waits.
LEMMA WriteObserved ==
  ASSUME ObservedInv, events' = Watching, UNCHANGED <<graph, missed, lost>>,
         UNCHANGED <<watch.stage, watch.baseline, watch.scan, watch.change>>
  PROVE  ObservedInv'
BY DEF ObservedInv, BaselineIngested, BaselineIsTree, Watching

\* A watch begins with the tree it ingests, or with what is said to be missed.
LEMMA StartObserved ==
  ASSUME ObservedInv, StartWatch
  PROVE  ObservedInv'
<1>1. /\ UNCHANGED <<graph, lost, tree>> /\ missed' = Files(graph)
      /\ watch'.stage = "recv" /\ watch'.baseline = EmptyTree
  BY DEF StartWatch, WatchOff
<1>2. \A f \in Path : EmptyTree[f] = NoFile /\ (f \notin Files(graph) => graph[f] = NoFile)
  BY DEF EmptyTree, Files
<1>3. missed' \subseteq Path /\ graph' \in Tree
  BY <1>1 DEF Files, ObservedInv
<1>4. BaselineIngested' /\ BaselineIsTree'
  BY <1>1, <1>2, <1>3 DEF BaselineIngested, BaselineIsTree
<1>5. QED
  BY <1>3, <1>4 DEF ObservedInv

\* A change that is found is in hand, missed, or of the graph already.
LEMMA CheckpointObserved ==
  ASSUME Typed, ObservedInv, Checkpoint
  PROVE  ObservedInv'
<1>1. PICK change : change = ChangedFiles(watch.baseline, watch.scan)
  OBVIOUS
<1>2. /\ UNCHANGED <<tree, events, graph, lost>> /\ missed' = missed \ Files(watch.scan)
      /\ watch.stage = "scan" /\ DOMAIN watch.scan = Path
  BY DEF Checkpoint, Scanned
<1>3. watch' = [watch EXCEPT !.baseline = watch.scan, !.change = change,
                  !.stage = IF change = {} THEN "recv" ELSE "ingest"]
  BY <1>1 DEF Checkpoint
<1>4. /\ watch'.baseline = watch.scan /\ watch'.change = change
      /\ watch'.stage = IF change = {} THEN "recv" ELSE "ingest"
  BY <1>3 DEF Typed, WatchSet
<1>5. watch.scan \in Tree /\ tree \in Tree /\ watch.baseline \in Tree
  BY <1>2, WholeScan DEF Typed, WatchSet
<1>6. Watching /\ Watching'
  BY <1>2, <1>4 DEF Watching
<1>7. \A f \in Path : watch.scan[f] = watch.baseline[f] \/ f \in change
  BY <1>1 DEF ChangedFiles
<1>8. BaselineIngested'
  <2>1. SUFFICES /\ \A f \in missed' : watch.scan[f] = NoFile
                 /\ \A f \in Path \ (missed' \cup lost) :
                      graph[f] = watch.scan[f] \/ f \in change
    BY <1>2, <1>4 DEF BaselineIngested
  <2>2. \A f \in missed' : watch.scan[f] = NoFile
    BY <1>2 DEF Files, ObservedInv
  <2>3. ASSUME NEW f \in Path \ (missed' \cup lost), f \notin change
        PROVE  graph[f] = watch.scan[f]
    <3>1. watch.scan[f] = watch.baseline[f]
      BY <1>7, <2>3
    <3>2. f \notin missed
      BY <1>2, <1>6, <2>3, <3>1 DEF Files, ObservedInv, BaselineIngested
    <3>3. QED
      BY <1>2, <1>6, <2>3, <3>1, <3>2 DEF ObservedInv, BaselineIngested
  <2>4. QED
    BY <2>1, <2>2, <2>3
<1>9. BaselineIsTree'
  <2>1. SUFFICES ASSUME ~events PROVE watch.scan = tree
    BY <1>2, <1>4 DEF BaselineIsTree
  <2>2. Agrees(watch.scan, tree)
    BY <1>2, <1>6, <2>1 DEF ObservedInv, BaselineIsTree
  <2>3. QED
    BY <1>2, <1>5, <2>2 DEF Agrees, Tree
<1>10. QED
  BY <1>2, <1>8, <1>9 DEF ObservedInv

\* A change is ingested, or its files are lost; or the watch stops.
LEMMA IngestObserved ==
  ASSUME Typed, ObservedInv, IngestChange \/ IngestFails
  PROVE  ObservedInv'
<1>1. /\ UNCHANGED <<tree, events, missed>>
      /\ watch.stage = "ingest" /\ watch' = [watch EXCEPT !.stage = "rescan", !.scan = NoScan,
                                                 !.manifest = Len(manifests) + 1]
  BY DEF IngestChange, IngestFails
<1>2. watch'.stage = "rescan" /\ watch'.baseline = watch.baseline
  BY <1>1 DEF Typed, WatchSet
<1>3. Watching /\ Watching'
  BY <1>1, <1>2 DEF Watching
<1>4. watch.baseline \in Tree
  BY DEF Typed, WatchSet
<1>5. /\ graph' \in Tree
      /\ \A f \in Path \ (missed \cup lost') : graph'[f] = watch.baseline[f]
  <2>1. \A f \in Path \ (missed \cup lost) :
          graph[f] = watch.baseline[f] \/ f \in watch.change
    BY <1>3 DEF ObservedInv, BaselineIngested
  <2>2. CASE IngestChange
    <3>1. /\ graph' = [f \in Path |->
                         IF f \in watch.change THEN watch.baseline[f] ELSE graph[f]]
          /\ lost' = lost \ watch.change
      BY <2>2 DEF IngestChange
    <3>2. graph' \in Tree
      BY <1>4, <3>1 DEF ObservedInv, Tree
    <3>3. QED
      BY <2>1, <3>1, <3>2
  <2>3. CASE IngestFails
    BY <2>1, <2>3 DEF IngestFails, ObservedInv
  <2>4. QED
    BY <2>2, <2>3
<1>6. BaselineIngested'
  BY <1>1, <1>2, <1>3, <1>5 DEF ObservedInv, BaselineIngested
<1>7. BaselineIsTree'
  BY <1>1, <1>2, <1>3 DEF ObservedInv, BaselineIsTree
<1>8. QED
  BY <1>1, <1>5, <1>6, <1>7 DEF ObservedInv

\* Reading a file adds the row the tree has, so a scan that agrees with it still does.
LEMMA ReadAgrees ==
  ASSUME NEW old \in Partial, NEW t \in Tree, NEW f \in Path, t[f] \in Contents, Agrees(old, t)
  PROVE  Agrees(InsertOrReplace(old, f, t[f]), t)
<1> DEFINE text == t[f]
<1>1. text \in Contents
  OBVIOUS
<1>2. text = t[f]
  OBVIOUS
<1> HIDE DEF text
<1>3. /\ DOMAIN InsertOrReplace(old, f, text) = DOMAIN old \cup {f}
      /\ InsertOrReplace(old, f, text)[f] = text
      /\ \A g \in DOMAIN old \ {f} : InsertOrReplace(old, f, text)[g] = old[g]
  BY <1>1, Inserted
<1>4. Agrees(InsertOrReplace(old, f, text), t)
  BY <1>2, <1>3 DEF Agrees
<1>5. QED
  BY <1>2, <1>4

\* Reading takes an event from the queue and leaves it in the scan.
LEMMA ReadObserved ==
  ASSUME Typed, ObservedInv, Drain \/ WatchRead \/ EndPersist \/ StopWatch
  PROVE  ObservedInv'
<1>1. watch \in WatchSet /\ UNCHANGED <<tree, graph, missed>>
  BY DEF Typed, Drain, WatchRead, EndPersist, StopWatch
<1>2. CASE Drain
  <2>1. /\ watch'.stage = "scan" /\ watch'.scan = NoScan /\ watch'.baseline = watch.baseline
        /\ watch.stage = "recv" /\ UNCHANGED lost
    BY <1>1, <1>2 DEF Drain, WatchSet
  <2>2. Agrees(NoScan, tree)
    BY EmptyIsPartial DEF Agrees, NoScan
  <2>3. QED
    BY <1>1, <2>1, <2>2 DEF ObservedInv, BaselineIngested, BaselineIsTree, Watching
<1>3. CASE WatchRead
  <2>1. PICK f \in Path \ DOMAIN watch.scan :
          watch' = [watch EXCEPT !.scan = InsertOrReplace(@, f, tree[f])]
    BY <1>3 DEF WatchRead
  <2>2. UNCHANGED <<events, lost>> /\ tree \in Tree
    BY <1>3 DEF WatchRead, Typed
  <2>3. /\ watch'.stage = watch.stage /\ watch'.baseline = watch.baseline
        /\ watch'.change = watch.change
        /\ watch'.scan = InsertOrReplace(watch.scan, f, tree[f])
    BY <1>1, <2>1 DEF WatchSet
  <2>4. Agrees(watch.scan, tree) => Agrees(watch'.scan, tree)
    BY <1>1, <2>1, <2>2, <2>3, TreeTyped, ReadAgrees DEF WatchSet
  <2>5. QED
    BY <1>1, <2>2, <2>3, <2>4 DEF ObservedInv, BaselineIngested, BaselineIsTree, Watching
<1>4. CASE EndPersist
  <2>1. /\ watch.stage = "rescan" /\ watch'.stage = "recv" /\ watch'.baseline = watch.baseline
        /\ UNCHANGED <<events, lost>>
    BY <1>1, <1>4 DEF EndPersist, WatchSet
  <2>2. QED
    BY <1>1, <2>1 DEF ObservedInv, BaselineIngested, BaselineIsTree, Watching
<1>5. CASE StopWatch
  <2>1. watch'.stage = "off"
    BY <1>5 DEF StopWatch, WatchOff
  <2>2. QED
    BY <1>1, <2>1 DEF ObservedInv, BaselineIngested, BaselineIsTree, Watching
<1>6. QED
  BY <1>2, <1>3, <1>4, <1>5

\* So every step keeps the graph as the baseline tells.
LEMMA ObservedStep == Typed /\ ObservedInv /\ [RewindNext]_rewindVars => ObservedInv'
<1> SUFFICES ASSUME Typed, ObservedInv, [RewindNext]_rewindVars PROVE ObservedInv'
  OBVIOUS
<1>1. watch \in WatchSet
  BY DEF Typed
<1>2. CASE Edit \/ RestoreFile
  <2>1. /\ events' = Watching /\ UNCHANGED <<graph, missed, lost>>
        /\ watch' = [watch EXCEPT !.disturbed = TRUE]
    BY <1>2 DEF Edit, RestoreFile, Written
  <2>2. UNCHANGED <<watch.stage, watch.baseline, watch.scan, watch.change>>
    BY <1>1, <2>1 DEF WatchSet
  <2>3. QED
    BY <2>1, <2>2, WriteObserved
<1>3. CASE \/ WatchPersist \/ StartRewind \/ RewindRead \/ NamePre \/ RewindPersist
           \/ BeginRestore \/ EndRewind \/ AbortRewind \/ UNCHANGED rewindVars
  <2>1. UNCHANGED <<tree, events, graph, missed, lost, watch>>
    BY <1>3 DEF WatchPersist, StartRewind, RewindRead, NamePre, RewindPersist, BeginRestore,
       EndRewind, AbortRewind, rewindVars
  <2>2. QED
    BY <2>1, ElsewhereObserved
<1>4. CASE StartWatch
  BY <1>4, StartObserved
<1>5. CASE Checkpoint
  BY <1>5, CheckpointObserved
<1>6. CASE IngestChange \/ IngestFails
  BY <1>6, IngestObserved
<1>7. CASE Drain \/ WatchRead \/ EndPersist \/ StopWatch
  BY <1>7, ReadObserved
<1>8. QED
  BY <1>2, <1>3, <1>4, <1>5, <1>6, <1>7 DEF RewindNext, WatchStep, RewindStep

\* When the watch is back at its channel, and no event waits there, it has missed nothing
\* (cmd_watch, CheckpointEngine::checkpoint): the graph is as the tree is, but for the
\* three exceptions of the code; for any files, any writes at any moment, rewinds and
\* watches that come and go.
THEOREM QuietWatchIsDone == RewindSpec => []QuietIsObserved
<1>1. ObservedInv => QuietIsObserved
  BY DEF ObservedInv, BaselineIngested, BaselineIsTree, QuietIsObserved, Watching
<1>2. CheckpointInv => Typed
  BY DEF CheckpointInv
<1>3. QED
  BY <1>1, <1>2, ObservedInitially, ObservedStep, CheckpointInvariance, PTL DEF RewindSpec
=============================================================================
