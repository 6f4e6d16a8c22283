------------------------------- MODULE Rewind -------------------------------
(***************************************************************************)
(* `brain0 watch` observes a working tree between commits: a debounced     *)
(* burst of events leads to a scan, the difference from the scan before is *)
(* ingested, and a manifest of the whole tree is kept.  `brain0 rewind`    *)
(* writes a manifest back, after it has kept one of the present state.     *)
(* Meanwhile an editor, or an agent, goes on writing files: every scan     *)
(* reads one file after the other.                                         *)
(***************************************************************************)
EXTENDS Naturals, Sequences, FiniteSets, Tables

CONSTANTS
  Path,        \* relative paths, none of which is refused as unsafe
  Text,        \* file contents
  MaxEdits,    \* bound on the writes of the editor
  MaxWatches,  \* bound on the starts of the watch
  MaxRewinds,  \* bound on the rewinds
  MaxFailures  \* bound on the ingests that fail, and on the crashes

NoFile == "nofile"

ASSUME RewindAssumption ==
  /\ NoFile \notin Text
  /\ MaxEdits \in Nat /\ MaxWatches \in Nat /\ MaxRewinds \in Nat /\ MaxFailures \in Nat

Tree == [Path -> Text \cup {NoFile}]
EmptyTree == [f \in Path |-> NoFile]
Files(t) == {f \in Path : t[f] # NoFile}

VARIABLES
  tree,       \* the working tree
  events,     \* the watcher's channel holds an event
  watch,      \* what `brain0 watch` is doing: [stage, baseline, scan, base, change, manifest]
  graph,      \* the contents the graph has last ingested
  manifests,  \* checkpoint_files per checkpoint, oldest first: [of, rows, disturbed, whole]
  rewind,     \* what `brain0 rewind` is doing
  edits, watches, rewinds, failures,
  missed,     \* files of the graph that the running engine has not seen yet
  lost        \* files whose last change the watch failed to ingest

rewindVars == <<tree, events, watch, graph, manifests, rewind, edits, watches, rewinds,
                failures, missed, lost>>

NoScan == EmptyTable
Watching == watch.stage # "off"
Rewinding == rewind.stage # "off"

WatchOff == [stage |-> "off", baseline |-> EmptyTree, scan |-> NoScan, change |-> {},
             manifest |-> 0, disturbed |-> FALSE]

RewindOff == [stage |-> "off", target |-> 0, scan |-> NoScan, pre |-> 0, left |-> {},
              start |-> EmptyTree, disturbed |-> FALSE]

RewindInit ==
  /\ tree \in Tree
  /\ events = FALSE
  /\ watch = WatchOff
  /\ graph = EmptyTree
  /\ manifests = <<>>
  /\ rewind = RewindOff
  /\ edits = 0 /\ watches = 0 /\ rewinds = 0 /\ failures = 0
  /\ missed = {}
  /\ lost = {}

\* A write to the tree is an event for a watch that runs, and disturbs what is going
\* on between the scans of one checkpoint.
Written(f, c) ==
  /\ tree' = [tree EXCEPT ![f] = c]
  /\ events' = Watching

Edit ==
  /\ edits < MaxEdits
  /\ \E f \in Path, c \in Text \cup {NoFile} : tree[f] # c /\ Written(f, c)
  /\ edits' = edits + 1
  /\ watch' = [watch EXCEPT !.disturbed = TRUE]
  /\ rewind' = [rewind EXCEPT !.disturbed = TRUE]
  /\ UNCHANGED <<graph, manifests, watches, rewinds, failures, missed, lost>>

(***************************************************************************)
(* brain0 watch.                                                           *)
(***************************************************************************)
\* The engine of a new watch knows no tree, and scans at the first event.
StartWatch ==
  /\ ~Watching
  /\ watches < MaxWatches
  /\ watches' = watches + 1
  /\ watch' = [WatchOff EXCEPT !.stage = "recv"]
  /\ events' = FALSE
  /\ missed' = Files(graph)
  /\ UNCHANGED <<tree, graph, manifests, rewind, edits, rewinds, failures, lost>>

\* Events are taken from the channel until none comes for the debounce time.
Drain ==
  /\ watch.stage = "recv"
  /\ events
  /\ events' = FALSE
  /\ watch' = [watch EXCEPT !.stage = "scan", !.scan = NoScan, !.disturbed = FALSE]
  /\ UNCHANGED <<tree, graph, manifests, rewind, edits, watches, rewinds, failures, missed,
                 lost>>

\* read_tree.
Scanned(scan) == DOMAIN scan = Path

WatchRead ==
  /\ watch.stage \in {"scan", "rescan"}
  /\ \E f \in Path \ DOMAIN watch.scan :
       watch' = [watch EXCEPT !.scan = InsertOrReplace(@, f, tree[f])]
  /\ UNCHANGED <<tree, events, graph, manifests, rewind, edits, watches, rewinds, failures,
                 missed, lost>>

\* Variant with a fault: a file that is gone makes no change.
ChangedFound(old, new) == {f \in Path : old[f] # new[f] /\ new[f] # NoFile}

\* checkpoint: the files that differ from the baseline, deleted ones included...
ChangedFiles(old, new) == {f \in Path : old[f] # new[f]}

\* ... and the scan becomes the baseline before anything is ingested.
Checkpoint ==
  /\ watch.stage = "scan"
  /\ Scanned(watch.scan)
  /\ LET change == ChangedFiles(watch.baseline, watch.scan)
     IN  watch' = [watch EXCEPT !.baseline = watch.scan, !.change = change,
                     !.stage = IF change = {} THEN "recv" ELSE "ingest"]
  /\ missed' = missed \ Files(watch.scan)
  /\ UNCHANGED <<tree, events, graph, manifests, rewind, edits, watches, rewinds, failures,
                 lost>>

\* The checkpoint's id is a hash of its time and of the tree that was scanned.
NewCheckpoint(of, disturbed) ==
  Append(manifests, [of |-> of, rows |-> EmptyTable, disturbed |-> disturbed, whole |-> FALSE])

IngestChange ==
  /\ watch.stage = "ingest"
  /\ graph' = [f \in Path |-> IF f \in watch.change THEN watch.baseline[f] ELSE graph[f]]
  /\ lost' = lost \ watch.change
  /\ watch' = [watch EXCEPT !.stage = "rescan", !.scan = NoScan,
                            !.manifest = Len(manifests) + 1]
  /\ manifests' = NewCheckpoint(watch.baseline, FALSE)
  /\ UNCHANGED <<tree, events, rewind, edits, watches, rewinds, failures, missed>>

\* An ingest that fails is reported, and the watch goes on as if it had not.
IngestFails ==
  /\ watch.stage = "ingest"
  /\ failures < MaxFailures
  /\ failures' = failures + 1
  /\ lost' = lost \cup watch.change
  /\ watch' = [watch EXCEPT !.stage = "rescan", !.scan = NoScan,
                            !.manifest = Len(manifests) + 1]
  /\ manifests' = NewCheckpoint(watch.baseline, FALSE)
  /\ UNCHANGED <<tree, events, graph, rewind, edits, watches, rewinds, missed>>

\* Variant with a fault: only the files that have changed go to the manifest.
ListedChanged(scan) == Files(scan) \cap watch.change

\* persist_manifest: a row for every file of the second scan.
Listed(scan) == Files(scan)

PersistRow(m, scan, listed) ==
  \E f \in listed \ DOMAIN manifests[m].rows :
    manifests' = [manifests EXCEPT ![m].rows = InsertOrIgnore(@, f, scan[f])]

Persisted(m, listed) == listed \subseteq DOMAIN manifests[m].rows

WatchPersist ==
  /\ watch.stage = "rescan"
  /\ Scanned(watch.scan)
  /\ PersistRow(watch.manifest, watch.scan, Listed(watch.scan))
  /\ UNCHANGED <<tree, events, watch, graph, rewind, edits, watches, rewinds, failures, missed,
                 lost>>

EndPersist ==
  /\ watch.stage = "rescan"
  /\ Scanned(watch.scan)
  /\ Persisted(watch.manifest, Listed(watch.scan))
  /\ manifests' = [manifests EXCEPT ![watch.manifest].whole = TRUE,
                                    ![watch.manifest].disturbed = watch.disturbed]
  /\ watch' = [watch EXCEPT !.stage = "recv", !.change = {}]
  /\ UNCHANGED <<tree, events, graph, rewind, edits, watches, rewinds, failures, missed, lost>>

\* Ctrl-C is how a watch ends, wherever it is.
StopWatch ==
  /\ Watching
  /\ failures < MaxFailures
  /\ failures' = failures + 1
  /\ lost' = lost \cup (IF watch.stage = "ingest" THEN watch.change ELSE {})
  /\ watch' = WatchOff
  /\ events' = FALSE
  /\ UNCHANGED <<tree, graph, manifests, rewind, edits, watches, rewinds, missed>>

(***************************************************************************)
(* brain0 rewind --to <id>.                                                *)
(***************************************************************************)
Restorable == {m \in DOMAIN manifests : DOMAIN manifests[m].rows # {}}

StartRewind ==
  /\ ~Rewinding
  /\ rewinds < MaxRewinds
  /\ rewinds' = rewinds + 1
  /\ \E m \in Restorable :
       rewind' = [RewindOff EXCEPT !.stage = "scan", !.target = m, !.start = tree]
  /\ UNCHANGED <<tree, events, watch, graph, manifests, edits, watches, failures, missed, lost>>

RewindRead ==
  /\ rewind.stage = "scan"
  /\ \E f \in Path \ DOMAIN rewind.scan :
       rewind' = [rewind EXCEPT !.scan = InsertOrReplace(@, f, tree[f])]
  /\ UNCHANGED <<tree, events, watch, graph, manifests, edits, watches, rewinds, failures,
                 missed, lost>>

\* The id of the checkpoint comes from a scan of its own, here in one step: one that meets a
\* write between its files is a disturbed one, and of those no property tells anything.
NamePre ==
  /\ rewind.stage = "scan"
  /\ Scanned(rewind.scan)
  /\ manifests' = NewCheckpoint(tree, rewind.disturbed)
  /\ rewind' = [rewind EXCEPT !.stage = "persist", !.pre = Len(manifests) + 1]
  /\ UNCHANGED <<tree, events, watch, graph, edits, watches, rewinds, failures, missed, lost>>

RewindPersist ==
  /\ rewind.stage = "persist"
  /\ PersistRow(rewind.pre, rewind.scan, Files(rewind.scan))
  /\ UNCHANGED <<tree, events, watch, graph, rewind, edits, watches, rewinds, failures, missed,
                 lost>>

\* Variant with a fault: the tree is restored while it is still being kept.
KeptInPart == TRUE

Kept == Persisted(rewind.pre, Files(rewind.scan))

\* restore reads the manifest once, and writes its files one after the other.
BeginRestore ==
  /\ rewind.stage = "persist"
  /\ Kept
  /\ manifests' = [manifests EXCEPT ![rewind.pre].whole = TRUE,
                                    ![rewind.pre].disturbed = rewind.disturbed]
  /\ rewind' = [rewind EXCEPT !.stage = "restore",
                  !.left = DOMAIN manifests[rewind.target].rows]
  /\ UNCHANGED <<tree, events, watch, graph, edits, watches, rewinds, failures, missed, lost>>

RestoreFile ==
  /\ rewind.stage = "restore"
  /\ \E f \in rewind.left :
       /\ Written(f, manifests[rewind.target].rows[f])
       /\ rewind' = [rewind EXCEPT !.left = @ \ {f}]
  /\ watch' = [watch EXCEPT !.disturbed = TRUE]
  /\ UNCHANGED <<graph, manifests, edits, watches, rewinds, failures, missed, lost>>

EndRewind ==
  /\ rewind.stage = "restore"
  /\ rewind.left = {}
  /\ rewind' = RewindOff
  /\ UNCHANGED <<tree, events, watch, graph, manifests, edits, watches, rewinds, failures,
                 missed, lost>>

\* A crash, or a payload that is missing half-way, ends the rewind where it is.
AbortRewind ==
  /\ Rewinding
  /\ failures < MaxFailures
  /\ failures' = failures + 1
  /\ rewind' = RewindOff
  /\ UNCHANGED <<tree, events, watch, graph, manifests, edits, watches, rewinds, missed, lost>>

WatchStep ==
  \/ Drain \/ WatchRead \/ Checkpoint \/ IngestChange \/ WatchPersist \/ EndPersist

RewindStep ==
  \/ RewindRead \/ NamePre \/ RewindPersist \/ BeginRestore \/ RestoreFile \/ EndRewind

RewindNext ==
  \/ Edit \/ StartWatch \/ WatchStep \/ IngestFails \/ StopWatch
  \/ StartRewind \/ RewindStep \/ AbortRewind

RewindSpec == RewindInit /\ [][RewindNext]_rewindVars

-----------------------------------------------------------------------------
\* When the watch is back at its channel and no event waits there, the graph agrees
\* with the tree: no change is missed, whatever is written during a scan.  Three
\* exceptions are the code's: nothing is scanned before a watch's first event, a
\* file deleted before the engine has seen it is not reported as deleted, and a
\* change whose ingest failed is not tried again, because the baseline has moved.
QuietIsObserved ==
  (watch.stage = "recv" /\ ~events /\ watch.baseline # EmptyTree) =>
    \A f \in Path \ (missed \cup lost) : graph[f] = tree[f]

\* "rewind can restore this exact state later": a manifest that was written to its
\* end holds the tree its id is a hash of, if nothing was written between the two
\* scans it comes from.
ManifestIsCheckpoint ==
  \A m \in DOMAIN manifests :
    manifests[m].whole /\ ~manifests[m].disturbed =>
      \A f \in Files(manifests[m].of) :
        f \in DOMAIN manifests[m].rows /\ manifests[m].rows[f] = manifests[m].of[f]

\* "A rewind is itself reversible": before the first file is written back, and so
\* whenever the rewind may die, every file of the tree as it was is in the manifest
\* of the checkpoint made first.  An edit during the rewind is left out.
RewindIsReversible ==
  rewind.stage = "restore" /\ ~rewind.disturbed =>
    \A f \in Files(rewind.start) :
      /\ f \in DOMAIN manifests[rewind.pre].rows
      /\ manifests[rewind.pre].rows[f] = rewind.start[f]
=============================================================================
