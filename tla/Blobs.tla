------------------------------- MODULE Blobs -------------------------------
(***************************************************************************)
(* The payload store on disk: one file per content, written under a        *)
(* temporary name and renamed, sealed with a key that the first process in *)
(* need of it mints.  Files are opened, filled, renamed and removed one    *)
(* system call at a time, by several processes that may crash.  A key that *)
(* an older brain0 left next to the index is moved to the keys directory   *)
(* first.                                                                  *)
(*                                                                         *)
(* Contents are independent of each other but for the key: the model has   *)
(* one content, stored sealed, in the clear (--no-encrypt-payload), or     *)
(* both: under two names, but by way of one temporary name.  A box is      *)
(* longer than what it holds, all boxes of one content are of one length,  *)
(* and no content looks like a box.  Sealing is injective and a box opens  *)
(* only with its key; the ciphers are external.                            *)
(***************************************************************************)
EXTENDS Naturals, FiniteSets

CONSTANTS
  Opener,      \* processes that open the payload store
  Mode,        \* subset of {"sealed", "clear"}: how stores are opened
  Place,       \* subset of {"default", "explicit"}: where --key-file points
  MaxOpens,    \* bound on the operations started
  MaxFalls     \* bound on their crashes

ASSUME BlobsAssumption ==
  /\ Mode \subseteq {"sealed", "clear"} /\ Place \subseteq {"default", "explicit"}
  /\ MaxOpens \in Nat /\ MaxFalls \in Nat

\* What a key file holds: no file, a file cut short, or a key, named by its number.
Absent == 0
Short == 1
LegacyKey == 2

VARIABLES
  keyAt,     \* key files: "default", "explicit", and "sibling" next to the index
  inodes,    \* files of the store by inode: the box whose bytes they hold, and whether
             \* they are as one writer left them; seal Absent without a box
  names,     \* the path of the content per mode, and the temporary path: inode or 0
  opener,    \* what each process is doing
  opens,     \* operations started, also the source of new keys and inodes
  falls,     \* processes that crashed
  raced,     \* two processes have minted or moved a key at the same time
  mixed        \* a clear and a sealed writer have used the temporary path at the same time

blobsVars == <<keyAt, inodes, names, opener, opens, falls, raced, mixed>>

OpenerIdle == [stage |-> "idle", op |-> "none", mode |-> "none", place |-> "none",
               key |-> Absent, id |-> 0, fd |-> 0, seal |-> Absent]

InStage(p, stage) == opener[p].stage = stage

GoOn(p, stage) == opener' = [opener EXCEPT ![p].stage = stage]

Quit(p) == opener' = [opener EXCEPT ![p] = OpenerIdle]

KeyPaths == {"default", "explicit", "sibling"}

BlobsInit ==
  /\ \/ /\ keyAt = [k \in KeyPaths |-> Absent]
        /\ inodes = [i \in {} |-> i]
        /\ names = [tmp |-> 0, final |-> [m \in Mode |-> 0]]
     \* An index of brain0 0.1.1, whose payload is sealed with the key beside it.
     \/ /\ "sealed" \in Mode
        /\ keyAt = [k \in KeyPaths |-> IF k = "sibling" THEN LegacyKey ELSE Absent]
        /\ inodes = [i \in {1} |-> [seal |-> LegacyKey, whole |-> TRUE]]
        /\ names = [tmp |-> 0, final |-> [m \in Mode |-> IF m = "sealed" THEN 1 ELSE 0]]
  /\ opener = [p \in Opener |-> OpenerIdle]
  /\ opens = 0
  /\ falls = 0
  /\ raced = FALSE
  /\ mixed = FALSE

(***************************************************************************)
(* open_storage moves the key of an old index first, whatever the command  *)
(* (migrate_legacy_keys); open_payload then locates the key of the store.  *)
(***************************************************************************)
Open(p) ==
  /\ InStage(p, "idle")
  /\ opens < MaxOpens
  /\ opens' = opens + 1
  /\ \E op \in {"put", "get", "shred"}, m \in Mode, place \in Place :
       opener' = [opener EXCEPT ![p] =
         [OpenerIdle EXCEPT !.stage = "locate", !.op = op, !.mode = m, !.place = place,
                            !.id = opens + 3]]
  /\ UNCHANGED <<keyAt, inodes, names, falls, raced, mixed>>

\* refuse_shadowing: no fresh key at an explicit path when the default has one.
Shadows == keyAt["explicit"] = Absent /\ keyAt["default"] # Absent

\* key_path: only a sealed store looks for a key.
MayUse(p) == opener[p].mode = "sealed" /\ opener[p].place = "explicit" => ~Shadows

\* locate_key: a key at the target is the key, and one next to the index is then
\* called stale; otherwise the one next to the index is moved there.
Locate(p) ==
  /\ InStage(p, "locate")
  /\ \/ /\ keyAt["default"] # Absent \/ keyAt["sibling"] = Absent
        /\ IF MayUse(p) THEN GoOn(p, opener[p].op) ELSE Quit(p)
     \/ /\ keyAt["default"] = Absent /\ keyAt["sibling"] # Absent
        /\ GoOn(p, "move")
  /\ UNCHANGED <<keyAt, inodes, names, opens, falls, raced, mixed>>

\* move_file renames, where index and keys directory are on one file system...
MoveKey(p) ==
  /\ InStage(p, "move")
  /\ keyAt' = [keyAt EXCEPT !["default"] = IF keyAt["sibling"] = Absent THEN @
                                           ELSE keyAt["sibling"],
                            !["sibling"] = Absent]
  /\ GoOn(p, "locate")
  /\ UNCHANGED <<inodes, names, opens, falls, raced, mixed>>

\* ... and otherwise copies into a file it opens first,
CopyOpen(p) ==
  /\ InStage(p, "move")
  /\ IF keyAt["sibling"] = Absent
     THEN GoOn(p, "locate") /\ UNCHANGED keyAt
     ELSE /\ opener' = [opener EXCEPT ![p].stage = "copy", ![p].key = keyAt["sibling"]]
          /\ keyAt' = [keyAt EXCEPT !["default"] = Short]
  /\ raced' = (raced \/ \E q \in Opener : opener[q].stage \in {"copy", "compare", "unlink"})
  /\ UNCHANGED <<inodes, names, opens, falls, mixed>>

CopyFill(p) ==
  /\ InStage(p, "copy")
  /\ keyAt' = [keyAt EXCEPT !["default"] = opener[p].key]
  /\ opener' = [opener EXCEPT ![p].stage = "compare", ![p].key = Absent]
  /\ UNCHANGED <<inodes, names, opens, falls, raced, mixed>>

\* compares the two, and gives up unless they are equal,
CopyAgrees == keyAt["sibling"] # Absent /\ keyAt["default"] = keyAt["sibling"]

CopyCompare(p) ==
  /\ InStage(p, "compare")
  /\ IF CopyAgrees THEN GoOn(p, "unlink") ELSE GoOn(p, "locate")
  /\ UNCHANGED <<keyAt, inodes, names, opens, falls, raced, mixed>>

\* and removes the source.
CopyUnlink(p) ==
  /\ InStage(p, "unlink")
  /\ keyAt' = [keyAt EXCEPT !["sibling"] = Absent]
  /\ GoOn(p, "locate")
  /\ UNCHANGED <<inodes, names, opens, falls, raced, mixed>>

Here(p) == names.final[opener[p].mode]

(***************************************************************************)
(* get reads the file as it is; the box it holds, if a whole one, is       *)
(* opened with the key, which is looked for only then - and made, when it  *)
(* is missing, as for a put.                                               *)
(***************************************************************************)
WholeBox(id) == inodes[id].whole /\ inodes[id].seal # Absent

Get(p) ==
  /\ InStage(p, "get")
  /\ IF Here(p) # 0 /\ opener[p].mode = "sealed" /\ WholeBox(Here(p))
     THEN opener' = [opener EXCEPT ![p].stage = "kek", ![p].seal = inodes[Here(p)].seal]
     ELSE Quit(p)
  /\ UNCHANGED <<keyAt, inodes, names, opens, falls, raced, mixed>>

\* decrypt fails closed: the content is returned if the key opens the box, and an error
\* otherwise.
Opens(p) == opener[p].key = opener[p].seal

Unseal(p) ==
  /\ InStage(p, "open")
  /\ Quit(p)
  /\ UNCHANGED <<keyAt, inodes, names, opens, falls, raced, mixed>>

(***************************************************************************)
(* put: nothing is done for a content that is there.                       *)
(***************************************************************************)
WithKey(p, key) ==
  opener' = [opener EXCEPT ![p].stage = IF opener[p].op = "get" THEN "open" ELSE "create",
                           ![p].key = key]

PutExists(p) ==
  /\ InStage(p, "put")
  /\ IF Here(p) # 0
     THEN Quit(p)
     ELSE GoOn(p, IF opener[p].mode = "clear" THEN "create" ELSE "kek")
  /\ UNCHANGED <<keyAt, inodes, names, opens, falls, raced, mixed>>

\* kek: a whole key file is used, one cut short is an invalid key, and a missing one
\* is made, in two system calls.
KeyRead(p) ==
  /\ InStage(p, "kek")
  /\ LET key == keyAt[opener[p].place]
     IN  CASE key = Short  -> Quit(p)
           [] key = Absent -> GoOn(p, "mint")
           [] OTHER        -> WithKey(p, key)
  /\ raced' = (raced \/ (keyAt[opener[p].place] = Absent
                             /\ \E q \in Opener \ {p} :
                                  opener[q].stage \in {"mint", "fill", "move", "copy"}))
  /\ UNCHANGED <<keyAt, inodes, names, opens, falls, mixed>>

KeyCreate(p) ==
  /\ InStage(p, "mint")
  /\ keyAt' = [keyAt EXCEPT ![opener[p].place] = Short]
  /\ GoOn(p, "fill")
  /\ UNCHANGED <<inodes, names, opens, falls, raced, mixed>>

\* Variant with a fault: the blob is sealed before the key is on disk.
KeyFillLate(p) ==
  /\ InStage(p, "fill")
  /\ WithKey(p, opener[p].id)
  /\ UNCHANGED <<keyAt, inodes, names, opens, falls, raced, mixed>>

KeyFill(p) ==
  /\ InStage(p, "fill")
  /\ keyAt' = [keyAt EXCEPT ![opener[p].place] = opener[p].id]
  /\ WithKey(p, opener[p].id)
  /\ UNCHANGED <<inodes, names, opens, falls, raced, mixed>>

\* std::fs::write on the temporary path, which the two modes share: the file that is
\* there is emptied, or a new one made...
TmpOf(p) == IF names.tmp # 0 THEN names.tmp ELSE opener[p].id

AtTmp == {"write", "rename"}

TmpCreate(p) ==
  /\ InStage(p, "create")
  /\ inodes' = [i \in DOMAIN inodes \cup {TmpOf(p)} |->
                  IF i = TmpOf(p) THEN [seal |-> Absent, whole |-> FALSE] ELSE inodes[i]]
  /\ names' = [names EXCEPT !.tmp = TmpOf(p)]
  /\ opener' = [opener EXCEPT ![p].stage = "write", ![p].fd = TmpOf(p)]
  /\ mixed' = (mixed \/ \E q \in Opener :
                       opener[q].stage \in AtTmp /\ opener[q].mode # opener[p].mode)
  /\ UNCHANGED <<keyAt, opens, falls, raced>>

\* ... and filled through the descriptor, wherever the file has gone meanwhile: a box
\* covers what is there, and the shorter content leaves the end of a box behind it.
Filled(file, p) ==
  IF opener[p].mode = "sealed" THEN [seal |-> opener[p].key, whole |-> TRUE]
  ELSE [file EXCEPT !.whole = (file.seal = Absent)]

TmpFill(p) ==
  /\ InStage(p, "write")
  /\ inodes' = [inodes EXCEPT ![opener[p].fd] = Filled(@, p)]
  /\ GoOn(p, "rename")
  /\ UNCHANGED <<keyAt, names, opens, falls, raced, mixed>>

\* Variant with a fault: the file is renamed before it is filled.
RenameEarly == {"write", "rename"}

RenameFrom == {"rename"}

\* rename takes what is at the temporary path, whoever has made it, and fails when
\* another process has renamed it first.
Rename(p) ==
  /\ opener[p].stage \in RenameFrom
  /\ IF names.tmp = 0
     THEN UNCHANGED names
     ELSE names' = [names EXCEPT !.tmp = 0, !.final[opener[p].mode] = names.tmp]
  /\ Quit(p)
  /\ UNCHANGED <<keyAt, inodes, opens, falls, raced, mixed>>

ShredFile(p) ==
  /\ InStage(p, "shred")
  /\ names' = [names EXCEPT !.final[opener[p].mode] = 0]
  /\ Quit(p)
  /\ UNCHANGED <<keyAt, inodes, opens, falls, raced, mixed>>

Fall(p) ==
  /\ ~InStage(p, "idle")
  /\ falls < MaxFalls
  /\ falls' = falls + 1
  /\ Quit(p)
  /\ UNCHANGED <<keyAt, inodes, names, opens, raced, mixed>>

BlobsStep(p) ==
  \/ Locate(p) \/ MoveKey(p) \/ CopyOpen(p) \/ CopyFill(p) \/ CopyCompare(p)
  \/ CopyUnlink(p) \/ Get(p) \/ Unseal(p) \/ PutExists(p)
  \/ KeyRead(p) \/ KeyCreate(p) \/ KeyFill(p)
  \/ TmpCreate(p) \/ TmpFill(p) \/ Rename(p) \/ ShredFile(p)

BlobsNext == \E p \in Opener : Open(p) \/ BlobsStep(p) \/ Fall(p)

BlobsSpec == BlobsInit /\ [][BlobsNext]_blobsVars

-----------------------------------------------------------------------------
Stored == {m \in Mode : names.final[m] # 0}

FileOf(m) == inodes[names.final[m]]

\* No sealed content is orphaned: the key of every whole box under a name of the store is
\* on disk, at the place its writer was told or still next to the index - whatever
\* crashes, in the middle of a move of the key or of its making, and whoever has renamed
\* the box.  Two races of the code are left out:
\* two processes that find no key at the same time each make one, and the key of the
\* first is overwritten; and of two that copy the old key, one empties the target
\* the other has just compared, and loses the key if it crashes before it fills it.
\* And a blob that does not open was sealed with the key of another place: the fresh key
\* that a read may make never takes the place of the blob's own.
NoKeyLost ==
  ~raced =>
    /\ \A m \in Stored :
         WholeBox(names.final[m]) => FileOf(m).seal \in {keyAt[k] : k \in KeyPaths}
    /\ \A p \in Opener :
         InStage(p, "open") /\ ~Opens(p) =>
           opener[p].seal \in {keyAt[k] : k \in KeyPaths \ {opener[p].place}}

\* What a store reads under its name: a whole box if it seals, the content if not.
Proper(m) == FileOf(m).whole /\ (FileOf(m).seal # Absent <=> m = "sealed")

BeingWritten(m) == \E p \in Opener : InStage(p, "write") /\ opener[p].fd = names.final[m]

\* A file under the name of a content is whole and of the store's own kind, or a process
\* that shares its temporary file is still filling it; only a crash at that very place
\* leaves it short, and then for good, since a put finds it there.  Left out is what the
\* code does not keep apart: a clear and a sealed writer of the content that both have
\* the temporary file at the same time.
WholeOrBeingWritten ==
  falls = 0 /\ ~mixed => \A m \in Stored : Proper(m) \/ BeingWritten(m)
=============================================================================
