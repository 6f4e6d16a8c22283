------------------------------- MODULE Tables -------------------------------
(***************************************************************************)
(* SQLite tables of brain0-storage as partial functions from primary keys  *)
(* to rows.  Each operator is one statement, and every statement commits   *)
(* on its own: the storage opens no transaction.                           *)
(***************************************************************************)

EmptyTable == [k \in {} |-> k]

\* Variant with a fault: IGNORE where REPLACE is meant.
IgnoreNotReplace(table, key, row) ==
  [k \in DOMAIN table \cup {key} |-> IF k \in DOMAIN table THEN table[k] ELSE row]

\* INSERT OR REPLACE: node rows, fingerprints, embeddings, cursors.
InsertOrReplace(table, key, row) ==
  [k \in DOMAIN table \cup {key} |-> IF k = key THEN row ELSE table[k]]

\* Variant with a fault: INSERT OR REPLACE where IGNORE is meant.
ReplaceNotIgnore(table, key, row) == InsertOrReplace(table, key, row)

\* INSERT OR IGNORE: versions and edges; a key already there keeps its row.
InsertOrIgnore(table, key, row) ==
  [k \in DOMAIN table \cup {key} |->
     IF k \in DOMAIN table THEN table[k] ELSE row]

\* A later table of an append-only pair: no row is gone and none is altered.
Extends(later, table) ==
  /\ DOMAIN table \subseteq DOMAIN later
  /\ \A k \in DOMAIN table : later[k] = table[k]
=============================================================================
