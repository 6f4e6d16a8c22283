---------------------------- MODULE MCSummaries -----------------------------
(***************************************************************************)
(* Two turns of one text, of which one changed a file.                     *)
(***************************************************************************)
EXTENDS Summaries

MCTextOf == [t \in Turn |-> "go on"]
MCTouchedBy == [t \in Turn |-> IF t = "t" THEN {"f"} ELSE {}]
=============================================================================
