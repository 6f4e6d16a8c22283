------------------------- MODULE MCTranscriptIngest -------------------------
(***************************************************************************)
(* Instances of TranscriptIngest for TLC: one session with one transcript, *)
(* or with a second one of its subagent.                                   *)
(***************************************************************************)
EXTENDS TranscriptIngest, TLC

MCSessionOf == [f \in File |-> "s"]

\* The files differ only in their name.
Files == Permutations(File)
=============================================================================
