------------------------------ MODULE MCParts ------------------------------
(***************************************************************************)
(* Seven parts that share no state, in one run: the rows of the index that *)
(* refer to contents and vectors (Vault), the files and the key of the     *)
(* payload store (Blobs), the checkpoints of a working tree (Rewind), the  *)
(* scan of a command line (ShellReads), the walk over a syntax tree        *)
(* (Parser), the redaction of a turn (Redaction), and the summaries of     *)
(* turns (Summaries).  One of them moves in a behaviour, and the others    *)
(* rest: the states are those of the seven, one part after the other.      *)
(***************************************************************************)
EXTENDS Vault, Blobs, Rewind, ShellReads, Parser, Redaction,
        MCSummaries, TLC

VARIABLE part

partsVars ==
  <<part, vaultVars, blobsVars, rewindVars, shellVars, parserVars, redactionVars, summaryVars>>

\* The parts that have many initial states rest in one of them.
PartsInit ==
  /\ part \in {"vault", "blobs", "rewind", "shell", "parser", "redaction", "summaries"}
  /\ VaultInit /\ BlobsInit /\ RewindInit /\ LineInit /\ SummariesInit
  /\ part # "blobs" => keyAt["sibling"] = Absent
  /\ part # "rewind" => tree = EmptyTree
  /\ IF part = "parser" THEN ParserInit ELSE ParserAtRest
  /\ IF part = "redaction" THEN RedactionInit ELSE RedactionAtRest

PartsNext ==
  /\ UNCHANGED part
  /\ \/ /\ part = "vault" /\ VaultNext
        /\ UNCHANGED <<blobsVars, rewindVars, shellVars, parserVars, redactionVars, summaryVars>>
     \/ /\ part = "blobs" /\ BlobsNext
        /\ UNCHANGED <<vaultVars, rewindVars, shellVars, parserVars, redactionVars, summaryVars>>
     \/ /\ part = "rewind" /\ RewindNext
        /\ UNCHANGED <<vaultVars, blobsVars, shellVars, parserVars, redactionVars, summaryVars>>
     \/ /\ part = "shell" /\ LineNext
        /\ UNCHANGED <<vaultVars, blobsVars, rewindVars, parserVars, redactionVars, summaryVars>>
     \/ /\ part = "parser" /\ ParserNext
        /\ UNCHANGED <<vaultVars, blobsVars, rewindVars, shellVars, redactionVars, summaryVars>>
     \/ /\ part = "redaction" /\ RedactionNext
        /\ UNCHANGED <<vaultVars, blobsVars, rewindVars, shellVars, parserVars, summaryVars>>
     \/ /\ part = "summaries" /\ SummariesNext
        /\ UNCHANGED <<vaultVars, blobsVars, rewindVars, shellVars, parserVars, redactionVars>>

PartsSpec == PartsInit /\ [][PartsNext]_partsVars

\* Vectors of the embedder with Ollama, and of the offline one.
MCDimOf == ("nomic" :> 2) @@ ("local" :> 1)

\* Vault and Blobs have the same processes, and the contents are the texts of Rewind.
PartsSymmetry ==
  UNION {Permutations(S) : S \in {Content, Writer, Path}}
=============================================================================
