----------------------------- MODULE MCAccounts -----------------------------
(***************************************************************************)
(* What brain0 tells of the work of agents, in one run: what left for a    *)
(* model (Egress), what was changed without being declared (Drift), how    *)
(* risky it is (Risk), what is attested of a commit (Provenance), and what *)
(* the gate before a commit lets through (Preflight).  One of them moves   *)
(* in a behaviour, and the others rest.                                    *)
(*                                                                         *)
(* Risk moves in two ways.  For the scores there are two files, a symbol   *)
(* and two modules, and nothing turns out undeclared in the middle of a    *)
(* run.  For the coupling there are three files that stay in their module, *)
(* and time stands still.                                                  *)
(***************************************************************************)
EXTENDS Egress, Drift, Risk, Provenance, Preflight, TLC

VARIABLE part

accountVars ==
  <<part, egressVars, driftVars, riskVars, provenanceVars, preflightVars>>

AccountsInit ==
  /\ part \in {"egress", "drift", "scores", "coupling", "provenance", "preflight"}
  /\ EgressInit /\ DriftInit /\ RiskInit /\ ProvenanceInit /\ PreflightInit
  /\ part # "egress" => adapter = "claude"
  /\ part # "preflight" => \A f \in Staged : head[f] = "none"

\* Shapes are alike, so that the first commit may have the first one.
FirstShape == changes = 0 => Range(recording'.prints) \subseteq {1}

TwoFiles ==
  /\ FirstShape
  /\ DOMAIN recording'.prints \cap SourceFile \subseteq {"x", "y"}
  /\ scoring.stage \in {"count", "link"} => UNCHANGED recordVars /\ scoring'.stage # "idle"
  /\ scoring.stage = "score" => UNCHANGED surprise

ThreeFiles ==
  /\ FirstShape
  /\ age' = 0 /\ recording'.folder = FirstFolder /\ surprise' = {} /\ recording'.lines <= 4
  /\ scoring.stage = "score" => UNCHANGED recordVars

AccountsNext ==
  /\ UNCHANGED part
  /\ \/ /\ part = "egress" /\ EgressNext
        /\ UNCHANGED <<driftVars, riskVars, provenanceVars, preflightVars>>
     \/ /\ part = "drift" /\ DriftNext
        /\ UNCHANGED <<egressVars, riskVars, provenanceVars, preflightVars>>
     \/ /\ \/ part = "scores" /\ RiskNext /\ TwoFiles
           \/ part = "coupling" /\ RiskNext /\ ThreeFiles
        /\ UNCHANGED <<egressVars, driftVars, provenanceVars, preflightVars>>
     \/ /\ part = "provenance" /\ ProvenanceNext
        /\ UNCHANGED <<egressVars, driftVars, riskVars, preflightVars>>
     \/ /\ part = "preflight" /\ PreflightNext
        /\ UNCHANGED <<egressVars, driftVars, riskVars, provenanceVars>>

AccountsSpec == AccountsInit /\ [][AccountsNext]_accountVars /\ EgressFairness

MCNameOf == ("x" :> "f") @@ ("y" :> "g")

MCFileOf == [s \in Function |-> "x"]
MCFirstFolder == [f \in SourceFile |-> "m"]

MCTurnData ==
  {[reads |-> {"f"}, secrets |-> {"f"}, undeclared |-> {}, phantom |-> {}],
   [reads |-> {}, secrets |-> {}, undeclared |-> {"g"}, phantom |-> {}]}

\* git quotes the name of the third file.
MCListedAs == ("f" :> "f") @@ ("g" :> "g") @@ ("h" :> "quoted h")

MCDiffBy ==
  (<<1, "x">> :> {[start |-> 0, count |-> 0], [start |-> 3, count |-> 1]}) @@
  (<<2, "x">> :> {[start |-> 1, count |-> 2]})
=============================================================================
