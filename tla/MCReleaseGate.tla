--------------------------- MODULE MCReleaseGate ---------------------------
(***************************************************************************)
(* Two specs: "auth" of high risk owns both files that have an owner, "ui" *)
(* of low risk owns one of them too.  One artifact for each kind of        *)
(* evidence.  One policy lets everything through, the other blocks what is *)
(* not signed and then lets everything through.                            *)
(***************************************************************************)
EXTENDS ReleaseGate

MCOwnedPaths == [auth |-> {"login.go", "page.go"}, ui |-> {"page.go", "style.css"}]
MCSpecRisk == [auth |-> High, ui |-> Low]
MCKindOf ==
  [trace |-> "behavior_trace", scan |-> "security_check", junit |-> "test_coverage",
   metrics |-> "runtime_metric", undo |-> "rollback_plan", judge |-> "verifier_output"]

MCOtherPolicies ==
  [lenient |-> << [when |-> policyFact("always"), decision |-> "auto_merge", stop |-> TRUE] >>,
   signed  |-> << [when |-> Not(policyFact("signed_evidence_required")), decision |-> "block",
                   stop |-> FALSE],
                  [when |-> policyFact("always"), decision |-> "auto_merge", stop |-> TRUE] >>]

=============================================================================
