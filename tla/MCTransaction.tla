--------------------------- MODULE MCTransaction ---------------------------
(***************************************************************************)
(* Small instances of Transaction.  Policy 1 lets tree "plain" through and *)
(* asks for review of "guarded"; the others judge the two differently, so  *)
(* that a restart with another policy meets authority prepared under the   *)
(* first.                                                                  *)
(***************************************************************************)
EXTENDS Transaction

AllTrees == {"base", "plain", "guarded"}
PlainTrees == {"base", "plain"}
GuardedTrees == {"base", "guarded"}

MCEffectsOf ==
  [t \in Trees |-> CASE t = "base"    -> {}
                     [] t = "plain"   -> {"e1"}
                     [] t = "guarded" -> {"e1", "e2"}]

PolicyTable ==
  << [base |-> "allow", plain |-> "allow",            guarded |-> "require_approval"],
     [base |-> "allow", plain |-> "block",            guarded |-> "allow"],
     [base |-> "allow", plain |-> "require_approval", guarded |-> "revise"] >>

MCDecision == [p \in 1..MaxPolicy |-> [t \in Trees |-> PolicyTable[p][t]]]

=============================================================================
