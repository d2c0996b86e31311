--------------------------- MODULE MCModelBroker ---------------------------
(***************************************************************************)
(* Three calls, of which the policy allows two; any two of them may use up *)
(* the tokens.                                                             *)
(***************************************************************************)
EXTENDS ModelBroker

CONSTANTS c1, c2, c3
MCCalls == {c1, c2, c3}
MCSizes == {[in |-> 1, out |-> 2], [in |-> 2, out |-> 1]}

=============================================================================
