-------------------------- MODULE MCPairedExecution --------------------------
(***************************************************************************)
(* PairedExecution with the small values of the .cfg files; the charge of  *)
(* 5 is larger than the budget and than the largest counter value.         *)
(***************************************************************************)
EXTENDS PairedExecution
=============================================================================
