---------------------------- MODULE MCGitRelease ----------------------------
(***************************************************************************)
(* Two transactions prepared on one base release to one branch while       *)
(* another writer changes it.                                              *)
(***************************************************************************)
EXTENDS GitRelease

CONSTANTS t1, t2
MCTx == {t1, t2}
=============================================================================
