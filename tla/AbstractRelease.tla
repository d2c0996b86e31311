--------------------------- MODULE AbstractRelease ---------------------------
(***************************************************************************)
(* What a release promises, whatever Git, the daemon and other writers do: *)
(* a commit reaches the target only after the decision to commit is in the *)
(* ledger and before the ledger holds a verdict, a transaction is called   *)
(* committed only if its commit reached the target, and a verdict is       *)
(* final.                                                                  *)
(***************************************************************************)
CONSTANT Tx
VARIABLES verdict, landed

Verdicts == {"committed", "release_failed", "manual_recovery_required"}

Init ==
  /\ verdict = [t \in Tx |-> "ready_to_commit"]
  /\ landed = {}

Decide(t) ==
  /\ verdict[t] = "ready_to_commit"
  /\ verdict' = [verdict EXCEPT ![t] = "committing"]
  /\ UNCHANGED landed

Land(t) ==
  /\ verdict[t] = "committing"
  /\ landed' = landed \cup {t}
  /\ UNCHANGED verdict

Conclude(t, v) ==
  /\ verdict[t] = "committing"
  /\ v = "committed" => t \in landed
  /\ verdict' = [verdict EXCEPT ![t] = v]
  /\ UNCHANGED landed

Next == \E t \in Tx : Decide(t) \/ Land(t) \/ \E v \in Verdicts : Conclude(t, v)

Spec == Init /\ [][Next]_<<verdict, landed>>
=============================================================================
