----------------------------- MODULE MCTaskRun -----------------------------
(***************************************************************************)
(* Two clients whose requests are the same, differ in intent under one     *)
(* key, name one run for two tasks, are independent of each other, run the *)
(* agent as their child, or were made for an older or for another daemon.  *)
(***************************************************************************)
EXTENDS TaskRun

CONSTANTS c1, c2

MCClients == {c1, c2}
R(version, expects, id, run, intent, class) ==
  [version |-> version, expects |-> expects, key |-> id, transaction |-> id,
   run |-> run, intent |-> intent, class |-> class]
Fix  == R("v1", "this runtime", "fix", "run fix", "a", "oci")
Also == R("v1", "this runtime", "fix", "run fix", "b", "oci")
Twin == R("v1", "this runtime", "add", "run fix", "a", "oci")
Add  == R("v1", "this runtime", "add", "run add", "a", "oci")
Host == R("v1", "this runtime", "fix", "run fix", "a", "host")
Old  == R("v0", "this runtime", "fix", "run fix", "a", "host")
Stray == R("v1", "another runtime", "fix", "run fix", "a", "oci")

MCRequests == {Fix, Also, Twin, Add, Host, Old, Stray}
MCAssignments == {c1 :> p[1] @@ c2 :> p[2] :
  p \in {<<Fix, Fix>>, <<Fix, Also>>, <<Fix, Twin>>, <<Fix, Add>>, <<Host, Host>>,
         <<Host, Old>>, <<Fix, Stray>>}}

\* Two independent tasks compete for the slot, the connection and the daemon, but
\* do not revise each other: with them nothing is sent back for another attempt.
Independent == request[c1] = Fix /\ request[c2] = Add

MCNext ==
  /\ Next
  /\ Independent => \A k \in Transactions :
       tx'[k].state \notin {"revise_required", "validation_failed"}

MCSpec == Init /\ [][MCNext]_vars /\ Fairness

=============================================================================
