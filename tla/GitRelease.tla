----------------------------- MODULE GitRelease -----------------------------
(***************************************************************************)
(* releaseTransaction step by step, for several transactions prepared on   *)
(* the same base revision and releasing to the same Git ref.               *)
(*                                                                         *)
(* The lock "transaction:<id>" serialises the requests of one transaction, *)
(* so a transaction has one handler at a time; handlers of different       *)
(* transactions interleave, and people using the repository push, reset,   *)
(* delete and check out the branch, write to the worktrees and restart the *)
(* daemon under another release policy at any moment.                      *)
(*                                                                         *)
(* The branch is the sequence of revisions from the base to the ref, the   *)
(* empty sequence when the ref does not resolve.  The commit PrepareCommit *)
(* builds for a transaction depends on its frozen plan alone, so a retry   *)
(* builds the same one: the transaction itself stands for it.              *)
(***************************************************************************)
EXTENDS Naturals, Sequences, SequencesExt, FiniteSets

CONSTANTS
  Tx,             \* transactions, and the commits built for them
  BaseRevision,   \* the revision every worktree was created from
  Foreign,        \* commits other writers push
  MaxInterrupts,  \* bound: handlers that stop half way
  MaxForeign      \* bound: changes other writers make to the ref

ASSUME GitReleaseAssumption ==
  /\ BaseRevision \notin Tx /\ Foreign \cap (Tx \cup {BaseRevision}) = {}
  /\ IsFiniteSet(Tx)
  /\ MaxInterrupts \in Nat /\ MaxForeign \in Nat

VARIABLES
  state,        \* state[t]: the transaction's state in the ledger
  pc,           \* pc[t]: where the handler of t is
  status,       \* status[t]: what PublishCommit returned
  branch,       \* revisions reachable from the target ref
  checkedOut,   \* some worktree has the target branch checked out
  allowed,      \* the daemon's release policy allows the target ref
  intact,       \* intact[t]: the worktree of t holds the frozen stage
  landed,       \* history: commits the daemon's update-ref put on the ref
  interrupted,  \* history: transactions one of whose handlers stopped half way
  interrupts, changes   \* counters for the bounds

ledgerVars == <<state>>
git == <<branch, checkedOut, landed>>
counters == <<interrupted, interrupts, changes>>
checked == <<allowed, intact>>
releaseVars == <<state, pc, status, branch, checkedOut, allowed, intact, landed,
                 interrupted, interrupts, changes>>

Outcome == {"committed", "release_failed", "manual_recovery_required"}
State == Outcome \cup {"ready_to_commit", "committing"}
PublishStatus == {"none", "applied", "conflict", "unknown"}
Phase == {"idle", "prepare", "append", "check", "read", "update", "readback", "record"}
Revision == Tx \cup Foreign \cup {BaseRevision}

Resolves == branch # <<>>

InitRelease ==
  /\ state = [t \in Tx |-> "ready_to_commit"]
  /\ pc = [t \in Tx |-> "idle"] /\ status = [t \in Tx |-> "none"]
  /\ branch = <<BaseRevision>> /\ checkedOut = FALSE /\ landed = {}
  /\ allowed = TRUE /\ intact = [t \in Tx |-> TRUE]
  /\ interrupted = {} /\ interrupts = 0 /\ changes = 0

Goto(t, phase) == pc' = [pc EXCEPT ![t] = phase]

\* PublishCommit returns.
Return(t, result) ==
  /\ Goto(t, "record") /\ status' = [status EXCEPT ![t] = result]
  /\ UNCHANGED <<ledgerVars, git, checked, counters>>

Continue(t, phase) ==
  /\ Goto(t, phase) /\ UNCHANGED <<ledgerVars, status, git, checked, counters>>

\* Fault variant of Request: a release left committing cannot be taken up again.
RequestOnce(t) ==
  /\ pc[t] = "idle" /\ state[t] = "ready_to_commit"
  /\ allowed /\ intact[t]
  /\ Continue(t, "prepare")

\* A release request gets past its checks: the policy still allows the ref and
\* the worktree still matches the frozen stage.  A request that is refused
\* changes nothing.
Request(t) ==
  /\ pc[t] = "idle" /\ state[t] \in {"ready_to_commit", "committing"}
  /\ allowed /\ intact[t]
  /\ Continue(t, "prepare")

\* PrepareCommit validates the target ref and reads the worktree a second time
\* before it builds the commit.
Prepared(t) ==
  /\ pc[t] = "prepare"
  /\ Resolves /\ intact[t]
  /\ Continue(t, IF state[t] = "ready_to_commit" THEN "append" ELSE "check")

\* It refuses if the ref is gone or the worktree changed, or if git fails.
Prepare(t) ==
  \/ Prepared(t)
  \/ pc[t] = "prepare" /\ Continue(t, "idle")

AppendCommitting(t) ==
  /\ pc[t] = "append"
  /\ state' = [state EXCEPT ![t] = "committing"]
  /\ Goto(t, "check")
  /\ UNCHANGED <<status, git, checked, counters>>

\* PublishCommit up to ensureTargetNotCheckedOut.  A git command may fail at any
\* time: before the list of worktrees that means unknown, at the list, as if the
\* branch were checked out, conflict.
CheckTarget(t) ==
  /\ pc[t] = "check"
  /\ \/ Return(t, "unknown")
     \/ Resolves /\ Return(t, "conflict")
     \/ Resolves /\ ~checkedOut /\ Continue(t, "read")

\* Fault variant of ReadTarget: a ref other writers moved counts as published.
ReadTargetTrusting(t) ==
  /\ pc[t] = "read"
  /\ \/ Return(t, "unknown")
     \/ Resolves /\ Last(branch) # BaseRevision /\ Return(t, "applied")
     \/ Resolves /\ Last(branch) = BaseRevision /\ Continue(t, "update")

ReadTarget(t) ==
  /\ pc[t] = "read"
  /\ \/ Return(t, "unknown")
     \/ Resolves /\ Last(branch) = t /\ Return(t, "applied")
     \/ Resolves /\ Last(branch) = BaseRevision /\ Continue(t, "update")
     \/ Resolves /\ Last(branch) \notin {t, BaseRevision} /\ Return(t, "conflict")

\* Fault variant of UpdateRef: update-ref without the expected old revision.
UpdateRefForced(t) ==
  /\ pc[t] = "update"
  /\ Resolves
  /\ branch' = <<BaseRevision, t>> /\ landed' = landed \cup {t}
  /\ Goto(t, "readback")
  /\ UNCHANGED <<ledgerVars, status, checkedOut, checked, counters>>

\* Fault variant of UpdateRef: the expected revision is the one just read.
UpdateRefFromCurrent(t) ==
  /\ pc[t] = "update"
  /\ Resolves
  /\ branch' = Append(branch, t) /\ landed' = landed \cup {t}
  /\ Goto(t, "readback")
  /\ UNCHANGED <<ledgerVars, status, checkedOut, checked, counters>>

\* git update-ref moves the ref if it still is at the expected revision.  It may
\* also fail without moving it; its error only reaches the response.
UpdateRef(t) ==
  /\ pc[t] = "update"
  /\ \/ /\ Resolves /\ Last(branch) = BaseRevision
        /\ branch' = Append(branch, t) /\ landed' = landed \cup {t}
     \/ UNCHANGED <<branch, landed>>
  /\ Goto(t, "readback")
  /\ UNCHANGED <<ledgerVars, status, checkedOut, checked, counters>>

\* Fault variant of ReadBack: a ref that moved on is reported as a conflict.
ReadBackConflict(t) ==
  /\ pc[t] = "readback"
  /\ \/ Return(t, "unknown")
     \/ Resolves /\ Last(branch) = t /\ Return(t, "applied")
     \/ Resolves /\ Last(branch) # t /\ Return(t, "conflict")

ReadBack(t) ==
  /\ pc[t] = "readback"
  /\ \/ Return(t, "unknown")
     \/ Resolves /\ Last(branch) = t /\ Return(t, "applied")
     \/ Resolves /\ Last(branch) = BaseRevision /\ Return(t, "conflict")

Recorded == [applied  |-> "committed", conflict |-> "release_failed",
             unknown  |-> "manual_recovery_required"]

\* finishGitRelease or failGitRelease.
Record(t) ==
  /\ pc[t] = "record"
  /\ state' = [state EXCEPT ![t] = Recorded[status[t]]]
  /\ Goto(t, "idle") /\ status' = [status EXCEPT ![t] = "none"]
  /\ UNCHANGED <<git, checked, counters>>

\* The daemon dies, or the caller goes away and its request context is
\* cancelled: what is not in the ledger or in Git is gone.
Interrupt(t) ==
  /\ pc[t] # "idle" /\ interrupts < MaxInterrupts
  /\ interrupts' = interrupts + 1 /\ interrupted' = interrupted \cup {t}
  /\ Goto(t, "idle") /\ status' = [status EXCEPT ![t] = "none"]
  /\ UNCHANGED <<ledgerVars, git, checked, changes>>

OtherWriter(next) ==
  /\ changes < MaxForeign /\ changes' = changes + 1
  /\ branch' = next
  /\ UNCHANGED <<ledgerVars, pc, status, checkedOut, checked, landed, interrupted,
                 interrupts>>

\* Others push on top of the branch or create it anew, reset it to an earlier
\* revision or delete it, and check it out or leave it.
Push == \E r \in Foreign :
  OtherWriter(IF Resolves THEN Append(branch, r) ELSE <<BaseRevision>>)
Reset == \E n \in 0..(Len(branch) - 1) : OtherWriter(SubSeq(branch, 1, n))
Checkout ==
  /\ checkedOut' = ~checkedOut
  /\ UNCHANGED <<ledgerVars, pc, status, branch, landed, checked, counters>>

\* Somebody writes to the worktree of t or puts it back.
Disturb(t) ==
  /\ intact' = [intact EXCEPT ![t] = ~intact[t]]
  /\ UNCHANGED <<ledgerVars, pc, status, git, allowed, counters>>

\* The daemon is stopped and started under another release policy.
ChangePolicy ==
  /\ \A t \in Tx : pc[t] = "idle"
  /\ allowed' = ~allowed
  /\ UNCHANGED <<ledgerVars, pc, status, git, intact, counters>>

Handler(t) ==
  \/ Prepare(t) \/ AppendCommitting(t) \/ CheckTarget(t) \/ ReadTarget(t)
  \/ UpdateRef(t) \/ ReadBack(t) \/ Record(t)

ReleaseNext ==
  \/ \E t \in Tx : Request(t) \/ Handler(t) \/ Interrupt(t) \/ Disturb(t)
  \/ Push \/ Reset \/ Checkout \/ ChangePolicy

ReleaseSpec == InitRelease /\ [][ReleaseNext]_releaseVars

Retry(t) == state[t] = "committing" /\ Request(t)

\* A handler that is not interrupted runs on, the operator takes up a release that
\* was left committing, and git does not fail PrepareCommit for ever.
FairSpec ==
  /\ ReleaseSpec
  /\ \A t \in Tx : WF_releaseVars(Retry(t) \/ Handler(t)) /\ SF_releaseVars(Prepared(t))

-----------------------------------------------------------------------------
(* Properties *)

\* Every variable stays in its type, and a status is pending exactly while it
\* waits to be recorded.
ReleaseTypeOK ==
  /\ state \in [Tx -> State] /\ pc \in [Tx -> Phase]
  /\ status \in [Tx -> PublishStatus] /\ branch \in Seq(Revision)
  /\ checkedOut \in BOOLEAN /\ allowed \in BOOLEAN /\ intact \in [Tx -> BOOLEAN]
  /\ landed \subseteq Tx /\ interrupted \subseteq Tx
  /\ interrupts \in 0..MaxInterrupts /\ changes \in 0..MaxForeign
  /\ \A t \in Tx : (status[t] # "none") <=> (pc[t] = "record")

\* A released commit sits directly on the base its transaction was reviewed
\* against, so of several transactions with that base at most one is on the
\* branch.
OnReviewedBase ==
  \A i \in DOMAIN branch :
    branch[i] \in Tx => i > 1 /\ branch[i - 1] = BaseRevision

\* If no handler of a transaction was interrupted, release_failed tells the
\* truth: its commit is not on the branch, however others moved it meanwhile.
FailureIsUnpublished ==
  \A t \in Tx : state[t] = "release_failed" /\ t \notin interrupted =>
    \A i \in DOMAIN branch : branch[i] # t

\* A release never drops a commit: the branch after update-ref extends the
\* branch before it, even if others pushed since the ref was read.
NoLostUpdate ==
  [][\A t \in Tx : pc[t] = "update" /\ pc'[t] = "readback" => IsPrefix(branch, branch')]_releaseVars

\* A release that is in the ledger is concluded however often it was interrupted,
\* refused and retried, provided that what a retry checks holds in the end: the
\* policy allows the ref, the ref resolves and the worktree holds the frozen
\* stage.  If one of them fails for ever the release stays committing.
EventuallyConcluded ==
  \A t \in Tx :
    (<>[](allowed /\ Resolves /\ intact[t])) =>
      ((state[t] = "committing") ~> (state[t] \in Outcome))

\* releaseTransaction implements the promise of AbstractRelease.
Promise == INSTANCE AbstractRelease WITH verdict <- state
KeepsPromise == Promise!Spec

-----------------------------------------------------------------------------
(* What a comment says and the code does not do *)

\* gitstage.go on PublishCommit: "Retrying the same prepared commit after a
\* daemon crash is safe."  A release the retry calls failed is not published.
RetryIsSafe ==
  \A t \in Tx : state[t] = "release_failed" => \A i \in DOMAIN branch : branch[i] # t

=============================================================================
