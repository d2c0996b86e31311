----------------------------- MODULE GitProofs ------------------------------
(***************************************************************************)
(* Theorems about the Git side of a transaction.  GitRelease: for any      *)
(* number of transactions, interruptions and changes others make to the    *)
(* branch.  GitStage: for every finite set of paths, all base trees and    *)
(* limits, and any number of edits, crashes and attempts.                  *)
(***************************************************************************)
EXTENDS GitRelease, GitStage, FiniteSums

-----------------------------------------------------------------------------
(* GitRelease *)

\* Every step keeps the variables typed, and a status is pending exactly while
\* it waits to be recorded.
LEMMA TypeInit == InitRelease => ReleaseTypeOK
<1> SUFFICES ASSUME InitRelease PROVE ReleaseTypeOK
  OBVIOUS
<1>1. branch \in Seq(Revision)
  BY DEF InitRelease, Revision
<1>2. checkedOut \in BOOLEAN
  BY DEF InitRelease
<1>3. interrupts \in 0..MaxInterrupts /\ changes \in 0..MaxForeign
  BY GitReleaseAssumption DEF InitRelease
<1> QED
  BY <1>1, <1>2, <1>3 DEF InitRelease, ReleaseTypeOK, State, Phase, PublishStatus

\* A step of one handler that moves its program counter and its status.
LEMMA ReturnType ==
  ASSUME ReleaseTypeOK, NEW t \in Tx, NEW r \in PublishStatus \ {"none"}, Return(t, r)
  PROVE  ReleaseTypeOK'
BY DEF ReleaseTypeOK, Return, Goto, ledgerVars, git, checked, counters, Phase

\* A handler that moves on without a result stays well typed.
LEMMA ContinueType ==
  ASSUME ReleaseTypeOK, NEW t \in Tx, pc[t] # "record",
         NEW phase \in Phase \ {"record"}, Continue(t, phase)
  PROVE  ReleaseTypeOK'
BY DEF ReleaseTypeOK, Continue, Goto, ledgerVars, git, checked, counters

\* Every step keeps every variable in its type.
LEMMA TypeStep == ReleaseTypeOK /\ [ReleaseNext]_releaseVars => ReleaseTypeOK'
<1> SUFFICES ASSUME ReleaseTypeOK, [ReleaseNext]_releaseVars PROVE ReleaseTypeOK'
  OBVIOUS
<1>1. ASSUME NEW t \in Tx, Request(t) PROVE ReleaseTypeOK'
  BY <1>1, ContinueType DEF Request, Phase
<1>0. ASSUME NEW t \in Tx, Prepare(t) PROVE ReleaseTypeOK'
  BY <1>0, ContinueType DEF Prepare, Prepared, Phase
<1>2. ASSUME NEW t \in Tx, AppendCommitting(t) PROVE ReleaseTypeOK'
  BY <1>2 DEF AppendCommitting, ReleaseTypeOK, Goto, git, checked, counters, Phase, State
<1>3. ASSUME NEW t \in Tx, CheckTarget(t) PROVE ReleaseTypeOK'
  BY <1>3, ReturnType, ContinueType DEF CheckTarget, Phase, PublishStatus
<1>4. ASSUME NEW t \in Tx, ReadTarget(t) PROVE ReleaseTypeOK'
  BY <1>4, ReturnType, ContinueType DEF ReadTarget, Phase, PublishStatus
<1>5. ASSUME NEW t \in Tx, UpdateRef(t) PROVE ReleaseTypeOK'
  <2>1. landed' \subseteq Tx
    BY <1>5 DEF UpdateRef, ReleaseTypeOK
  <2>2. t \in Revision /\ branch \in Seq(Revision)
    BY DEF ReleaseTypeOK, Revision
  <2>3. branch' \in Seq(Revision)
    BY <1>5, <2>2 DEF UpdateRef
  <2> QED
    BY <1>5, <2>1, <2>3 DEF UpdateRef, ReleaseTypeOK, Goto, ledgerVars, checked, counters, Phase
<1>6. ASSUME NEW t \in Tx, ReadBack(t) PROVE ReleaseTypeOK'
  BY <1>6, ReturnType DEF ReadBack, PublishStatus
<1>7. ASSUME NEW t \in Tx, Record(t) PROVE ReleaseTypeOK'
  <2>1. Recorded[status[t]] \in State
    BY <1>7 DEF Record, ReleaseTypeOK, Recorded, State, Outcome, PublishStatus
  <2> QED
    BY <1>7, <2>1 DEF Record, ReleaseTypeOK, Goto, git, checked, counters, Phase, PublishStatus
<1>8. ASSUME NEW t \in Tx, Interrupt(t) PROVE ReleaseTypeOK'
  BY <1>8, GitReleaseAssumption
     DEF Interrupt, ReleaseTypeOK, Goto, ledgerVars, git, checked, Phase, PublishStatus
<1>9. ASSUME NEW next \in Seq(Revision), OtherWriter(next) PROVE ReleaseTypeOK'
  BY <1>9, GitReleaseAssumption DEF OtherWriter, ReleaseTypeOK, ledgerVars, checked
<1>10. CASE Push
  <2>1. PICK r \in Foreign :
          OtherWriter(IF Resolves THEN Append(branch, r) ELSE <<BaseRevision>>)
    BY <1>10 DEF Push
  <2>2. r \in Revision /\ BaseRevision \in Revision /\ branch \in Seq(Revision)
    BY DEF Revision, ReleaseTypeOK
  <2>3. Append(branch, r) \in Seq(Revision) /\ <<BaseRevision>> \in Seq(Revision)
    BY <2>2
  <2> QED
    BY <1>9, <2>1, <2>3
<1>11. CASE Reset
  <2>1. PICK n \in 0..(Len(branch) - 1) : OtherWriter(SubSeq(branch, 1, n))
    BY <1>11 DEF Reset
  <2>2. SubSeq(branch, 1, n) \in Seq(Revision)
    BY DEF ReleaseTypeOK
  <2> QED
    BY <1>9, <2>1, <2>2
<1>12. CASE Checkout
  <2>1. checkedOut' \in BOOLEAN
    BY <1>12 DEF Checkout
  <2> QED
    BY <1>12, <2>1 DEF Checkout, ReleaseTypeOK, ledgerVars, checked, counters
<1>14. ASSUME NEW t \in Tx, Disturb(t) PROVE ReleaseTypeOK'
  <2>1. intact' \in [Tx -> BOOLEAN]
    BY <1>14 DEF Disturb, ReleaseTypeOK
  <2> QED
    BY <1>14, <2>1 DEF Disturb, ReleaseTypeOK, ledgerVars, git, counters
<1>15. CASE ChangePolicy
  <2>1. allowed' \in BOOLEAN
    BY <1>15 DEF ChangePolicy
  <2> QED
    BY <1>15, <2>1 DEF ChangePolicy, ReleaseTypeOK, ledgerVars, git, counters
<1>13. CASE UNCHANGED releaseVars
  BY <1>13 DEF ReleaseTypeOK, releaseVars
<1> QED
  BY <1>0, <1>1, <1>2, <1>3, <1>4, <1>5, <1>6, <1>7, <1>8, <1>10, <1>11, <1>12, <1>13,
     <1>14, <1>15
     DEF ReleaseNext, Handler

\* The type invariant of the release protocol.
THEOREM ReleaseTypeCorrect == ReleaseSpec => []ReleaseTypeOK
BY TypeInit, TypeStep, PTL DEF ReleaseSpec

-----------------------------------------------------------------------------
(* Where commits sit on the branch *)

\* The base revision is at the root of the branch and nowhere else.
Rooted == \A i \in DOMAIN branch : branch[i] = BaseRevision <=> i = 1

\* What was put on the branch by a handler is known to have landed.
BranchLanded == \A i \in DOMAIN branch : branch[i] \in Tx => branch[i] \in landed

BranchInv == Rooted /\ OnReviewedBase /\ BranchLanded

\* The steps that may change the branch: update-ref and other writers.
LEMMA BranchChanges ==
  ASSUME ReleaseTypeOK, [ReleaseNext]_releaseVars
  PROVE  \/ UNCHANGED <<branch, landed>>
         \/ \E t \in Tx : /\ pc[t] = "update" /\ Resolves /\ Last(branch) = BaseRevision
                          /\ branch' = Append(branch, t) /\ landed' = landed \cup {t}
         \/ /\ UNCHANGED landed
            /\ \/ Resolves /\ \E r \in Foreign : branch' = Append(branch, r)
               \/ ~Resolves /\ branch' = <<BaseRevision>>
               \/ \E n \in 0..(Len(branch) - 1) : branch' = SubSeq(branch, 1, n)
<1>1. ASSUME NEW t \in Tx, Request(t) \/ Interrupt(t) \/ Disturb(t)
      PROVE  UNCHANGED <<branch, landed>>
  BY <1>1 DEF Request, Continue, Interrupt, Disturb, git
<1>2. ASSUME NEW t \in Tx, Handler(t), ~UpdateRef(t) PROVE UNCHANGED <<branch, landed>>
  BY <1>2 DEF Handler, Prepare, Prepared, AppendCommitting, CheckTarget, ReadTarget, ReadBack, Record,
       Return, Continue, git
<1>3. ASSUME NEW t \in Tx, UpdateRef(t)
      PROVE  \/ UNCHANGED <<branch, landed>>
             \/ /\ pc[t] = "update" /\ Resolves /\ Last(branch) = BaseRevision
                /\ branch' = Append(branch, t) /\ landed' = landed \cup {t}
  BY <1>3 DEF UpdateRef
<1>4. CASE Push
  BY <1>4 DEF Push, OtherWriter
<1>5. CASE Reset
  BY <1>5 DEF Reset, OtherWriter
<1>6. CASE Checkout \/ ChangePolicy \/ UNCHANGED releaseVars
  BY <1>6 DEF Checkout, ChangePolicy, git, releaseVars
<1> QED
  BY <1>1, <1>2, <1>3, <1>4, <1>5, <1>6 DEF ReleaseNext

\* Every step, those of other writers included, preserves the shape of the branch.
LEMMA BranchStep == ReleaseTypeOK /\ BranchInv /\ [ReleaseNext]_releaseVars => BranchInv'
<1> SUFFICES ASSUME ReleaseTypeOK, BranchInv, [ReleaseNext]_releaseVars PROVE BranchInv'
  OBVIOUS
<1> USE DEF BranchInv, Rooted, OnReviewedBase, BranchLanded
<1>1. CASE UNCHANGED <<branch, landed>>
  BY <1>1
<1>2. ASSUME NEW t \in Tx, Resolves, Last(branch) = BaseRevision,
             branch' = Append(branch, t), landed' = landed \cup {t}
      PROVE  BranchInv'
  BY <1>2, GitReleaseAssumption DEF ReleaseTypeOK, Resolves, Last
<1>3. ASSUME NEW r \in Foreign, Resolves, branch' = Append(branch, r), UNCHANGED landed
      PROVE  BranchInv'
  BY <1>3, GitReleaseAssumption DEF ReleaseTypeOK, Resolves
<1>4. CASE branch' = <<BaseRevision>> /\ UNCHANGED landed
  BY <1>4, GitReleaseAssumption
<1>5. ASSUME NEW n \in 0..(Len(branch) - 1), branch' = SubSeq(branch, 1, n), UNCHANGED landed
      PROVE  BranchInv'
  BY <1>5 DEF ReleaseTypeOK
<1> QED
  BY <1>1, <1>2, <1>3, <1>4, <1>5, BranchChanges

\* The branch starts at the reviewed base.
LEMMA BranchInit == InitRelease => BranchInv
BY GitReleaseAssumption DEF InitRelease, BranchInv, Rooted, OnReviewedBase, BranchLanded

\* A released commit sits on its reviewed base, whoever else writes to the
\* branch between the read and the update and however often releases are
\* interrupted and retried.
THEOREM ReviewedBase == ReleaseSpec => []OnReviewedBase
<1>1. BranchInv => OnReviewedBase
  BY DEF BranchInv
<1> QED
  BY <1>1, ReleaseTypeCorrect, BranchInit, BranchStep, PTL DEF ReleaseSpec

-----------------------------------------------------------------------------
(* The handler and the ledger *)

\* A handler past its first append works for a transaction the ledger calls
\* committing, and PublishCommit says applied only of a commit that landed.
ReleaserInv ==
  \A t \in Tx :
    /\ pc[t] = "prepare" => state[t] \in {"ready_to_commit", "committing"}
    /\ pc[t] = "append" => state[t] = "ready_to_commit"
    /\ pc[t] \in Phase \ {"idle", "prepare", "append"} => state[t] = "committing"
    /\ status[t] = "applied" => t \in landed

\* Off the branch: what release_failed claims.
Off(t) == \A i \in DOMAIN branch : branch[i] # t

\* Without an interruption a commit lands at most once, in the request that
\* records its outcome, and a conflict is only reported of a commit that is not
\* on the branch.
OutcomeInv ==
  \A t \in Tx \ interrupted :
    /\ t \in landed => pc[t] \in {"readback", "record"} \/ state[t] \in Outcome
    /\ status[t] = "conflict" => Off(t)
    /\ state[t] = "release_failed" => Off(t)

\* Before the first request no handler is running and nothing is concluded.
LEMMA HandlerInit == InitRelease => ReleaserInv /\ OutcomeInv
BY DEF InitRelease, ReleaserInv, OutcomeInv, Outcome

\* Every step keeps what a handler knows in line with the ledger and the branch.
LEMMA HandlerStep ==
  ReleaseTypeOK /\ BranchInv /\ ReleaserInv /\ [ReleaseNext]_releaseVars => ReleaserInv'
<1> SUFFICES ASSUME ReleaseTypeOK, BranchInv, ReleaserInv, [ReleaseNext]_releaseVars
             PROVE  ReleaserInv'
  OBVIOUS
<1> USE DEF ReleaserInv, ReleaseTypeOK, Goto, Phase
<1>1. ASSUME NEW t \in Tx, Request(t) PROVE ReleaserInv'
  BY <1>1 DEF Request, Continue, ledgerVars, git
<1>0. ASSUME NEW t \in Tx, Prepare(t) PROVE ReleaserInv'
  BY <1>0 DEF Prepare, Prepared, Continue, ledgerVars, git
<1>2. ASSUME NEW t \in Tx, AppendCommitting(t) PROVE ReleaserInv'
  BY <1>2 DEF AppendCommitting, git
<1>3. ASSUME NEW t \in Tx, CheckTarget(t) PROVE ReleaserInv'
  BY <1>3 DEF CheckTarget, Return, Continue, ledgerVars, git
<1>4. ASSUME NEW t \in Tx, Resolves, Last(branch) = t PROVE t \in landed
  BY <1>4 DEF BranchInv, BranchLanded, Last, Resolves
<1>5. ASSUME NEW t \in Tx, ReadTarget(t) PROVE ReleaserInv'
  BY <1>4, <1>5 DEF ReadTarget, Return, Continue, ledgerVars, git
<1>6. ASSUME NEW t \in Tx, UpdateRef(t) PROVE ReleaserInv'
  BY <1>6 DEF UpdateRef, ledgerVars
<1>7. ASSUME NEW t \in Tx, ReadBack(t) PROVE ReleaserInv'
  BY <1>4, <1>7 DEF ReadBack, Return, ledgerVars, git
<1>8. ASSUME NEW t \in Tx, Record(t) PROVE ReleaserInv'
  BY <1>8 DEF Record, git
<1>9. ASSUME NEW t \in Tx, Interrupt(t) PROVE ReleaserInv'
  BY <1>9 DEF Interrupt, ledgerVars, git
<1>10. CASE UNCHANGED <<state, pc, status, landed>>
  BY <1>10
<1>11. CASE Push \/ Reset \/ Checkout \/ ChangePolicy \/ UNCHANGED releaseVars
  BY <1>10, <1>11 DEF Push, Reset, OtherWriter, Checkout, ChangePolicy, git, releaseVars, ledgerVars
<1>12. ASSUME NEW t \in Tx, Disturb(t) PROVE ReleaserInv'
  BY <1>10, <1>12 DEF Disturb, git, ledgerVars
<1> QED
  BY <1>0, <1>1, <1>12, <1>2, <1>3, <1>5, <1>6, <1>7, <1>8, <1>9, <1>11 DEF ReleaseNext, Handler

\* Every step of the code is a step of the promise or leaves it alone.
LEMMA PromiseStep ==
  ASSUME ReleaseTypeOK, ReleaserInv, [ReleaseNext]_releaseVars
  PROVE  [Promise!Next]_<<state, landed>>
<1>1. ASSUME NEW t \in Tx, AppendCommitting(t) PROVE Promise!Decide(t)
  BY <1>1 DEF AppendCommitting, git, ReleaserInv, Promise!Decide
<1>2. ASSUME NEW t \in Tx, UpdateRef(t) PROVE Promise!Land(t) \/ UNCHANGED <<state, landed>>
  BY <1>2 DEF UpdateRef, ledgerVars, ReleaserInv, Phase, Promise!Land
<1>3. ASSUME NEW t \in Tx, Record(t) PROVE \E v \in Promise!Verdicts : Promise!Conclude(t, v)
  <2>1. state[t] = "committing" /\ status[t] \in {"applied", "conflict", "unknown"}
    BY <1>3 DEF Record, ReleaserInv, ReleaseTypeOK, Phase, PublishStatus
  <2>2. /\ Recorded[status[t]] \in Promise!Verdicts
        /\ Recorded[status[t]] = "committed" => t \in landed
    BY <2>1 DEF Recorded, ReleaserInv, Promise!Verdicts
  <2> QED
    BY <1>3, <2>1, <2>2 DEF Record, git, Promise!Conclude
<1>4. ASSUME NEW t \in Tx, \/ Request(t) \/ Interrupt(t) \/ Disturb(t) \/ Prepare(t)
                         \/ CheckTarget(t) \/ ReadTarget(t) \/ ReadBack(t)
      PROVE  UNCHANGED <<state, landed>>
  BY <1>4 DEF Request, Interrupt, Disturb, Prepare, Prepared, CheckTarget, ReadTarget,
       ReadBack, Return, Continue,
       ledgerVars, git
<1>5. CASE Push \/ Reset \/ Checkout \/ ChangePolicy \/ UNCHANGED releaseVars
  BY <1>5 DEF Push, Reset, OtherWriter, Checkout, ChangePolicy, git, releaseVars, ledgerVars
<1> QED
  BY <1>1, <1>2, <1>3, <1>4, <1>5 DEF ReleaseNext, Handler, Promise!Next

\* releaseTransaction implements AbstractRelease: a commit lands only between the
\* ledger's decision and its verdict, committed is only said of a commit that
\* landed, and a verdict is final.
THEOREM Refinement == ReleaseSpec => KeepsPromise
<1>1. InitRelease => Promise!Init
  BY DEF InitRelease, Promise!Init
<1>2. ReleaseTypeOK /\ ReleaserInv /\ [ReleaseNext]_releaseVars => [Promise!Next]_<<state, landed>>
  BY PromiseStep
<1>3. InitRelease => ReleaserInv
  BY HandlerInit
<1> QED
  BY <1>1, <1>2, <1>3, ReleaseTypeCorrect, BranchInit, BranchStep, HandlerStep, PTL
     DEF ReleaseSpec, KeepsPromise, Promise!Spec

-----------------------------------------------------------------------------
(* What release_failed means *)

\* A step that does not put t on the branch keeps it off.
LEMMA StaysOff ==
  ASSUME ReleaseTypeOK, [ReleaseNext]_releaseVars, NEW t \in Tx, Off(t), pc[t] # "update"
  PROVE  Off(t)'
<1> USE DEF Off, ReleaseTypeOK
<1>1. CASE UNCHANGED <<branch, landed>>
  BY <1>1
<1>2. ASSUME NEW u \in Tx \cup Foreign, u # t, branch' = Append(branch, u) PROVE Off(t)'
  BY <1>2
<1>3. CASE branch' = <<BaseRevision>>
  BY <1>3, GitReleaseAssumption
<1>4. ASSUME NEW n \in 0..(Len(branch) - 1), branch' = SubSeq(branch, 1, n) PROVE Off(t)'
  BY <1>4
<1> QED
  BY <1>1, <1>2, <1>3, <1>4, BranchChanges, GitReleaseAssumption

\* Every step keeps an uninterrupted release that failed off the branch.
LEMMA OutcomeStep ==
  ReleaseTypeOK /\ BranchInv /\ ReleaserInv /\ OutcomeInv /\ [ReleaseNext]_releaseVars => OutcomeInv'
<1> SUFFICES ASSUME ReleaseTypeOK, BranchInv, ReleaserInv, OutcomeInv, [ReleaseNext]_releaseVars,
                    NEW u \in Tx, u \notin interrupted'
             PROVE  /\ u \in landed' => pc'[u] \in {"readback", "record"} \/ state'[u] \in Outcome
                    /\ status'[u] = "conflict" => Off(u)'
                    /\ state'[u] = "release_failed" => Off(u)'
  BY DEF OutcomeInv
<1> DEFINE Goal == /\ u \in landed' => pc'[u] \in {"readback", "record"} \/ state'[u] \in Outcome
                   /\ status'[u] = "conflict" => Off(u)'
                   /\ state'[u] = "release_failed" => Off(u)'
<1>1. interrupted \subseteq interrupted'
  BY DEF ReleaseNext, Request, Handler, Prepare, Prepared, Disturb, ChangePolicy,
     AppendCommitting, CheckTarget, ReadTarget, UpdateRef,
     ReadBack, Record, Return, Continue, Interrupt, Push, Reset, OtherWriter, Checkout,
     counters, releaseVars
<1>2. /\ u \in landed => pc[u] \in {"readback", "record"} \/ state[u] \in Outcome
      /\ status[u] = "conflict" => Off(u)
      /\ state[u] = "release_failed" => Off(u)
  BY <1>1 DEF OutcomeInv
<1>3. u \notin landed => Off(u)
  BY DEF BranchInv, BranchLanded, Off
<1>4. (status[u] = "conflict" \/ state[u] = "release_failed") => Off(u)'
  <2>1. (status[u] = "conflict" \/ state[u] = "release_failed") => pc[u] # "update"
    BY DEF ReleaseTypeOK, ReleaserInv, Phase
  <2> QED
    BY <1>2, <2>1, StaysOff
<1>5. CASE UNCHANGED <<state, landed>> /\ UNCHANGED <<pc, status>>
  BY <1>2, <1>4, <1>5
<1>6. ASSUME NEW t \in Tx, Request(t) PROVE Goal
  <2>1. u = t => u \notin landed
    BY <1>2, <1>6 DEF Request, Outcome
  <2> QED
    BY <1>2, <1>4, <1>6, <2>1 DEF Request, Continue, Goto, ReleaseTypeOK, ledgerVars, git
<1>14. ASSUME NEW t \in Tx, Prepare(t) PROVE Goal
  <2>1. u = t => u \notin landed
    BY <1>2, <1>14 DEF Prepare, Prepared, ReleaserInv, Outcome
  <2> QED
    BY <1>2, <1>4, <1>14, <2>1
       DEF Prepare, Prepared, Continue, Goto, ReleaseTypeOK, ledgerVars, git
<1>7. ASSUME NEW t \in Tx, AppendCommitting(t) PROVE Goal
  <2>1. u = t => u \notin landed
    BY <1>2, <1>7 DEF AppendCommitting, ReleaserInv, Outcome
  <2> QED
    BY <1>2, <1>4, <1>7, <2>1 DEF AppendCommitting, Goto, ReleaseTypeOK, git
<1>8. ASSUME NEW t \in Tx, CheckTarget(t) \/ ReadTarget(t) PROVE Goal
  <2>1. u = t => u \notin landed
    BY <1>2, <1>8 DEF CheckTarget, ReadTarget, ReleaserInv, Outcome, Phase
  <2>2. u = t => Off(u)'
    BY <1>3, <1>8, <2>1, StaysOff DEF CheckTarget, ReadTarget
  <2> QED
    BY <1>2, <1>4, <1>8, <2>1, <2>2
       DEF CheckTarget, ReadTarget, Return, Continue, Goto, ReleaseTypeOK, ledgerVars, git
<1>9. ASSUME NEW t \in Tx, UpdateRef(t) PROVE Goal
  BY <1>2, <1>4, <1>9 DEF UpdateRef, Goto, ReleaseTypeOK, ledgerVars
<1>10. ASSUME NEW t \in Tx, ReadBack(t) PROVE Goal
  <2>1. Resolves /\ Last(branch) = BaseRevision => Off(u)
    BY GitReleaseAssumption DEF BranchInv, Rooted, Resolves, Last, Off, ReleaseTypeOK
  <2>2. UNCHANGED branch
    BY <1>10 DEF ReadBack, Return, git
  <2>3. status'[t] = "conflict" => Resolves /\ Last(branch) = BaseRevision
    BY <1>10 DEF ReadBack, Return, ReleaseTypeOK
  <2> QED
    BY <1>2, <1>4, <1>10, <2>1, <2>2, <2>3
       DEF ReadBack, Return, Goto, ReleaseTypeOK, ledgerVars, git, Off
<1>11. ASSUME NEW t \in Tx, Record(t) PROVE Goal
  <2>1. state'[t] \in Outcome /\ (state'[t] = "release_failed" => status[t] = "conflict")
    BY <1>11 DEF Record, Recorded, ReleaseTypeOK, Outcome, PublishStatus
  <2> QED
    BY <1>2, <1>4, <1>11, <2>1 DEF Record, Goto, ReleaseTypeOK, git
<1>12. ASSUME NEW t \in Tx, Interrupt(t) PROVE Goal
  BY <1>2, <1>4, <1>12 DEF Interrupt, Goto, ReleaseTypeOK, ledgerVars, git
<1>13. CASE Push \/ Reset \/ Checkout \/ ChangePolicy \/ UNCHANGED releaseVars
  BY <1>5, <1>13 DEF Push, Reset, OtherWriter, Checkout, ChangePolicy, git, releaseVars, ledgerVars
<1>15. ASSUME NEW t \in Tx, Disturb(t) PROVE Goal
  BY <1>5, <1>15 DEF Disturb, git, ledgerVars
<1> QED
  BY <1>14, <1>15, <1>6, <1>7, <1>8, <1>9, <1>10, <1>11, <1>12, <1>13 DEF ReleaseNext, Handler

\* As long as no handler of it was interrupted, a release that the ledger calls
\* failed is not on the branch, however others move the branch.
THEOREM HonestFailure == ReleaseSpec => []FailureIsUnpublished
<1>1. OutcomeInv => FailureIsUnpublished
  BY DEF OutcomeInv, FailureIsUnpublished, Off
<1>2. InitRelease => ReleaserInv /\ OutcomeInv
  BY HandlerInit
<1> QED
  BY <1>1, <1>2, ReleaseTypeCorrect, BranchInit, BranchStep, HandlerStep, OutcomeStep, PTL DEF ReleaseSpec

-----------------------------------------------------------------------------
(* No commit is dropped *)

\* What NoLostUpdate asks of a step.
KeepsCommits ==
  \A t \in Tx : pc[t] = "update" /\ pc'[t] = "readback" => IsPrefix(branch, branch')

\* A branch and the branch with one more revision both have the branch as prefix.
LEMMA AppendPrefix ==
  ASSUME NEW S, NEW s \in Seq(S), NEW x
  PROVE  IsPrefix(s, s) /\ IsPrefix(s, Append(s, x))
<1>1. Len(Append(s, x)) = Len(s) + 1 /\ Len(s) \in Nat
  OBVIOUS
<1>2. SubSeq(Append(s, x), 1, Len(s)) = SubSeq(s, 1, Len(s))
  OBVIOUS
<1> QED
  BY <1>1, <1>2 DEF IsPrefix

\* The handler's update-ref extends the branch as it is at that moment, whatever
\* others did to it since the handler read it.
THEOREM UpdateLosesNothing == ReleaseSpec => NoLostUpdate
<1>1. ASSUME ReleaseTypeOK, ReleaseNext PROVE KeepsCommits
  <2> SUFFICES ASSUME NEW t \in Tx, pc[t] = "update", pc'[t] = "readback"
               PROVE  IsPrefix(branch, branch')
    BY DEF KeepsCommits
  <2>1. pc \in [Tx -> Phase] /\ branch \in Seq(Revision)
    BY <1>1 DEF ReleaseTypeOK
  <2>2. ASSUME NEW u \in Tx, Request(u) \/ Interrupt(u) \/ Disturb(u) PROVE FALSE
    BY <2>1, <2>2 DEF Request, Continue, Interrupt, Disturb, Goto
  <2>3. ASSUME NEW u \in Tx, Handler(u) PROVE UpdateRef(t)
    BY <2>1, <2>3 DEF Handler, Prepare, Prepared, AppendCommitting, CheckTarget, ReadTarget, UpdateRef,
         ReadBack, Record, Return, Continue, Goto
  <2>4. UpdateRef(t)
    BY <1>1, <2>2, <2>3 DEF ReleaseNext, Push, Reset, Checkout, ChangePolicy, OtherWriter
  <2>5. branch' = branch \/ branch' = Append(branch, t)
    BY <2>4 DEF UpdateRef
  <2> QED
    BY <2>1, <2>5, AppendPrefix
<1>2. ReleaseTypeOK /\ [ReleaseNext]_releaseVars => [KeepsCommits]_releaseVars
  BY <1>1
<1>3. ReleaseSpec => [][KeepsCommits]_releaseVars
  BY <1>2, ReleaseTypeCorrect, PTL DEF ReleaseSpec
<1> QED
  BY <1>3 DEF KeepsCommits, NoLostUpdate

-----------------------------------------------------------------------------
(* GitStage *)

\* A snapshot says what its tree does to the base, within the limits.
Exact(s) ==
  /\ s.effects = Diff(base, s.tree)
  /\ Cardinality(s.effects) <= MaxChangedFiles
  /\ Bytes(s.effects) <= MaxTotalChangedBytes

\* What a handler may rely on while it works: staging began without a frozen
\* snapshot, every other handler with one, and none after the commit.
HandlerInv ==
  /\ frozen # NoSnapshot => bound
  /\ op \in {"stage", "review", "verify", "release"} => bound
  /\ op = "none" <=> at = "idle"
  /\ op = "stage" => frozen = NoSnapshot
  /\ op \in {"review", "verify", "release"} => frozen # NoSnapshot
  /\ op # "none" => commit = NoTree
  /\ at = "running" => op = "verify"

\* An inspection returns an exact snapshot; one that was frozen was returned.
ExactInv ==
  /\ at = "inspected" => Exact(snapshot)
  /\ frozen # NoSnapshot => Exact(frozen)

\* Without a frozen snapshot there is nothing about it.
NothingEarly ==
  frozen = NoSnapshot => reviewed = {} /\ verified = {} /\ commit = NoTree

StageInv == HandlerInv /\ ExactInv /\ NothingEarly /\ FrozenThroughout

\* A step of a handler that leaves the ledger and the copy for verifiers
\* alone and ends in a state without claims keeps the invariant.
LEMMA QuietStep ==
  ASSUME StageInv,
         UNCHANGED <<base, frozen, reviewed, verified, commit>>,
         bound' = bound \/ bound' = TRUE,
         op' = op \/ op' = "none",
         op' = "none" <=> at' = "idle",
         at' = "inspected" => at = "inspected" /\ snapshot' = snapshot,
         at' = "running" => at = "running" /\ mounted' = mounted /\ op' = op
  PROVE  StageInv'
<1>1. HandlerInv'
  BY DEF StageInv, HandlerInv
<1>2. ExactInv'
  BY DEF StageInv, ExactInv, Exact, Diff
<1>3. NothingEarly'
  BY DEF StageInv, NothingEarly
<1>4. FrozenThroughout'
  BY DEF StageInv, HandlerInv, FrozenThroughout, EvidenceIsFrozen, CommitIsFrozen
<1> QED
  BY <1>1, <1>2, <1>3, <1>4 DEF StageInv

\* Before anything happened there is nothing to hold a claim about.
LEMMA StageInit == Init => StageInv
  BY DEF Init, StageInv, HandlerInv, ExactInv, NothingEarly, FrozenThroughout,
         EvidenceIsFrozen, CommitIsFrozen

\* A refused request leaves what is frozen as it was.
LEMMA RefuseKeeps == ASSUME StageInv, Fail PROVE StageInv'
  BY QuietStep DEF Fail, Answer, files, ledger, StageInv, HandlerInv

\* Creation of the worktree, the writer and the end of a handler.
LEMMA OutsideKeeps ==
  ASSUME StageInv,
         \/ Create \/ FillWorktree \/ FillFails \/ Bind \/ Discard \/ Crash \/ Writer
  PROVE  StageInv'
<1>1. CASE Create
  <2> at = "idle" /\ op = "none" BY <1>1 DEF Create, StageInv, HandlerInv
  <2>1. HandlerInv'
    BY <1>1 DEF Create, StageInv, HandlerInv, ledger, NothingEarly
  <2> QED
    BY <1>1, <2>1 DEF Create, StageInv, HandlerInv, ledger, ExactInv, Exact, Diff, NothingEarly, FrozenThroughout,
         EvidenceIsFrozen, CommitIsFrozen
<1>2. CASE FillWorktree \/ FillFails
  BY <1>2, QuietStep DEF FillWorktree, FillFails, Answer, ledger, StageInv, HandlerInv
<1>3. CASE Bind
  BY <1>3, QuietStep DEF Bind, Answer, StageInv, HandlerInv
<1>4. CASE Discard
  BY <1>4, QuietStep DEF Discard, handler, ledger, StageInv, HandlerInv
<1>5. CASE Crash
  BY <1>5, QuietStep DEF Crash, Answer, files, ledger, StageInv, HandlerInv
<1>6. CASE Writer
  BY <1>6, QuietStep DEF Writer, Edit, Ignore, MoveHead, Noticed, ledger, StageInv, HandlerInv
<1> QED
  BY <1>1, <1>2, <1>3, <1>4, <1>5, <1>6

\* Begin and the steps of an inspection.
LEMMA InspectionKeeps ==
  ASSUME StageInv, (\E handlerOp \in {"stage", "review", "verify", "release"} : Begin(handlerOp)) \/ Inspect
  PROVE  StageInv'
<1>1. ASSUME NEW handlerOp \in {"stage", "review", "verify", "release"}, Begin(handlerOp)
      PROVE  StageInv'
  <2>1. HandlerInv'
    BY <1>1 DEF Begin, StageInv, HandlerInv, ledger, NothingEarly
  <2>2. NothingEarly' /\ FrozenThroughout'
    BY <1>1 DEF Begin, StageInv, ledger, files, NothingEarly, FrozenThroughout, EvidenceIsFrozen,
                CommitIsFrozen
  <2>3. ExactInv'
    BY <1>1 DEF Begin, StageInv, ledger, files, ExactInv, Exact, Diff
  <2> QED
    BY <2>1, <2>2, <2>3 DEF StageInv
<1>2. CASE Validate
  BY <1>2, QuietStep, RefuseKeeps DEF Validate, Refuse, files, ledger, StageInv, HandlerInv
<1>3. CASE CompareTracked
  BY <1>3, QuietStep, RefuseKeeps
     DEF CompareTracked, Scanning, Go, Refuse, files, ledger, StageInv, HandlerInv
<1>4. CASE ListUntracked
  BY <1>4, QuietStep, RefuseKeeps
     DEF ListUntracked, Scanning, Go, Refuse, files, ledger, StageInv, HandlerInv
<1>5. CASE Preflight
  BY <1>5, QuietStep, RefuseKeeps
     DEF Preflight, Scanning, Go, Refuse, files, ledger, StageInv, HandlerInv
<1>6. CASE StartIndex
  BY <1>6, QuietStep, RefuseKeeps
     DEF StartIndex, Scanning, Go, files, ledger, StageInv, HandlerInv
<1>7. CASE ReadContent
  BY <1>7, QuietStep, RefuseKeeps
     DEF ReadContent, Scanning, Go, Refuse, files, ledger, StageInv, HandlerInv
<1>8. CASE Derive
  <2>1. CASE Refuse
    BY <2>1, RefuseKeeps DEF Refuse
  <2>2. CASE ~Refuse
    <3>1. /\ UNCHANGED <<base, bound, op, mounted, frozen, reviewed, verified, commit>>
          /\ at = "read" /\ at' = "inspected"
          /\ Exact(snapshot)'
      BY <1>8, <2>2 DEF Derive, Scanning, files, ledger, effectsOf, Exact, Diff
    <3>2. HandlerInv'
      BY <3>1 DEF StageInv, HandlerInv
    <3>3. ExactInv'
      BY <3>1 DEF StageInv, ExactInv, Exact, Diff
    <3>4. NothingEarly' /\ FrozenThroughout'
      BY <3>1 DEF StageInv, NothingEarly, FrozenThroughout, EvidenceIsFrozen, CommitIsFrozen
    <3> QED
      BY <3>2, <3>3, <3>4 DEF StageInv
  <2> QED
    BY <2>1, <2>2
<1>9. CASE InspectFails
  BY <1>9, RefuseKeeps DEF InspectFails
<1> QED
  BY <1>1, <1>2, <1>3, <1>4, <1>5, <1>6, <1>7, <1>8, <1>9 DEF Inspect

\* What the handlers do with a snapshot.
LEMMA HandlersKeep ==
  ASSUME StageInv,
         \/ stageTransaction \/ getTransactionDiff \/ MaterializeSnapshot
         \/ removeMaterializedTree \/ recordVerification \/ releaseTransaction
         \/ PrepareCommit \/ Revise
  PROVE  StageInv'
<1>1. CASE stageTransaction
  <2>1. HandlerInv' /\ NothingEarly'
    BY <1>1 DEF stageTransaction, Inspected, Answer, StageInv, HandlerInv, NothingEarly
  <2>2. ExactInv'
    BY <1>1 DEF stageTransaction, Inspected, Answer, StageInv, ExactInv, Exact, Diff, files
  <2>3. FrozenThroughout'
    BY <1>1 DEF stageTransaction, Inspected, Answer, StageInv, HandlerInv, NothingEarly,
                FrozenThroughout, EvidenceIsFrozen, CommitIsFrozen
  <2> QED
    BY <2>1, <2>2, <2>3 DEF StageInv
<1>2. CASE getTransactionDiff
  <2>1. CASE Refuse
    BY <2>1, RefuseKeeps DEF Refuse
  <2>2. CASE ~Refuse
    <3>1. /\ UNCHANGED <<base, bound, frozen, mounted, verified, commit>>
          /\ op = "review" /\ op' = "none" /\ at' = "idle"
          /\ reviewed' = reviewed \cup {Diff(base, frozen.tree)}
      BY <1>2, <2>2 DEF getTransactionDiff, Inspected, matchesFrozenStage, Answer, files
    <3>2. Diff(base, frozen.tree) = frozen.effects /\ frozen # NoSnapshot
      BY <3>1 DEF StageInv, HandlerInv, ExactInv, Exact
    <3>3. HandlerInv' /\ NothingEarly'
      BY <3>1, <3>2 DEF StageInv, HandlerInv, NothingEarly
    <3>4. ExactInv'
      BY <3>1 DEF StageInv, ExactInv, Exact, Diff
    <3>5. FrozenThroughout'
      BY <3>1, <3>2 DEF StageInv, FrozenThroughout, EvidenceIsFrozen, CommitIsFrozen
    <3> QED
      BY <3>3, <3>4, <3>5 DEF StageInv
  <2> QED
    BY <2>1, <2>2
<1>3. CASE MaterializeSnapshot
  <2>1. CASE Refuse
    BY <2>1, RefuseKeeps DEF Refuse
  <2>2. CASE at' = "running"
    <3>1. /\ UNCHANGED <<base, bound, op, snapshot, frozen, reviewed, verified, commit>>
          /\ op = "verify" /\ mounted' = frozen.tree
      BY <1>3, <2>2 DEF MaterializeSnapshot, Inspected, matchesFrozenStage, files, ledger,
                        Refuse, Fail, Answer
    <3>2. HandlerInv' /\ NothingEarly'
      BY <2>2, <3>1 DEF StageInv, HandlerInv, NothingEarly
    <3>3. ExactInv'
      BY <2>2, <3>1 DEF StageInv, ExactInv, Exact, Diff
    <3>4. FrozenThroughout'
      BY <2>2, <3>1 DEF StageInv, FrozenThroughout, EvidenceIsFrozen, CommitIsFrozen
    <3> QED
      BY <3>2, <3>3, <3>4 DEF StageInv
  <2>3. CASE ~Refuse /\ at' # "running"
    BY <1>3, <2>3, QuietStep DEF MaterializeSnapshot, Answer, files, ledger, StageInv, HandlerInv
  <2> QED
    BY <2>1, <2>2, <2>3
<1>4. CASE removeMaterializedTree
  BY <1>4, QuietStep
     DEF removeMaterializedTree, InspectAgain, Answer, files, ledger, StageInv, HandlerInv
<1>5. CASE recordVerification
  <2>1. CASE Refuse
    BY <2>1, RefuseKeeps DEF Refuse
  <2>2. CASE ~Refuse
    <3>1. /\ UNCHANGED <<base, bound, frozen, mounted, reviewed, commit>>
          /\ op = "verify" /\ op' = "none" /\ at' = "idle"
          /\ verified' = verified \cup {frozen.tree}
      BY <1>5, <2>2 DEF recordVerification, Inspected, matchesFrozenStage, Answer, files
    <3>2. HandlerInv' /\ NothingEarly'
      BY <3>1 DEF StageInv, HandlerInv, NothingEarly
    <3>3. ExactInv'
      BY <3>1 DEF StageInv, ExactInv, Exact, Diff
    <3>4. FrozenThroughout'
      BY <3>1 DEF StageInv, FrozenThroughout, EvidenceIsFrozen, CommitIsFrozen
    <3> QED
      BY <3>2, <3>3, <3>4 DEF StageInv
  <2> QED
    BY <2>1, <2>2
<1>6. CASE releaseTransaction
  BY <1>6, QuietStep, RefuseKeeps
     DEF releaseTransaction, Inspected, InspectAgain, Refuse, files, ledger, StageInv, HandlerInv
<1>7. CASE PrepareCommit
  <2>1. CASE Refuse
    BY <2>1, RefuseKeeps DEF Refuse
  <2>2. CASE ~Refuse
    <3>1. /\ UNCHANGED <<base, bound, frozen, mounted, reviewed, verified>>
          /\ op = "release" /\ op' = "none" /\ at' = "idle"
          /\ commit' = frozen.tree
      BY <1>7, <2>2 DEF PrepareCommit, Inspected, Answer, files
    <3>2. HandlerInv' /\ NothingEarly'
      BY <3>1 DEF StageInv, HandlerInv, NothingEarly
    <3>3. ExactInv'
      BY <3>1 DEF StageInv, ExactInv, Exact, Diff
    <3>4. FrozenThroughout'
      BY <3>1 DEF StageInv, FrozenThroughout, EvidenceIsFrozen, CommitIsFrozen
    <3> QED
      BY <3>2, <3>3, <3>4 DEF StageInv
  <2> QED
    BY <2>1, <2>2
<1>8. CASE Revise
  <2>1. /\ UNCHANGED <<base, bound, op, at, snapshot, mounted, commit>>
        /\ frozen' = NoSnapshot /\ reviewed' = {} /\ verified' = {}
        /\ at = "idle" /\ commit = NoTree
    BY <1>8 DEF Revise, files, handler
  <2>2. HandlerInv' /\ NothingEarly'
    BY <2>1 DEF StageInv, HandlerInv, NothingEarly
  <2>3. ExactInv' /\ FrozenThroughout'
    BY <2>1 DEF StageInv, ExactInv, FrozenThroughout, EvidenceIsFrozen, CommitIsFrozen
  <2> QED
    BY <2>2, <2>3 DEF StageInv
<1> QED
  BY <1>1, <1>2, <1>3, <1>4, <1>5, <1>6, <1>7, <1>8

\* Steps outside the module change nothing.
LEMMA StutterKeeps == ASSUME StageInv, UNCHANGED vars PROVE StageInv'
  BY QuietStep DEF vars, files, handler, ledger, StageInv, HandlerInv

\* The invariant behind the results on staging: an inspection that passed
\* holds exactly the changes from the base, and only such a snapshot is frozen.
THEOREM StageCorrect == Spec => []StageInv
<1>1. StageInv /\ [Next]_vars => StageInv'
  BY OutsideKeeps, InspectionKeeps, HandlersKeep, StutterKeeps DEF Next
<1> QED
  BY StageInit, <1>1, PTL DEF Spec

\* Reviewers, verifiers and the commit have the frozen tree, although the
\* worktree may change between any two reads of it: FrozenThroughout, for
\* every set of paths, limits and writers.
THEOREM FrozenCorrect == Spec => []FrozenThroughout
<1>1. StageInv => FrozenThroughout
  BY DEF StageInv
<1> QED
  BY StageCorrect, <1>1, PTL

\* The frozen effects lead from the base to the frozen tree, no more and no
\* less, within the limits of the inspection.
THEOREM EffectsCorrect == Spec => []EffectsExact
<1>1. StageInv => EffectsExact
  <2> SUFFICES ASSUME StageInv, frozen # NoSnapshot PROVE EffectsExact
    BY DEF EffectsExact
  <2>1. Exact(frozen)
    BY DEF StageInv, ExactInv
  <2>2. ASSUME NEW p \in Paths
        PROVE  LET about == {e \in frozen.effects : e.path = p}
               IN IF about = {} THEN frozen.tree[p] = base[p]
                  ELSE \A e \in about : e.before = base[p] /\ e.after = frozen.tree[p]
    <3> DEFINE about == {e \in frozen.effects : e.path = p}
               effect(q) == [path |-> q, before |-> base[q], after |-> frozen.tree[q]]
    <3>1. frozen.effects = {effect(q) : q \in {r \in Paths : base[r] # frozen.tree[r]}}
      BY <2>1 DEF Exact, Diff
    <3>2. ASSUME about = {} PROVE frozen.tree[p] = base[p]
      <4>1. effect(p).path = p
        OBVIOUS
      <4> QED
        BY <3>1, <3>2, <4>1
    <3>3. ASSUME NEW e \in about PROVE e.before = base[p] /\ e.after = frozen.tree[p]
      <4>1. PICK q \in Paths : e = effect(q)
        BY <3>1
      <4>2. q = p
        BY <4>1
      <4> QED
        BY <4>1, <4>2
    <3> QED
      BY <3>2, <3>3
  <2> QED
    BY <2>1, <2>2 DEF EffectsExact, Exact
<1> QED
  BY StageCorrect, <1>1, PTL

-----------------------------------------------------------------------------
(* The worktree that is handed out *)

\* Between its creation and the first write of the agent a worktree is empty, in
\* the making, or the base; it is bound and edited only once it is complete.
WorktreeInv ==
  /\ BoundWorktreeComplete
  /\ op = "create" => ~bound
  /\ edits \in Nat /\ (edits # 0 => bound)
  /\ op = "create" /\ at = "bind" => work = base /\ dir = "ready"
  /\ op = "create" => at \in {"fill", "bind"}

\* Steps of the handlers that keep the files and the binding.
LEMMA WorktreeFrame ==
  ASSUME WorktreeInv, UNCHANGED <<base, work, dir, bound, edits>>,
         op' = "create" => UNCHANGED <<op, at>>
  PROVE  WorktreeInv'
BY DEF WorktreeInv, BoundWorktreeComplete

\* The binding is appended for a complete worktree only, however creation failed
\* before: an agent never starts on part of the base revision.
THEOREM WorktreeComplete == Spec => []BoundWorktreeComplete
<1>1. Init => WorktreeInv
  BY DEF Init, WorktreeInv, BoundWorktreeComplete
<1>2. ASSUME WorktreeInv, StageInv, [Next]_vars PROVE WorktreeInv'
  <2>1. ASSUME Fail PROVE WorktreeInv'
    BY <1>2, <2>1, WorktreeFrame DEF Fail, Answer, files, ledger
  <2>2. CASE Create
    BY <1>2, <2>2 DEF Create, WorktreeInv, BoundWorktreeComplete, ledger
  <2>3. CASE FillWorktree
    BY <1>2, <2>3 DEF FillWorktree, WorktreeInv, BoundWorktreeComplete, ledger
  <2>4. CASE FillFails
    BY <1>2, <2>4 DEF FillFails, Answer, WorktreeInv, BoundWorktreeComplete, ledger
  <2>5. CASE Bind
    BY <1>2, <2>5 DEF Bind, Answer, WorktreeInv, BoundWorktreeComplete
  <2>6. CASE \E handlerOp \in {"stage", "review", "verify", "release"} : Begin(handlerOp)
    BY <1>2, <2>6, WorktreeFrame DEF Begin, files, ledger
  <2>7. CASE Inspect
    <3>1. CASE Refuse \/ InspectFails
      BY <2>1, <3>1 DEF Refuse, InspectFails
    <3>2. CASE ~(Refuse \/ InspectFails)
      <4>1. UNCHANGED <<base, work, dir, bound, edits, op>>
        BY <2>7, <3>2 DEF Inspect, Validate, CompareTracked, ListUntracked, Preflight,
             StartIndex, ReadContent, Derive, Scanning, files, ledger
      <4>2. at \in {"validate", "compare", "size", "read"}
        BY <2>7, <3>2 DEF Inspect, Validate, CompareTracked, ListUntracked, Preflight,
             StartIndex, ReadContent, Derive
      <4>3. op # "create"
        BY <1>2, <4>2 DEF WorktreeInv
      <4> QED
        BY <1>2, <4>1, <4>3, WorktreeFrame
    <3> QED
      BY <3>1, <3>2
  <2>8. CASE \/ stageTransaction \/ getTransactionDiff \/ MaterializeSnapshot
             \/ removeMaterializedTree \/ recordVerification \/ releaseTransaction
             \/ PrepareCommit
    <3>1. /\ UNCHANGED <<base, work, dir, bound, edits>>
          /\ op' = op \/ op' = "none"
      BY <2>8 DEF stageTransaction, getTransactionDiff, MaterializeSnapshot,
           removeMaterializedTree, recordVerification, releaseTransaction, PrepareCommit,
           InspectAgain, Refuse, Fail, Answer, files, ledger
    <3>2. op # "create"
      BY <2>8 DEF stageTransaction, getTransactionDiff, MaterializeSnapshot,
           removeMaterializedTree, recordVerification, releaseTransaction, PrepareCommit,
           Inspected
    <3> QED
      BY <1>2, <3>1, <3>2, WorktreeFrame
  <2>9. CASE Revise
    BY <1>2, <2>9, WorktreeFrame DEF Revise, files, handler
  <2>10. CASE Discard
    BY <1>2, <2>10 DEF Discard, WorktreeInv, BoundWorktreeComplete, handler, ledger
  <2>11. CASE Crash
    BY <1>2, <2>11, WorktreeFrame DEF Crash, Answer, files, ledger
  <2>12. CASE Writer
    <3>1. bound /\ bound' = bound /\ edits' = edits + 1 /\ op' = op
      BY <2>12 DEF Writer, Edit, Ignore, MoveHead, Written, Noticed, ledger
    <3> QED
      BY <1>2, <3>1 DEF WorktreeInv, BoundWorktreeComplete
  <2>13. CASE UNCHANGED vars
    BY <1>2, <2>13, WorktreeFrame DEF vars, files, handler, ledger
  <2> QED
    BY <1>2, <2>2, <2>3, <2>4, <2>5, <2>6, <2>7, <2>8, <2>9, <2>10, <2>11, <2>12, <2>13
       DEF Next
<1>3. WorktreeInv => BoundWorktreeComplete
  BY DEF WorktreeInv
<1> QED
  BY <1>1, <1>2, <1>3, StageCorrect, PTL DEF Spec

-----------------------------------------------------------------------------
(* An inspection: what it has charged, and what it has found if the worktree *)
(* was left alone.                                                           *)

Trees == [Paths -> Entries]
Operations == {"add", "modify", "delete"}
Changes == [path : Paths, operation : Operations]
ScanRecord ==
  [todo : SUBSET Paths, changes : SUBSET Changes, index : Trees,
   used : 0..MaxTotalChangedBytes, quiet : BOOLEAN]

Changed == {c.path : c \in scan.changes}
Deleted == {c.path : c \in {d \in scan.changes : d.operation = "delete"}}

TreesInv ==
  /\ base \in BaseTrees
  /\ work \in Trees /\ WellFormed(work)
  /\ snapshot.tree \in Trees /\ WellFormed(snapshot.tree)
  /\ dir \in {"none", "partial", "ready"}
  /\ attempt \in 1..MaxAttempts
  /\ scan \in ScanRecord /\ WellFormed(scan.index)

BaseSizes == [p \in Paths |-> base[p].size]

\* The bytes before the changes, and those after them as far as they are read.
ReadSizes ==
  [p \in Paths |-> base[p].size + (IF p \in scan.todo THEN 0 ELSE scan.index[p].size)]

\* What is charged covers what was measured, then what was read.
ChargedInv ==
  /\ at = "compare" =>
       /\ scan.todo \subseteq Present(base)
       /\ Changed \subseteq Present(base) \ scan.todo
  /\ at = "size" =>
       /\ scan.todo \subseteq Changed
       /\ SumFunctionOnSet(BaseSizes, Changed \ scan.todo) <= scan.used
  /\ at = "read" =>
       /\ scan.todo \subseteq Changed \ Deleted
       /\ \A p \in Deleted : scan.index[p] = Absent
       /\ SumFunctionOnSet(ReadSizes, Changed) <= scan.used

\* The changes to path p that the worktree holds have been found.
Found(p) ==
  /\ p \in Changed <=> Stageable[p] # base[p]
  /\ p \in Deleted <=> p \in Changed /\ work[p] = Absent
  /\ p \in Changed \ Deleted => work[p].mode \in effectMode

QuietInv ==
  scan.quiet /\ ~LinkedDirectory =>
    /\ at = "compare" => \A p \in Present(base) \ scan.todo : Found(p)
    /\ at \in {"size", "read"} => \A p \in Paths : Found(p)
    /\ at = "read" => \A p \in Paths \ scan.todo : scan.index[p] = Stageable[p]
    /\ at = "inspected" => snapshot.tree = Stageable

InspectionInv == TreesInv /\ ChargedInv /\ QuietInv

-----------------------------------------------------------------------------
(* Paths and trees *)

LEMMA PathsFinite == IsFiniteSet(Paths)
<1>1. Order \in [1..Len(Order) -> Paths] /\ Len(Order) \in Nat
  BY StageAssumption
<1>2. \A p \in Paths : \E i \in 1..Len(Order) : Order[i] = p
  BY <1>1, StageAssumption DEF ToSet
<1>3. Order \in Surjection(1..Len(Order), Paths)
  BY <1>1, <1>2 DEF Surjection
<1> QED
  BY <1>1, <1>3, FS_NatSurjection DEF ExistsSurjection

LEMMA FirstIn ==
  ASSUME NEW S \in SUBSET Paths, S # {}
  PROVE  First(S) \in S
<1> DEFINE D == {i \in 1..Len(Order) : Order[i] \in S}
<1>1. Order \in [1..Len(Order) -> Paths] /\ Len(Order) \in Nat /\ DOMAIN Order = 1..Len(Order)
  BY StageAssumption
<1>2. D \in SUBSET Nat /\ D # {}
  BY <1>1, StageAssumption DEF ToSet
<1>3. PICK m \in D : \A k \in 0..(m-1) : k \notin D
  <2> HIDE DEF D
  <2> QED
    BY <1>2, Least
<1>4. m \in DOMAIN Order /\ Order[m] \in S /\ \A j \in 1..(m-1) : Order[j] \notin S
  BY <1>1, <1>3
<1> QED
  BY <1>4 DEF First

LEMMA EmptyTree == NoTree \in Trees /\ WellFormed(NoTree)
  BY StageAssumption DEF NoTree, Trees, WellFormed, Present

\* Part of a tree is a tree.
LEMMA PartOfTree ==
  ASSUME NEW tree, WellFormed(tree), NEW part, \A p \in Paths : part[p] \in {tree[p], Absent}
  PROVE  WellFormed(part)
  BY DEF WellFormed, Present

LEMMA PutTree ==
  ASSUME NEW tree \in Trees, WellFormed(tree), NEW p \in Paths, NEW entry \in Entries
  PROVE  Put(tree, p, entry) \in Trees /\ WellFormed(Put(tree, p, entry))
<1> DEFINE t == Put(tree, p, entry)
<1>1. \A q \in Paths : t[q] = IF q = p THEN entry
                              ELSE IF entry # Absent /\ Clash(p, q) THEN Absent ELSE tree[q]
  BY DEF Put
<1>2. t \in Trees
  BY StageAssumption DEF Put, Trees
<1>3. ~Clash(p, p) /\ \A q : Clash(p, q) <=> Clash(q, p)
  BY DEF Clash, IsStrictPrefix
<1> HIDE DEF t
<1>4. ASSUME NEW q \in Present(t), NEW r \in Present(t), Clash(q, r) PROVE FALSE
  <2>1. q \in Paths /\ r \in Paths /\ t[q] # Absent /\ t[r] # Absent
    BY DEF Present
  <2>2. CASE q = p
    BY <1>1, <1>3, <1>4, <2>1, <2>2
  <2>3. CASE r = p
    BY <1>1, <1>3, <1>4, <2>1, <2>3
  <2>4. CASE q # p /\ r # p
    <3>1. q \in Present(tree) /\ r \in Present(tree)
      BY <1>1, <2>1, <2>4 DEF Present
    <3> QED
      BY <1>4, <3>1 DEF WellFormed
  <2> QED
    BY <2>2, <2>3, <2>4
<1> QED
  BY <1>2, <1>4 DEF t, WellFormed

LEMMA LstatIs ==
  ASSUME NEW tree \in Trees, NEW p \in Paths
  PROVE  /\ Lstat(tree, p) \in Entries
         /\ (\A q \in Paths : IsStrictPrefix(q, p) => tree[q].mode # Link) =>
              Lstat(tree, p) = tree[p]
<1> DEFINE links == {q \in Paths : IsStrictPrefix(q, p) /\ tree[q].mode = Link}
           q0 == CHOOSE q \in links : TRUE
           target == tree[q0].to \o SubSeq(p, Len(q0) + 1, Len(p))
<1>1. Lstat(tree, p) = IF links = {} THEN tree[p]
                       ELSE IF target \in Paths THEN tree[target] ELSE Absent
  BY DEF Lstat
<1> HIDE DEF target
<1>2. tree[p] \in Entries /\ Absent \in Entries /\ \A q \in Paths : tree[q] \in Entries
  BY StageAssumption DEF Trees
<1> QED
  BY <1>1, <1>2

\* Nothing lies below a link of the worktree.
LEMMA LstatPresent ==
  ASSUME NEW tree \in Trees, WellFormed(tree), NEW p \in Present(tree)
  PROVE  Lstat(tree, p) = tree[p]
<1>1. ASSUME NEW q \in Paths, IsStrictPrefix(q, p), tree[q].mode = Link PROVE FALSE
  <2>1. q \in Present(tree)
    BY <1>1 DEF Present, Link, Absent
  <2> QED
    BY <1>1, <2>1 DEF WellFormed, Clash
<1> QED
  BY <1>1, LstatIs DEF Present

-----------------------------------------------------------------------------
(* The steps of an inspection *)

LEMMA NoScanIs ==
  /\ NoScan \in ScanRecord /\ WellFormed(NoScan.index) /\ NoSnapshot.tree = NoTree
  /\ NoScan.changes = {} /\ NoScan.used = 0
<1>1. NoTree \in Trees /\ WellFormed(NoTree) /\ 0 \in 0..MaxTotalChangedBytes
  BY EmptyTree, StageAssumption
<1> QED
  BY <1>1 DEF NoScan, ScanRecord, NoSnapshot

\* Steps that leave trees trees.
LEMMA TreesFrame ==
  ASSUME TreesInv, base' = base, work' \in Trees, WellFormed(work'),
         snapshot' = snapshot \/ snapshot' = NoSnapshot, scan' = scan \/ scan' = NoScan,
         dir' \in {"none", "partial", "ready"}, attempt' \in 1..MaxAttempts
  PROVE  TreesInv'
<1>1. snapshot'.tree \in Trees /\ WellFormed(snapshot'.tree)
  BY NoScanIs, EmptyTree DEF TreesInv
<1>2. scan' \in ScanRecord /\ WellFormed(scan'.index)
  BY NoScanIs DEF TreesInv
<1> QED
  BY <1>1, <1>2 DEF TreesInv

Inspecting == {"compare", "size", "read", "inspected"}

\* Outside an inspection there is nothing to say about it.
LEMMA Elsewhere ==
  ASSUME TreesInv', at' \notin Inspecting
  PROVE  InspectionInv'
  BY DEF InspectionInv, ChargedInv, QuietInv, Inspecting

\* A handler that ends.
LEMMA AnswerKeeps ==
  ASSUME InspectionInv, Answer, base' = base, work' \in Trees, WellFormed(work'),
         dir' \in {"none", "partial", "ready"}, attempt' = attempt
  PROVE  InspectionInv'
<1>1. TreesInv'
  BY TreesFrame DEF InspectionInv, TreesInv, Answer
<1> QED
  BY <1>1, Elsewhere DEF Answer, Inspecting

LEMMA FailKeeps ==
  ASSUME InspectionInv, Fail
  PROVE  InspectionInv'
  BY AnswerKeeps DEF InspectionInv, TreesInv, Fail, files, ledger

\* Worktrees that are made, filled in part and removed.
LEMMA MadeKeeps ==
  ASSUME InspectionInv, Create \/ FillWorktree \/ FillFails \/ Bind \/ Discard
  PROVE  InspectionInv'
<1>0. /\ base \in Trees /\ WellFormed(base) /\ work \in Trees /\ WellFormed(work)
      /\ dir \in {"none", "partial", "ready"} /\ attempt \in 1..MaxAttempts /\ TreesInv
  BY StageAssumption DEF InspectionInv, TreesInv, Trees
<1>1. ASSUME NEW part, materializeTreeFiles(base, part)
      PROVE  part \in Trees /\ WellFormed(part)
  <2>1. PICK S \in SUBSET Present(base) :
          part = [p \in Paths |-> IF p \in S THEN base[p] ELSE Absent]
    BY <1>1 DEF materializeTreeFiles
  <2>2. \A p \in Paths : part[p] \in {base[p], Absent}
    BY <2>1
  <2>3. part \in Trees
    BY <1>0, <2>1, StageAssumption DEF Trees
  <2> QED
    BY <1>0, <2>2, <2>3, PartOfTree
<1>2. CASE Create
  <2>1. TreesInv'
    BY <1>0, <1>2, TreesFrame DEF Create, ledger
  <2> QED
    BY <1>2, <2>1, Elsewhere DEF Create, Inspecting
<1>3. CASE FillWorktree
  <2>1. TreesInv'
    BY <1>0, <1>3, TreesFrame DEF FillWorktree, ledger
  <2> QED
    BY <1>3, <2>1, Elsewhere DEF FillWorktree, Inspecting
<1>4. CASE FillFails
  <2>1. work' \in Trees /\ WellFormed(work') /\ dir' \in {"none", "partial", "ready"}
    BY <1>0, <1>1, <1>4, EmptyTree DEF FillFails
  <2> QED
    BY <1>4, <2>1, AnswerKeeps DEF FillFails, ledger
<1>5. CASE Bind
  <2>1. work' \in Trees /\ WellFormed(work') /\ dir' \in {"none", "partial", "ready"}
    BY <1>0, <1>5, EmptyTree DEF Bind
  <2> QED
    BY <1>5, <2>1, AnswerKeeps DEF Bind
<1>6. CASE Discard
  <2>1. TreesInv'
    BY <1>0, <1>6, TreesFrame, EmptyTree DEF Discard, handler, ledger
  <2> QED
    BY <1>6, <2>1, Elsewhere DEF Discard, handler, Inspecting
<1> QED
  BY <1>2, <1>3, <1>4, <1>5, <1>6

\* The steps of handlers outside their inspections.
LEMMA AroundKeeps ==
  ASSUME InspectionInv,
         \/ \E handlerOp \in {"stage", "review", "verify", "release"} : Begin(handlerOp)
         \/ InspectFails \/ stageTransaction \/ getTransactionDiff \/ MaterializeSnapshot
         \/ removeMaterializedTree \/ recordVerification \/ releaseTransaction
         \/ PrepareCommit \/ Revise \/ Crash
  PROVE  InspectionInv'
<1>0. /\ work \in Trees /\ WellFormed(work) /\ TreesInv
      /\ dir \in {"none", "partial", "ready"} /\ attempt \in 1..MaxAttempts
  BY DEF InspectionInv, TreesInv
<1>1. /\ UNCHANGED <<base, work, dir>>
      /\ \/ Answer /\ attempt' = attempt
         \/ /\ at' \notin Inspecting /\ (scan' = scan \/ scan' = NoScan) /\ snapshot' = snapshot
            /\ attempt' \in 1..MaxAttempts
  <2>1. CASE Revise
    <3>1. attempt' \in 1..MaxAttempts
      BY <1>0, <2>1, StageAssumption DEF Revise
    <3> QED
      BY <2>1, <3>1 DEF Revise, files, handler, Inspecting
  <2>2. CASE ~Revise
    BY <1>0, <2>2 DEF Begin, InspectFails, stageTransaction, getTransactionDiff,
       MaterializeSnapshot, removeMaterializedTree, recordVerification, releaseTransaction,
       PrepareCommit, Crash, InspectAgain, Refuse, Fail, files, ledger, Inspecting
  <2> QED
    BY <2>1, <2>2
<1>2. CASE Answer /\ attempt' = attempt
  BY <1>0, <1>1, <1>2, AnswerKeeps
<1>3. CASE ~(Answer /\ attempt' = attempt)
  <2>1. TreesInv'
    BY <1>0, <1>1, <1>3, TreesFrame
  <2> QED
    BY <1>1, <1>3, <2>1, Elsewhere
<1> QED
  BY <1>2, <1>3

\* The writer ends what is known of a quiet worktree and nothing else.
LEMMA WriterKeeps ==
  ASSUME InspectionInv, Writer
  PROVE  InspectionInv'
<1>1. /\ UNCHANGED <<base, dir, attempt, at, snapshot>>
      /\ scan' = [scan EXCEPT !.quiet = FALSE]
      /\ work' = work \/ \E p \in Paths, entry \in Entries : work' = Put(work, p, entry)
  BY DEF Writer, Edit, Ignore, MoveHead, Noticed, ledger
<1>2. TreesInv /\ ChargedInv /\ scan \in ScanRecord
  BY DEF InspectionInv, TreesInv
<1>3. /\ scan' \in ScanRecord /\ scan'.todo = scan.todo /\ scan'.changes = scan.changes
      /\ scan'.index = scan.index /\ scan'.used = scan.used /\ ~scan'.quiet
  BY <1>1, <1>2 DEF ScanRecord
<1>4. work' \in Trees /\ WellFormed(work')
  BY <1>1, <1>2, PutTree DEF TreesInv
<1>5. TreesInv'
  BY <1>1, <1>2, <1>3, <1>4 DEF TreesInv
<1>6. Changed' = Changed /\ Deleted' = Deleted
  BY <1>3 DEF Changed, Deleted
<1>7. BaseSizes' = BaseSizes /\ ReadSizes' = ReadSizes
  BY <1>1, <1>3 DEF BaseSizes, ReadSizes
<1>8. ChargedInv'
  BY <1>1, <1>2, <1>3, <1>6, <1>7 DEF ChargedInv, Present
<1>9. QuietInv'
  BY <1>3 DEF QuietInv
<1> QED
  BY <1>5, <1>8, <1>9 DEF InspectionInv

LEMMA ValidateKeeps ==
  ASSUME InspectionInv, Validate
  PROVE  InspectionInv'
<1>1. CASE Refuse
  BY <1>1, FailKeeps DEF Refuse
<1>2. CASE ~Refuse
  <2>1. /\ UNCHANGED <<base, work, dir, attempt, snapshot>> /\ at' = "compare"
        /\ scan' = [NoScan EXCEPT !.todo = Present(base)]
    BY <1>2 DEF Validate, files, ledger
  <2>2. Present(base) \in SUBSET Paths
    BY DEF Present
  <2>3. /\ scan' \in ScanRecord /\ WellFormed(scan'.index) /\ scan'.todo = Present(base)
        /\ scan'.changes = {}
    BY <2>1, <2>2, NoScanIs DEF ScanRecord
  <2>4. TreesInv'
    BY <2>1, <2>3 DEF InspectionInv, TreesInv
  <2>5. Changed' = {}
    BY <2>3 DEF Changed
  <2>6. Present(base)' = Present(base)
    BY <2>1 DEF Present
  <2>7. ChargedInv'
    BY <2>1, <2>3, <2>5, <2>6 DEF ChargedInv
  <2>8. QuietInv'
    BY <2>1, <2>3, <2>6 DEF QuietInv
  <2> QED
    BY <2>4, <2>7, <2>8 DEF InspectionInv
<1> QED
  BY <1>1, <1>2

LEMMA SameFiles ==
  ASSUME UNCHANGED <<base, work, ignored>>
  PROVE  /\ Stageable' = Stageable /\ (LinkedDirectory' <=> LinkedDirectory)
         /\ BaseSizes' = BaseSizes /\ Present(base)' = Present(base)
<1>1. Stageable' = Stageable /\ BaseSizes' = BaseSizes /\ Present(base)' = Present(base)
  BY DEF Stageable, BaseSizes, Present
<1>2. LinkedDirectory' <=> LinkedDirectory
  BY <1>1 DEF LinkedDirectory
<1> QED
  BY <1>1, <1>2

\* A step of an inspection that goes on.
LEMMA ScanningKeeps ==
  ASSUME InspectionInv, NEW where, Scanning(where),
         scan' \in ScanRecord, WellFormed(scan'.index), snapshot' = snapshot
  PROVE  /\ TreesInv' /\ UNCHANGED <<base, work, ignored>>
         /\ Stageable' = Stageable /\ (LinkedDirectory' <=> LinkedDirectory)
         /\ BaseSizes' = BaseSizes /\ Present(base)' = Present(base)
<1>1. UNCHANGED <<base, work, ignored, dir, attempt>>
  BY DEF Scanning, files, ledger
<1>2. TreesInv'
  BY <1>1 DEF InspectionInv, TreesInv
<1> QED
  BY <1>1, <1>2, SameFiles

LEMMA DeletedChanged == Deleted \subseteq Changed
  BY DEF Deleted, Changed

LEMMA ChangeAdded ==
  ASSUME NEW p, NEW o, scan'.changes = scan.changes \cup {Change(p, o)}
  PROVE  /\ Changed' = Changed \cup {p}
         /\ Deleted' = IF o = "delete" THEN Deleted \cup {p} ELSE Deleted
<1>1. Change(p, o).path = p /\ Change(p, o).operation = o
  BY DEF Change
<1> QED
  BY <1>1 DEF Changed, Deleted

LEMMA CompareKeeps ==
  ASSUME InspectionInv, CompareTracked
  PROVE  InspectionInv'
<1> DEFINE p == First(scan.todo)
           found == IF Lstat(work, p) = Absent THEN Absent ELSE rootedFileIdentity(p)
           seen == IF found = Absent THEN scan.changes \cup {Change(p, "delete")}
                      ELSE IF found # base[p] THEN scan.changes \cup {Change(p, "modify")}
                      ELSE scan.changes
<1>1. CASE Refuse
  BY <1>1, FailKeeps DEF Refuse
<1>2. CASE ~Refuse
  <2>1. /\ Scanning("compare") /\ Go("compare") /\ at = "compare" /\ scan.todo # {}
        /\ scan' = [scan EXCEPT !.todo = @ \ {p}, !.changes = seen]
        /\ found.mode \in effectMode \cup {"absent"}
    BY <1>2 DEF CompareTracked
  <2>2. found = Lstat(work, p)
    BY DEF rootedFileIdentity
  <2> HIDE DEF found
  <2>3. /\ scan \in ScanRecord /\ scan.todo \in SUBSET Paths /\ scan.todo \subseteq Present(base)
        /\ Changed \subseteq Present(base) \ scan.todo /\ work \in Trees /\ base \in BaseTrees
        /\ WellFormed(scan.index)
    BY <2>1 DEF InspectionInv, TreesInv, ScanRecord, ChargedInv
  <2>4. p \in scan.todo /\ p \in Paths /\ base[p] # Absent /\ p \notin Changed
    BY <2>1, <2>3, FirstIn DEF Present
  <2>5. found \in Entries
    BY <2>2, <2>3, <2>4, LstatIs
  <2> HIDE DEF p
  <2>6. seen \in SUBSET Changes
    BY <2>3, <2>4 DEF ScanRecord, Changes, Change, Operations
  <2>7. /\ \/ found = Absent /\ seen = scan.changes \cup {Change(p, "delete")}
           \/ /\ found \notin {Absent, base[p]}
              /\ seen = scan.changes \cup {Change(p, "modify")}
           \/ found # Absent /\ found = base[p] /\ seen = scan.changes
    OBVIOUS
  <2> HIDE DEF seen
  <2>8. /\ scan' \in ScanRecord /\ scan'.todo = scan.todo \ {p} /\ scan'.changes = seen
        /\ scan'.index = scan.index /\ scan'.quiet = scan.quiet
    BY <2>1, <2>3, <2>6 DEF ScanRecord
  <2>9. /\ TreesInv' /\ UNCHANGED <<base, work, ignored>>
        /\ Stageable' = Stageable /\ (LinkedDirectory' <=> LinkedDirectory)
        /\ Present(base)' = Present(base) /\ at' = "compare"
    BY <2>1, <2>3, <2>8, ScanningKeeps DEF Go
  <2>10. \/ found = Absent /\ Changed' = Changed \cup {p} /\ Deleted' = Deleted \cup {p}
         \/ found \notin {Absent, base[p]} /\ Changed' = Changed \cup {p} /\ Deleted' = Deleted
         \/ found # Absent /\ found = base[p] /\ Changed' = Changed /\ Deleted' = Deleted
    <3>1. CASE found = Absent /\ seen = scan.changes \cup {Change(p, "delete")}
      BY <2>8, <3>1, ChangeAdded
    <3>2. CASE /\ found \notin {Absent, base[p]}
               /\ seen = scan.changes \cup {Change(p, "modify")}
      <4>1. Changed' = Changed \cup {p} /\ Deleted' = Deleted
        BY <2>8, <3>2, ChangeAdded
      <4> QED
        BY <3>2, <4>1
    <3>3. CASE found # Absent /\ found = base[p] /\ seen = scan.changes
      <4>1. Changed' = Changed /\ Deleted' = Deleted
        BY <2>8, <3>3 DEF Changed, Deleted
      <4> QED
        BY <3>3, <4>1
    <3> QED
      BY <2>7, <3>1, <3>2, <3>3
  <2>11. ChargedInv'
    BY <2>3, <2>4, <2>8, <2>9, <2>10 DEF ChargedInv
  <2>12. QuietInv'
    <3> SUFFICES ASSUME scan.quiet, ~LinkedDirectory, NEW q \in Present(base) \ (scan.todo \ {p})
                 PROVE  Found(q)'
      BY <2>8, <2>9 DEF QuietInv
    <3>1. q \in Paths
      BY DEF Present
    <3>2. CASE q # p
      <4>1. Found(q)
        BY <2>1, <3>2 DEF InspectionInv, QuietInv
      <4>2. /\ q \in Changed' <=> q \in Changed
            /\ q \in Deleted' <=> q \in Deleted
        BY <2>10, <3>2
      <4> QED
        BY <2>9, <4>1, <4>2 DEF Found
    <3>3. CASE q = p
      <4>1. found = work[p]
        <5>1. \A r \in Paths : IsStrictPrefix(r, p) => work[r].mode # Link
          BY <3>3 DEF LinkedDirectory
        <5> QED
          BY <2>2, <2>3, <2>4, <5>1, LstatIs
      <4>2. Stageable[p] = work[p]
        BY <2>4 DEF Stageable
      <4>3. p \notin Deleted
        BY <2>4, DeletedChanged
      <4>4. found # Absent => found.mode \in effectMode
        BY <2>1, <2>5, StageAssumption
      <4> QED
        BY <2>4, <2>9, <2>10, <3>3, <4>1, <4>2, <4>3, <4>4 DEF Found
    <3> QED
      BY <3>2, <3>3
  <2> QED
    BY <2>9, <2>11, <2>12 DEF InspectionInv
<1> QED
  BY <1>1, <1>2

LEMMA UntrackedKeeps ==
  ASSUME InspectionInv, ListUntracked
  PROVE  InspectionInv'
<1> DEFINE others == {p \in Paths : /\ work[p].mode \in effectMode /\ base[p] = Absent
                                    /\ p \notin ignored}
           added == {Change(p, "add") : p \in others}
           seen == scan.changes \cup added
           paths == {c.path : c \in seen}
<1>1. CASE Refuse
  BY <1>1, FailKeeps DEF Refuse
<1>2. CASE ~Refuse
  <2>1. /\ Scanning("compare") /\ Go("size") /\ at = "compare" /\ scan.todo = {}
        /\ scan' = [scan EXCEPT !.changes = seen, !.todo = paths]
    BY <1>2 DEF ListUntracked
  <2>2. /\ scan \in ScanRecord /\ Changed \subseteq Present(base) /\ WellFormed(scan.index)
        /\ scan.used \in 0..MaxTotalChangedBytes
    BY <2>1 DEF InspectionInv, TreesInv, ScanRecord, ChargedInv
  <2>3. /\ seen \in SUBSET Changes /\ paths \in SUBSET Paths
    BY <2>2 DEF ScanRecord, Changes, Change, Operations
  <2>4. paths = Changed \cup others
    <3>1. \A q : q \in others <=> \E c \in added : c.path = q
      <4>1. \A q : Change(q, "add").path = q
        BY DEF Change
      <4> HIDE DEF others
      <4> QED
        BY <4>1
    <3>2. \A q : q \in paths <=> (\E c \in scan.changes : c.path = q) \/ \E c \in added : c.path = q
      <4> HIDE DEF added
      <4> QED
        OBVIOUS
    <3>3. \A q : q \in Changed <=> \E c \in scan.changes : c.path = q
      BY DEF Changed
    <3> HIDE DEF paths, others, added
    <3> QED
      BY <3>1, <3>2, <3>3
  <2>5. {c.path : c \in {d \in seen : d.operation = "delete"}} = Deleted
    <3>1. \A c \in added : c.operation # "delete"
      BY DEF Change
    <3>2. {d \in seen : d.operation = "delete"} = {d \in scan.changes : d.operation = "delete"}
      BY <3>1
    <3> QED
      BY <3>2 DEF Deleted
  <2> HIDE DEF seen, paths
  <2>6. /\ scan' \in ScanRecord /\ scan'.todo = paths /\ scan'.changes = seen
        /\ scan'.index = scan.index /\ scan'.quiet = scan.quiet /\ scan'.used = scan.used
    BY <2>1, <2>2, <2>3 DEF ScanRecord
  <2>7. /\ TreesInv' /\ UNCHANGED <<base, work, ignored>>
        /\ Stageable' = Stageable /\ (LinkedDirectory' <=> LinkedDirectory)
        /\ BaseSizes' = BaseSizes /\ Present(base)' = Present(base) /\ at' = "size"
    BY <2>1, <2>2, <2>6, ScanningKeeps DEF Go
  <2>8. Changed' = paths /\ Deleted' = Deleted
    BY <2>5, <2>6 DEF Changed, Deleted, paths
  <2>9. ChargedInv'
    <3>1. Changed' \ scan'.todo = {}
      BY <2>6, <2>8
    <3>2. BaseSizes \in [Paths -> Nat]
      BY StageAssumption DEF InspectionInv, TreesInv, BaseSizes
    <3>3. SumFunctionOnSet(BaseSizes', Changed' \ scan'.todo) <= scan'.used
      BY <2>2, <2>6, <2>7, <3>1, <3>2, SumStep, PathsFinite
    <3> QED
      BY <2>6, <2>7, <2>8, <3>3 DEF ChargedInv
  <2>10. QuietInv'
    <3> SUFFICES ASSUME scan.quiet, ~LinkedDirectory, NEW p \in Paths
                 PROVE  Found(p)'
      BY <2>6, <2>7 DEF QuietInv
    <3>1. CASE base[p] # Absent
      <4>1. Found(p)
        BY <2>1, <3>1 DEF InspectionInv, QuietInv, Present
      <4>2. p \in Changed' <=> p \in Changed
        BY <2>4, <2>8, <3>1
      <4> QED
        BY <2>7, <2>8, <4>1, <4>2 DEF Found
    <3>2. CASE base[p] = Absent
      <4>1. p \notin Changed /\ p \notin Deleted
        BY <2>2, <3>2, DeletedChanged DEF Present
      <4>2. Stageable[p] = IF work[p].mode \in effectMode /\ p \notin ignored
                           THEN work[p] ELSE Absent
        BY <3>2 DEF Stageable
      <4>3. work[p].mode \in effectMode => work[p] # Absent
        BY DEF effectMode, Regular, Link, Absent
      <4>4. p \in Changed' <=> work[p].mode \in effectMode /\ p \notin ignored
        BY <2>4, <2>8, <3>2, <4>1
      <4> QED
        BY <2>7, <2>8, <3>2, <4>1, <4>2, <4>3, <4>4 DEF Found
    <3> QED
      BY <3>1, <3>2
  <2> QED
    BY <2>7, <2>9, <2>10 DEF InspectionInv
<1> QED
  BY <1>1, <1>2

LEMMA SizesAre ==
  ASSUME InspectionInv
  PROVE  /\ BaseSizes \in [Paths -> Nat] /\ ReadSizes \in [Paths -> Nat]
         /\ \A p \in Paths : /\ BaseSizes[p] = base[p].size /\ base[p].size \in Nat
                             /\ scan.index[p].size \in Nat
<1>1. /\ \A p \in Paths : base[p] \in Entries
      /\ \A p \in Paths : scan.index[p] \in Entries
  BY StageAssumption DEF InspectionInv, TreesInv, ScanRecord, Trees
<1>2. \A p \in Paths : base[p].size \in Nat /\ scan.index[p].size \in Nat
  BY <1>1, StageAssumption
<1>3. BaseSizes \in [Paths -> Nat] /\ \A p \in Paths : BaseSizes[p] = base[p].size
  BY <1>2 DEF BaseSizes
<1>4. ReadSizes \in [Paths -> Nat]
  BY <1>2 DEF ReadSizes
<1> QED
  BY <1>2, <1>3, <1>4

LEMMA ChangedPaths ==
  ASSUME InspectionInv
  PROVE  Changed \in SUBSET Paths /\ scan.todo \in SUBSET Paths
  BY DEF InspectionInv, TreesInv, ScanRecord, Changes, Changed

LEMMA PreflightKeeps ==
  ASSUME InspectionInv, Preflight
  PROVE  InspectionInv'
<1> DEFINE p == First(scan.todo)
           found == Lstat(work, p)
           after == IF Operation(p) = "delete" THEN 0 ELSE found.size
<1>1. CASE Refuse
  BY <1>1, FailKeeps DEF Refuse
<1>2. CASE ~Refuse
  <2>1. /\ Scanning("size") /\ Go("size") /\ at = "size" /\ scan.todo # {}
        /\ consumeFile(scan.used, base[p].size)
        /\ consumeFile(scan.used + base[p].size, after)
        /\ scan' = [scan EXCEPT !.todo = @ \ {p}, !.used = @ + base[p].size + after]
    BY <1>2 DEF Preflight
  <2>2. /\ scan \in ScanRecord /\ WellFormed(scan.index) /\ work \in Trees
        /\ scan.used \in 0..MaxTotalChangedBytes /\ MaxTotalChangedBytes \in Nat
        /\ scan.todo \subseteq Changed
        /\ SumFunctionOnSet(BaseSizes, Changed \ scan.todo) <= scan.used
    BY <2>1, StageAssumption DEF InspectionInv, TreesInv, ScanRecord, ChargedInv
  <2>3. p \in scan.todo /\ p \in Paths /\ base[p].size \in Nat
    BY <2>1, ChangedPaths, FirstIn, SizesAre
  <2>4. after \in Nat
    BY <2>2, <2>3, LstatIs, StageAssumption
  <2> HIDE DEF after, p
  <2>5. PICK u \in 0..MaxTotalChangedBytes : u = scan.used + base[p].size + after
    BY <2>1, <2>2, <2>3, <2>4 DEF consumeFile
  <2>6. scan' = [scan EXCEPT !.todo = @ \ {p}, !.used = u]
    BY <2>1, <2>5
  <2>7. /\ scan' \in ScanRecord /\ scan'.todo = scan.todo \ {p} /\ scan'.used = u
        /\ scan'.changes = scan.changes /\ scan'.index = scan.index /\ scan'.quiet = scan.quiet
    BY <2>2, <2>6 DEF ScanRecord
  <2>8. /\ TreesInv' /\ UNCHANGED <<base, work, ignored>>
        /\ Stageable' = Stageable /\ (LinkedDirectory' <=> LinkedDirectory)
        /\ BaseSizes' = BaseSizes /\ at' = "size"
    BY <2>1, <2>2, <2>7, ScanningKeeps DEF Go
  <2>9. Changed' = Changed /\ Deleted' = Deleted
    BY <2>7 DEF Changed, Deleted
  <2>10. ChargedInv'
    <3> DEFINE S == Changed \ scan'.todo
    <3>1. S \in SUBSET Paths /\ p \in S /\ S \ {p} = Changed \ scan.todo /\ S \ {p} \in SUBSET Paths
      BY <2>2, <2>3, <2>7, ChangedPaths
    <3>2. /\ SumFunctionOnSet(BaseSizes, S) = BaseSizes[p] + SumFunctionOnSet(BaseSizes, S \ {p})
          /\ SumFunctionOnSet(BaseSizes, S \ {p}) \in Nat /\ BaseSizes[p] = base[p].size
      BY <2>3, <3>1, SumStep, PathsFinite, SizesAre
    <3>3. SumFunctionOnSet(BaseSizes, S) <= u
      BY <2>2, <2>3, <2>4, <2>5, <3>1, <3>2
    <3> QED
      BY <2>2, <2>7, <2>8, <2>9, <3>3 DEF ChargedInv
  <2>11. QuietInv'
    BY <2>1, <2>7, <2>8, <2>9 DEF InspectionInv, QuietInv, Found
  <2> QED
    BY <2>8, <2>10, <2>11 DEF InspectionInv
<1> QED
  BY <1>1, <1>2

LEMMA IndexKeeps ==
  ASSUME InspectionInv, StartIndex
  PROVE  InspectionInv'
<1> DEFINE i == [p \in Paths |-> IF p \in Deleted THEN Absent ELSE base[p]]
           u == SumFunctionOnSet(BaseSizes, Changed)
<1>1. /\ Scanning("size") /\ Go("read") /\ at = "size" /\ scan.todo = {}
      /\ scan' = [scan EXCEPT !.todo = Changed \ Deleted, !.index = i, !.used = u]
  BY DEF StartIndex, Changed, Deleted, BaseSizes
<1>2. /\ scan \in ScanRecord /\ scan.used \in 0..MaxTotalChangedBytes
      /\ MaxTotalChangedBytes \in Nat /\ base \in Trees /\ WellFormed(base)
      /\ SumFunctionOnSet(BaseSizes, Changed \ scan.todo) <= scan.used
  BY <1>1, StageAssumption DEF InspectionInv, TreesInv, ScanRecord, ChargedInv, Trees
<1>3. Changed \ scan.todo = Changed
  BY <1>1
<1>4. u \in Nat
  BY SumStep, PathsFinite, SizesAre, ChangedPaths
<1>5. u \in 0..MaxTotalChangedBytes
  BY <1>2, <1>3, <1>4
<1>6. i \in Trees /\ \A p \in Paths : i[p] = IF p \in Deleted THEN Absent ELSE base[p]
  BY <1>2, StageAssumption DEF Trees
<1>7. WellFormed(i)
  BY <1>2, <1>6, PartOfTree
<1>8. Changed \ Deleted \in SUBSET Paths
  BY ChangedPaths
<1> HIDE DEF i, u
<1>9. /\ scan' \in ScanRecord /\ scan'.todo = Changed \ Deleted /\ scan'.used = u
      /\ scan'.changes = scan.changes /\ scan'.index = i /\ scan'.quiet = scan.quiet
  BY <1>1, <1>2, <1>5, <1>6, <1>8 DEF ScanRecord
<1>10. /\ TreesInv' /\ UNCHANGED <<base, work, ignored>>
       /\ Stageable' = Stageable /\ (LinkedDirectory' <=> LinkedDirectory) /\ at' = "read"
  BY <1>1, <1>7, <1>9, ScanningKeeps DEF Go
<1>11. Changed' = Changed /\ Deleted' = Deleted
  BY <1>9 DEF Changed, Deleted
<1>12. ChargedInv'
  <2>1. \A p \in Deleted : i[p] = Absent
    BY <1>6, ChangedPaths, DeletedChanged
  <2>2. \A p \in Changed : ReadSizes'[p] = BaseSizes[p] /\ BaseSizes[p] \in Nat
    <3> TAKE p \in Changed
    <3>1. p \in Paths /\ base[p].size \in Nat /\ BaseSizes[p] = base[p].size
      BY ChangedPaths, SizesAre
    <3>2. ReadSizes'[p] = base[p].size + (IF p \in Changed \ Deleted THEN 0 ELSE i[p].size)
      BY <1>9, <1>10, <3>1 DEF ReadSizes
    <3>3. p \in Deleted => i[p].size = 0
      BY <2>1 DEF Absent
    <3> QED
      BY <3>1, <3>2, <3>3
  <2>3. ReadSizes' \in [Paths -> Nat]
    <3>1. \A p \in Paths : i[p].size \in Nat /\ base[p].size \in Nat
      BY <1>6, StageAssumption, SizesAre DEF Trees
    <3> QED
      BY <1>9, <1>10, <3>1 DEF ReadSizes
  <2>4. SumFunctionOnSet(ReadSizes', Changed) <= SumFunctionOnSet(BaseSizes, Changed)
    <3>1. \A p \in Changed : ReadSizes'[p] <= BaseSizes[p]
      BY <2>2
    <3>2. Changed \in SUBSET Changed /\ Changed \in SUBSET Paths /\ BaseSizes \in [Paths -> Nat]
      BY ChangedPaths, SizesAre
    <3> QED
      BY <2>3, <3>1, <3>2, SumMonotone, PathsFinite
  <2> QED
    BY <1>9, <1>10, <1>11, <2>1, <2>4 DEF ChargedInv, u
<1>13. QuietInv'
  <2> SUFFICES ASSUME scan.quiet, ~LinkedDirectory
               PROVE  /\ \A p \in Paths : Found(p)'
                      /\ \A p \in Paths \ (Changed \ Deleted) : i[p] = Stageable[p]
    BY <1>9, <1>10 DEF QuietInv
  <2>1. \A p \in Paths : Found(p)
    BY <1>1 DEF InspectionInv, QuietInv
  <2>2. \A p \in Paths : Found(p)'
    BY <1>10, <1>11, <2>1 DEF Found
  <2>3. ASSUME NEW p \in Paths \ (Changed \ Deleted) PROVE i[p] = Stageable[p]
    <3>1. CASE p \in Deleted
      <4>1. work[p] = Absent
        BY <2>1, <3>1 DEF Found
      <4> QED
        BY <1>6, <3>1, <4>1 DEF Stageable
    <3>2. CASE p \notin Deleted
      BY <1>6, <2>1, <3>2 DEF Found
    <3> QED
      BY <3>1, <3>2
  <2> QED
    BY <2>2, <2>3
<1> QED
  BY <1>10, <1>12, <1>13 DEF InspectionInv

LEMMA ReadKeeps ==
  ASSUME InspectionInv, ReadContent
  PROVE  InspectionInv'
<1> DEFINE p == First(scan.todo)
           found == Lstat(work, p)
           i == Put(scan.index, p, found)
<1>1. CASE Refuse
  BY <1>1, FailKeeps DEF Refuse
<1>2. CASE ~Refuse
  <2>1. /\ Scanning("read") /\ Go("read") /\ at = "read" /\ scan.todo # {}
        /\ consumeFile(scan.used, found.size)
        /\ scan' = [scan EXCEPT !.todo = @ \ {p}, !.used = @ + found.size, !.index = i]
    BY <1>2 DEF ReadContent
  <2>2. /\ scan \in ScanRecord /\ WellFormed(scan.index) /\ scan.index \in Trees
        /\ work \in Trees /\ WellFormed(work)
        /\ scan.used \in 0..MaxTotalChangedBytes /\ MaxTotalChangedBytes \in Nat
        /\ scan.todo \subseteq Changed \ Deleted
        /\ \A q \in Deleted : scan.index[q] = Absent
        /\ SumFunctionOnSet(ReadSizes, Changed) <= scan.used
    BY <2>1, StageAssumption DEF InspectionInv, TreesInv, ScanRecord, ChargedInv
  <2>3. p \in scan.todo /\ p \in Paths /\ p \in Changed /\ p \notin Deleted
    BY <2>1, <2>2, ChangedPaths, FirstIn
  <2>4. found \in Entries /\ found.size \in Nat
    BY <2>2, <2>3, LstatIs, StageAssumption
  <2>5. i \in Trees /\ WellFormed(i)
    BY <2>2, <2>3, <2>4, PutTree
  <2>6. \A q \in Paths : i[q] = IF q = p THEN found
                                ELSE IF found # Absent /\ Clash(p, q) THEN Absent
                                ELSE scan.index[q]
    BY DEF Put
  <2>7. Lstat(work, p) = found
    OBVIOUS
  <2> HIDE DEF i, found, p
  <2>8. PICK u \in 0..MaxTotalChangedBytes : u = scan.used + found.size
    BY <2>1, <2>2, <2>4 DEF consumeFile
  <2>9. scan' = [scan EXCEPT !.todo = @ \ {p}, !.used = u, !.index = i]
    BY <2>1, <2>8
  <2>10. /\ scan' \in ScanRecord /\ scan'.todo = scan.todo \ {p} /\ scan'.used = u
         /\ scan'.changes = scan.changes /\ scan'.index = i /\ scan'.quiet = scan.quiet
    BY <2>2, <2>5, <2>9 DEF ScanRecord
  <2>11. /\ TreesInv' /\ UNCHANGED <<base, work, ignored>>
         /\ Stageable' = Stageable /\ (LinkedDirectory' <=> LinkedDirectory) /\ at' = "read"
    BY <2>1, <2>5, <2>10, ScanningKeeps DEF Go
  <2>12. Changed' = Changed /\ Deleted' = Deleted
    BY <2>10 DEF Changed, Deleted
  <2>13. ChargedInv'
    <3>1. \A q \in Deleted : i[q] = Absent
      BY <2>2, <2>3, <2>6, ChangedPaths, DeletedChanged
    <3>2. \A q \in Paths : /\ i[q].size \in Nat /\ base[q].size \in Nat
                           /\ scan.index[q].size \in Nat
      BY <2>5, StageAssumption, SizesAre DEF Trees
    <3>3. \A q \in Paths :
            /\ ReadSizes[q] = base[q].size + (IF q \in scan.todo THEN 0 ELSE scan.index[q].size)
            /\ ReadSizes'[q] = base[q].size + (IF q \in scan.todo \ {p} THEN 0 ELSE i[q].size)
      BY <2>10, <2>11 DEF ReadSizes
    <3>4. ReadSizes \in [Paths -> Nat] /\ ReadSizes' \in [Paths -> Nat]
      <4>1. ReadSizes' \in [Paths -> Nat]
        BY <2>10, <2>11, <3>2 DEF ReadSizes
      <4> QED
        BY <4>1, SizesAre
    <3>5. ReadSizes'[p] <= ReadSizes[p] + found.size
      BY <2>3, <2>4, <2>6, <3>2, <3>3
    <3>6. ASSUME NEW q \in Changed \ {p} PROVE ReadSizes'[q] <= ReadSizes[q]
      <4>1. q \in Paths /\ q # p
        BY ChangedPaths
      <4>2. i[q].size = 0 \/ i[q].size = scan.index[q].size
        BY <2>6, <4>1 DEF Absent
      <4> QED
        BY <3>2, <3>3, <4>1, <4>2
    <3>7. SumFunctionOnSet(ReadSizes', Changed) <= SumFunctionOnSet(ReadSizes, Changed) + found.size
      BY <2>3, <2>4, <3>4, <3>5, <3>6, ChangedPaths, PathsFinite, SumIncreased
    <3>8. SumFunctionOnSet(ReadSizes, Changed) \in Nat /\ SumFunctionOnSet(ReadSizes', Changed) \in Nat
      BY <3>4, ChangedPaths, PathsFinite, SumStep
    <3>9. SumFunctionOnSet(ReadSizes', Changed) <= u
      BY <2>2, <2>4, <2>8, <3>7, <3>8
    <3> QED
      BY <2>2, <2>10, <2>11, <2>12, <3>1, <3>9 DEF ChargedInv
  <2>14. QuietInv'
    <3> SUFFICES ASSUME scan.quiet, ~LinkedDirectory
                 PROVE  /\ \A q \in Paths : Found(q)'
                        /\ \A q \in Paths \ (scan.todo \ {p}) : i[q] = Stageable[q]
      BY <2>10, <2>11 DEF QuietInv
    <3>1. /\ \A q \in Paths : Found(q)
          /\ \A q \in Paths \ scan.todo : scan.index[q] = Stageable[q]
      BY <2>1 DEF InspectionInv, QuietInv
    <3>2. \A q \in Paths : Found(q)'
      BY <2>11, <2>12, <3>1 DEF Found
    <3>3. work[p].mode \in effectMode /\ work[p] # Absent
      BY <2>3, <3>1 DEF Found, effectMode, Regular, Link, Absent
    <3>4. p \in Present(work) /\ found = work[p]
      BY <2>2, <2>3, <2>7, <3>3, LstatPresent DEF Present
    <3>5. Stageable[p] = work[p]
      <4>1. Stageable[p] = IF base[p] # Absent \/ (work[p].mode \in effectMode /\ p \notin ignored)
                           THEN work[p] ELSE Absent
        BY <2>3 DEF Stageable
      <4>2. Stageable[p] # base[p]
        BY <2>3, <3>1 DEF Found
      <4> QED
        BY <4>1, <4>2
    <3>6. ASSUME NEW q \in Paths \ (scan.todo \ {p}) PROVE i[q] = Stageable[q]
      <4>1. CASE q = p
        BY <2>6, <3>4, <3>5, <4>1
      <4>2. CASE q # p /\ Clash(p, q)
        <5>1. work[q] = Absent
          BY <2>2, <3>4, <4>2 DEF WellFormed, Present
        <5> QED
          BY <2>6, <3>3, <3>4, <4>2, <5>1 DEF Stageable
      <4>3. CASE q # p /\ ~Clash(p, q)
        BY <2>6, <3>1, <4>3
      <4> QED
        BY <4>1, <4>2, <4>3
    <3> QED
      BY <3>2, <3>6
  <2> QED
    BY <2>11, <2>13, <2>14 DEF InspectionInv
<1> QED
  BY <1>1, <1>2

LEMMA DeriveKeeps ==
  ASSUME InspectionInv, Derive
  PROVE  InspectionInv'
<1>1. CASE Refuse
  BY <1>1, FailKeeps DEF Refuse
<1>2. CASE ~Refuse
  <2>1. /\ UNCHANGED <<base, work, ignored, dir, attempt, scan>> /\ at = "read" /\ scan.todo = {}
        /\ at' = "inspected" /\ snapshot'.tree = scan.index
    BY <1>2 DEF Derive, Scanning, files, ledger
  <2>2. /\ TreesInv /\ scan.index \in Trees /\ WellFormed(scan.index)
    BY DEF InspectionInv, TreesInv, ScanRecord
  <2>3. TreesInv'
    BY <2>1, <2>2 DEF TreesInv
  <2>4. ChargedInv'
    BY <2>1 DEF ChargedInv
  <2>5. Stageable' = Stageable /\ (LinkedDirectory' <=> LinkedDirectory)
    BY <2>1, SameFiles
  <2>6. ASSUME scan.quiet, ~LinkedDirectory PROVE scan.index = Stageable
    <3>1. \A p \in Paths : scan.index[p] = Stageable[p]
      BY <2>1, <2>6 DEF InspectionInv, QuietInv
    <3> QED
      BY <2>2, <3>1 DEF Trees, Stageable
  <2>7. QuietInv'
    BY <2>1, <2>5, <2>6 DEF QuietInv
  <2> QED
    BY <2>3, <2>4, <2>7 DEF InspectionInv
<1> QED
  BY <1>1, <1>2

LEMMA InspectionInit == Init => InspectionInv
<1> SUFFICES ASSUME Init PROVE InspectionInv
  OBVIOUS
<1>1. TreesInv
  <2>1. 1 \in 1..MaxAttempts
    BY StageAssumption
  <2> QED
    BY <2>1, NoScanIs, EmptyTree DEF Init, TreesInv
<1>2. ChargedInv /\ QuietInv
  BY DEF Init, ChargedInv, QuietInv
<1> QED
  BY <1>1, <1>2 DEF InspectionInv

LEMMA UnchangedKeeps ==
  ASSUME InspectionInv, UNCHANGED vars
  PROVE  InspectionInv'
<1>1. UNCHANGED <<base, work, ignored, dir, attempt, at, scan, snapshot>>
  BY DEF vars, files, handler, ledger
<1>2. TreesInv'
  BY <1>1 DEF InspectionInv, TreesInv
<1>3. /\ Stageable' = Stageable /\ (LinkedDirectory' <=> LinkedDirectory)
      /\ BaseSizes' = BaseSizes /\ Present(base)' = Present(base)
  BY <1>1, SameFiles
<1>4. Changed' = Changed /\ Deleted' = Deleted /\ ReadSizes' = ReadSizes
  BY <1>1 DEF Changed, Deleted, ReadSizes
<1>5. ChargedInv'
  BY <1>1, <1>3, <1>4 DEF InspectionInv, ChargedInv
<1>6. QuietInv'
  BY <1>1, <1>3, <1>4 DEF InspectionInv, QuietInv, Found
<1> QED
  BY <1>2, <1>5, <1>6 DEF InspectionInv

LEMMA InspectionStep ==
  ASSUME InspectionInv, [Next]_vars
  PROVE  InspectionInv'
<1>1. CASE UNCHANGED vars
  BY <1>1, UnchangedKeeps
<1>2. CASE Inspect
  BY <1>2, ValidateKeeps, CompareKeeps, UntrackedKeeps, PreflightKeeps, IndexKeeps, ReadKeeps,
     DeriveKeeps, AroundKeeps DEF Inspect
<1>3. CASE Next /\ ~Inspect
  <2>1. CASE Writer
    BY <2>1, WriterKeeps
  <2>2. CASE Create \/ FillWorktree \/ FillFails \/ Bind \/ Discard
    BY <2>2, MadeKeeps
  <2>3. CASE \/ \E handlerOp \in {"stage", "review", "verify", "release"} : Begin(handlerOp)
             \/ stageTransaction \/ getTransactionDiff \/ MaterializeSnapshot
             \/ removeMaterializedTree \/ recordVerification \/ releaseTransaction
             \/ PrepareCommit \/ Revise \/ Crash
    BY <2>3, AroundKeeps
  <2> QED
    BY <1>3, <2>1, <2>2, <2>3 DEF Next
<1> QED
  BY <1>1, <1>2, <1>3

\* What was read is at most what was charged, which is within the limit.
LEMMA ContentWithinLimit == ASSUME InspectionInv PROVE ContentBounded
<1> SUFFICES ASSUME at = "read"
             PROVE  SumFunctionOnSet([p \in Paths |-> base[p].size + scan.index[p].size],
                                     Changed \ scan.todo) <= MaxTotalChangedBytes
  BY DEF ContentBounded, Changed
<1> DEFINE sizes == [p \in Paths |-> base[p].size + scan.index[p].size]
           read == Changed \ scan.todo
<1>1. sizes \in [Paths -> Nat] /\ ReadSizes \in [Paths -> Nat]
  BY SizesAre
<1>2. Changed \in SUBSET Paths /\ read \in SUBSET Changed /\ read \in SUBSET Paths
  BY ChangedPaths
<1>3. \A p \in read : sizes[p] <= ReadSizes[p]
  <2> TAKE p \in read
  <2>1. p \in Paths /\ p \notin scan.todo /\ base[p].size \in Nat /\ scan.index[p].size \in Nat
    BY <1>2, SizesAre
  <2>2. ReadSizes[p] = base[p].size + scan.index[p].size
    BY <2>1 DEF ReadSizes
  <2> QED
    BY <2>1, <2>2
<1> HIDE DEF sizes, read
<1>4. SumFunctionOnSet(sizes, read) <= SumFunctionOnSet(ReadSizes, Changed)
  BY <1>1, <1>2, <1>3, PathsFinite, SumMonotone
<1>5. SumFunctionOnSet(sizes, read) \in Nat /\ SumFunctionOnSet(ReadSizes, Changed) \in Nat
  BY <1>1, <1>2, PathsFinite, SumStep
<1>6. /\ SumFunctionOnSet(ReadSizes, Changed) <= scan.used
      /\ scan.used \in 0..MaxTotalChangedBytes /\ MaxTotalChangedBytes \in Nat
  BY StageAssumption DEF InspectionInv, ChargedInv, TreesInv, ScanRecord
<1>7. SumFunctionOnSet(sizes, read) <= MaxTotalChangedBytes
  BY <1>4, <1>5, <1>6
<1> QED
  BY <1>7 DEF sizes, read

\* For every worktree and whoever writes to it meanwhile, an inspection holds no
\* more content than its limit; if nobody writes and no link replaced a directory
\* of the base, its snapshot is the worktree; and what is frozen has exactly the
\* effects it lists.
THEOREM SnapshotCorrect == Spec => []SnapshotInv
<1>1. ASSUME InspectionInv, EffectsExact PROVE SnapshotInv
  <2>1. TypeOK
    BY <1>1, StageAssumption DEF InspectionInv, TreesInv, ScanRecord, TypeOK
  <2>2. ContentBounded
    BY <1>1, ContentWithinLimit
  <2>3. QuietSnapshotExact
    BY <1>1 DEF InspectionInv, QuietInv, QuietSnapshotExact
  <2> QED
    BY <1>1, <2>1, <2>2, <2>3 DEF SnapshotInv
<1>2. InspectionInv /\ [Next]_vars => InspectionInv'
  BY InspectionStep
<1> QED
  BY InspectionInit, <1>1, <1>2, EffectsCorrect, PTL DEF Spec

=============================================================================
