-------------------------- MODULE TransactionProofs --------------------------
(***************************************************************************)
(* Theorems about Transaction, for every set of trees, effects, verifiers, *)
(* principals and approvers, every policy table and every bound.           *)
(***************************************************************************)
EXTENDS Transaction, TLAPS

(* Type correctness *)

\* The empty values belong to their types, so Init and invalidateFrozenState
\* establish them.
LEMMA NullTypes ==
  /\ NoResult \in Result /\ NoResults \in [Verifiers -> Result]
  /\ NoEffects \in [EffectIDs -> EffectStatus]
  /\ NoPlan \in Plan /\ NoPackage \in Package
BY DEF NoResult, NoResults, NoEffects, NoPlan, NoPackage, Result, Plan, Package,
       EffectStatus

\* The states a handler names are states of the machine.
LEMMA StatesType ==
  /\ {"created", "running", "staged", "validating", "validation_failed",
      "revise_required", "pending_approval", "ready_to_commit", "committing",
      "completed_no_effect", "blocked", "committed", "release_failed",
      "manual_recovery_required", "aborted"} \subseteq States
BY DEF States, Terminal, transactionTransitions

\* Init establishes the types.
LEMMA TypeInit == Init => TypeOK
<1> SUFFICES ASSUME Init PROVE TypeOK
  OBVIOUS
<1>1. state \in States /\ frozen \in Trees \cup {NoTree} /\ worktree \in Trees \cup {NoTree}
  BY StatesType DEF Init
<1>2. /\ effects \in [EffectIDs -> EffectStatus] /\ verifications \in [Verifiers -> Result]
      /\ plan \in Plan /\ package \in Package
  BY NullTypes DEF Init
<1>3. /\ superseded \subseteq Result /\ outstanding \subseteq Nat /\ archived \subseteq Nat
      /\ approvals \subseteq SignedDecision /\ decisions \subseteq SignedDecision
      /\ signed \subseteq SignedDecision /\ actors \subseteq Principals
  BY TransactionAssumption DEF Init
<1>4. /\ executions \in Seq([attempt : Nat, status : ExecutionStatus])
      /\ history \in Seq(Snapshot)
  BY DEF Init
<1>5. /\ attempt \in Nat /\ prepared \in Nat /\ now \in Nat /\ policy \in 1..MaxPolicy
      /\ releasing \in Principals \cup {NoOne}
  BY TransactionAssumption DEF Init
<1>6. taskBound \in BOOLEAN /\ binding \in BOOLEAN
  BY DEF Init
<1> QED
  BY <1>1, <1>2, <1>3, <1>4, <1>5, <1>6 DEF TypeOK

\* Moving every effect of one status to another keeps the effects typed.
LEMMA MoveEffectsType ==
  ASSUME NEW from, NEW to \in EffectStatus, effects \in [EffectIDs -> EffectStatus]
  PROVE  MoveEffects(from, to) \in [EffectIDs -> EffectStatus]
BY DEF MoveEffects

\* A new attempt.
LEMMA TypeStart ==
  ASSUME TypeOK, NEW p \in Principals, startTransaction(p)
  PROVE  TypeOK'
<1>1. history' \in Seq(Snapshot) /\ attempt' \in Nat
  <2>1. CASE state = "created"
    BY <2>1 DEF TypeOK, startTransaction
  <2>2. CASE state # "created"
    <3>1. beginNextAttempt
      BY <2>2 DEF startTransaction
    <3>2. [attempt |-> attempt, state |-> state, tree |-> frozen,
           packages |-> archived \cup ({package.id} \ {0})] \in Snapshot
      BY DEF TypeOK, Snapshot, Package
    <3> QED
      BY <3>1, <3>2 DEF TypeOK, beginNextAttempt
  <2> QED
    BY <2>1, <2>2
<1>2. /\ frozen' \in Trees \cup {NoTree} /\ effects' \in [EffectIDs -> EffectStatus]
      /\ verifications' \in [Verifiers -> Result] /\ superseded' \subseteq Result
      /\ plan' \in Plan /\ package' \in Package
      /\ outstanding' \subseteq Nat /\ approvals' \subseteq SignedDecision
      /\ archived' \subseteq Nat
  BY NullTypes DEF startTransaction, invalidateFrozenState
<1>3. state' \in States /\ actors' \subseteq Principals
  BY StatesType DEF TypeOK, startTransaction, AuthoredBy
<1> QED
  BY <1>1, <1>2, <1>3 DEF TypeOK, startTransaction, environment

\* createTransactionWorktree keeps every variable in its type.
LEMMA TypeCreateWorktree ==
  ASSUME TypeOK, NEW p \in Principals, createTransactionWorktree(p)
  PROVE  TypeOK'
<1>1. binding' \in BOOLEAN
  BY DEF createTransactionWorktree, applyStageBindingCreated
<1>2. worktree' \in Trees \cup {NoTree} /\ actors' \subseteq Principals
  BY TransactionAssumption DEF TypeOK, createTransactionWorktree, AuthoredBy
<1> QED
  BY <1>1, <1>2 DEF TypeOK, createTransactionWorktree, stage, evidence, authority, environment

\* The start of an execution keeps every variable in its type.
LEMMA TypeExecutionStarted ==
  ASSUME TypeOK, NEW p \in Principals, applyAgentExecutionStarted(p)
  PROVE  TypeOK'
<1>1. executions' \in Seq([attempt : Nat, status : ExecutionStatus])
  BY DEF TypeOK, applyAgentExecutionStarted, ExecutionStatus
<1>2. actors' \subseteq Principals
  BY DEF TypeOK, applyAgentExecutionStarted, AuthoredBy
<1> QED
  BY <1>1, <1>2 DEF TypeOK, applyAgentExecutionStarted, stage, evidence, authority, environment

\* The receipt of an execution keeps every variable in its type.
LEMMA TypeExecutionFinished ==
  ASSUME TypeOK, NEW p \in Principals, NEW s \in {"succeeded", "unsuccessful"},
         applyAgentExecutionFinished(p, s)
  PROVE  TypeOK'
<1> DEFINE Receipt == [attempt : Nat, status : ExecutionStatus]
<1>1. executions' \in Seq(Receipt)
  <2>1. PICK i \in DOMAIN executions : executions' = [executions EXCEPT ![i].status = s]
    BY DEF applyAgentExecutionFinished
  <2>2. executions \in Seq(Receipt)
    BY DEF TypeOK
  <2> HIDE DEF Receipt
  <2>3. executions[i] \in Receipt /\ i \in 1..Len(executions)
    BY <2>2
  <2>4. [executions[i] EXCEPT !.status = s] \in Receipt
    BY <2>3 DEF Receipt, ExecutionStatus
  <2> QED
    BY <2>1, <2>2, <2>3, <2>4
<1>2. actors' \subseteq Principals
  BY DEF TypeOK, applyAgentExecutionFinished, AuthoredBy
<1> QED
  BY <1>1, <1>2 DEF TypeOK, applyAgentExecutionFinished, stage, evidence, authority, environment

\* stageTransaction keeps every variable in its type.
LEMMA TypeStage ==
  ASSUME TypeOK, NEW p \in Principals, stageTransaction(p)
  PROVE  TypeOK'
<1>1. state' \in States /\ actors' \subseteq Principals
  BY StatesType DEF TypeOK, stageTransaction, applyEffectAdded, applyStaged, AuthoredBy
<1>2. frozen' \in Trees \cup {NoTree} /\ effects' \in [EffectIDs -> EffectStatus]
  BY DEF TypeOK, stageTransaction, applyEffectAdded, applyStaged, stage, EffectStatus
<1> QED
  BY <1>1, <1>2 DEF TypeOK, stageTransaction, evidence, authority, environment

\* validateTransaction keeps every variable in its type.
LEMMA TypeValidate ==
  ASSUME TypeOK, NEW p \in Principals, validateTransaction(p)
  PROVE  TypeOK'
<1>1. state' \in States /\ actors' \subseteq Principals
  BY StatesType DEF TypeOK, validateTransaction, AuthoredBy
<1> QED
  BY <1>1 DEF TypeOK, validateTransaction, stage, evidence, authority, environment

\* Both ways to record a verification result.
LEMMA TypeVerification ==
  ASSUME TypeOK, NEW p \in Principals, NEW n \in Verifiers,
         NEW s \in {"passed", "failed", "indeterminate"},
         NEW i \in {"platform_run", "agent_supplied"},
         recordVerification(p, n, s, i)
  PROVE  TypeOK'
<1> DEFINE r == [status |-> s, independence |-> i, attempt |-> attempt,
                 tree |-> frozen, expires |-> now + EvidenceTTL]
<1>1. r \in Result
  BY TransactionAssumption DEF TypeOK, Result
<1>2. verifications' = [verifications EXCEPT ![n] = r]
  BY DEF recordVerification, applyVerification, applyVerificationSuperseded
<1>3. verifications' \in [Verifiers -> Result] /\ superseded' \subseteq Result
  BY <1>1, <1>2
     DEF TypeOK, recordVerification, applyVerification, applyVerificationSuperseded
<1>4. effects' \in [EffectIDs -> EffectStatus]
  BY MoveEffectsType DEF TypeOK, recordVerification, EffectStatus
<1>5. state' \in States /\ actors' \subseteq Principals
  BY StatesType DEF TypeOK, recordVerification
<1> QED
  BY <1>3, <1>4, <1>5 DEF TypeOK, recordVerification, authority, environment

\* prepareTransaction mints a well-typed plan and package.
LEMMA TypePrepare ==
  ASSUME TypeOK, NEW p \in Principals, prepareTransaction(p)
  PROVE  TypeOK'
<1> DEFINE review == Decision[policy][frozen] = "require_approval"
<1>1. prepared' \in Nat /\ prepared' = prepared + 1
  BY DEF TypeOK, prepareTransaction
<1>2. plan' \in Plan
  BY <1>1, TransactionAssumption
     DEF TypeOK, prepareTransaction, applyCommitPlan, applyApprovalPackage, Plan, PresentEffects
<1>3. review \in BOOLEAN
  OBVIOUS
<1>4. package' \in Package
  <2>1. package' = [id |-> prepared + 1, attempt |-> attempt, tree |-> frozen,
                    policy |-> policy, results |-> verifications,
                    approval |-> review, expires |-> now + EvidenceTTL]
    BY DEF prepareTransaction, applyCommitPlan, applyApprovalPackage
  <2>2. now + EvidenceTTL \in Nat /\ policy \in Nat
    BY TransactionAssumption DEF TypeOK
  <2> HIDE DEF review
  <2> QED
    BY <1>1, <1>3, <2>1, <2>2 DEF TypeOK, Package
<1>5. state' \in States /\ outstanding' \subseteq Nat /\ actors' \subseteq Principals
  BY StatesType DEF TypeOK, prepareTransaction, AuthoredBy
<1> QED
  BY <1>1, <1>2, <1>4, <1>5 DEF TypeOK, prepareTransaction, stage, evidence, environment

\* renewTransactionAuthority keeps every variable in its type.
LEMMA TypeRenew ==
  ASSUME TypeOK, NEW p \in Principals, renewTransactionAuthority(p)
  PROVE  TypeOK'
<1>1. superseded' \subseteq Result /\ verifications' \in [Verifiers -> Result]
  BY NullTypes DEF TypeOK, renewTransactionAuthority, applyAuthorityRenewed, Recorded
<1>2. /\ plan' \in Plan /\ package' \in Package /\ outstanding' \subseteq Nat
      /\ approvals' \subseteq SignedDecision
  BY NullTypes DEF renewTransactionAuthority, applyAuthorityRenewed
<1>3. package.id \in Nat
  BY DEF TypeOK, Package
<1>4. archived' \subseteq Nat /\ state' \in States /\ actors' \subseteq Principals
  BY <1>3, StatesType DEF TypeOK, renewTransactionAuthority, applyAuthorityRenewed, AuthoredBy
<1> QED
  BY <1>1, <1>2, <1>4 DEF TypeOK, renewTransactionAuthority, stage, environment

\* A signed decision is well typed.
LEMMA TypeSign ==
  ASSUME TypeOK, NEW a \in Approvers, NEW v \in {"approve", "reject", "revise"},
         NEW e \in Nat, SignDecision(a, v, e)
  PROVE  TypeOK'
<1>1. signed' \subseteq SignedDecision
  BY DEF TypeOK, SignDecision, SignedDecision, Package
<1> QED
  BY <1>1 DEF TypeOK, SignDecision, projection

\* resolveTransactionApproval keeps every variable in its type.
LEMMA TypeResolve ==
  ASSUME TypeOK, NEW d \in signed, resolveTransactionApproval(d)
  PROVE  TypeOK'
<1>1. /\ decisions' \subseteq SignedDecision /\ approvals' \subseteq SignedDecision
      /\ outstanding' \subseteq Nat
  BY DEF TypeOK, resolveTransactionApproval, applyApprovalResolution
<1>2. state' \in States
  BY StatesType DEF TypeOK, resolveTransactionApproval, applyApprovalResolution
<1> QED
  BY <1>1, <1>2 DEF TypeOK, resolveTransactionApproval, stage, evidence, environment

\* The first half of a release, or its retry, keeps every variable in its type.
LEMMA TypeRelease ==
  ASSUME TypeOK, NEW p \in Principals, BeginRelease(p) \/ RetryRelease(p)
  PROVE  TypeOK'
<1>1. CASE BeginRelease(p)
  <2>1. effects' \in [EffectIDs -> EffectStatus]
    BY <1>1, MoveEffectsType DEF TypeOK, BeginRelease, EffectStatus
  <2>2. state' \in States /\ actors' \subseteq Principals /\ releasing' \in Principals
    BY <1>1, StatesType DEF TypeOK, BeginRelease, AuthoredBy
  <2> QED
    BY <1>1, <2>1, <2>2 DEF TypeOK, BeginRelease, evidence, authority
<1>2. CASE RetryRelease(p)
  BY <1>2 DEF TypeOK, RetryRelease, projection
<1> QED
  BY <1>1, <1>2

\* The second half of a release keeps every variable in its type.
LEMMA TypeFinishRelease ==
  ASSUME TypeOK, NEW o \in DOMAIN PublishOutcome, FinishRelease(o)
  PROVE  TypeOK'
<1>1. PublishOutcome[o].effect \in EffectStatus /\ PublishOutcome[o].state \in States
  BY StatesType DEF PublishOutcome, EffectStatus
<1>2. effects' \in [EffectIDs -> EffectStatus]
  BY <1>1, MoveEffectsType DEF TypeOK, FinishRelease, ReleasedEffects
<1>3. state' \in States /\ actors' \subseteq Principals /\ releasing' = NoOne
  BY <1>1 DEF TypeOK, FinishRelease, AuthoredBy
<1> QED
  BY <1>2, <1>3 DEF TypeOK, FinishRelease, evidence, authority

\* abortTransaction keeps every variable in its type.
LEMMA TypeAbort ==
  ASSUME TypeOK, NEW p \in Principals, abortTransaction(p)
  PROVE  TypeOK'
<1>1. /\ state' \in States /\ actors' \subseteq Principals
      /\ worktree' \in Trees \cup {NoTree}
  BY StatesType DEF TypeOK, abortTransaction, AuthoredBy
<1> QED
  BY <1>1 DEF TypeOK, abortTransaction, stage, evidence, authority, environment

\* The agent's writes, restarts and the clock.
LEMMA TypeEnvironment ==
  ASSUME TypeOK,
         \/ \E t \in Trees : MutateWorktree(t)
         \/ \E q \in 1..MaxPolicy : RestartDaemon(q)
         \/ Tick
  PROVE  TypeOK'
<1>1. CASE \E t \in Trees : MutateWorktree(t)
  BY <1>1 DEF TypeOK, MutateWorktree, projection, environment
<1>2. CASE \E q \in 1..MaxPolicy : RestartDaemon(q)
  BY <1>2 DEF TypeOK, RestartDaemon, projection
<1>3. CASE Tick
  BY <1>3 DEF TypeOK, Tick, projection
<1> QED
  BY <1>1, <1>2, <1>3

\* Every handler keeps every variable in its type, whatever the policy table, the
\* verifiers and the principals.
THEOREM TypeCorrect == Spec => []TypeOK
<1>1. Init => TypeOK
  BY TypeInit
<1>2. TypeOK /\ [Next]_vars => TypeOK'
  <2> SUFFICES ASSUME TypeOK, [Next]_vars PROVE TypeOK'
    OBVIOUS
  <2>1. ASSUME NEW p \in Principals, Request(p) PROVE TypeOK'
    <3>1. ASSUME NEW n \in Verifiers, NEW s \in {"passed", "failed", "indeterminate"},
                 recordTransactionVerification(p, n, s) \/ runTransactionVerification(p, n, s)
          PROVE  TypeOK'
      BY <3>1, TypeVerification DEF recordTransactionVerification, runTransactionVerification
    <3> QED
      BY <2>1, <3>1, TypeStart, TypeCreateWorktree, TypeExecutionStarted,
         TypeExecutionFinished, TypeStage, TypeValidate, TypePrepare, TypeRenew,
         TypeRelease, TypeAbort DEF Request
  <2>2. ASSUME NEW a \in Approvers, NEW v \in {"approve", "reject", "revise"},
               NEW e \in (now + 1)..(now + DecisionTTL), SignDecision(a, v, e)
        PROVE  TypeOK'
    <3>1. e \in Nat
      BY TransactionAssumption DEF TypeOK
    <3> QED
      BY <2>2, <3>1, TypeSign
  <2>3. CASE UNCHANGED vars
    BY <2>3 DEF TypeOK, vars, projection, environment
  <2> QED
    BY <2>1, <2>2, <2>3, TypeResolve, TypeFinishRelease, TypeEnvironment DEF Next
<1> QED
  BY <1>1, <1>2, PTL DEF Spec

-----------------------------------------------------------------------------
(* Release rests on evidence, review and a current policy *)

\* States in which authority to release exists or is being granted.
Granted == Authorized \cup {"pending_approval"}

\* No verification result exists before validation begins.
NoEarlyEvidence ==
  state \in {"created", "running", "staged", "completed_no_effect"} => Recorded = {}

\* Current results speak of the frozen tree.
EvidenceOfStage == \A n \in Recorded : verifications[n].tree = frozen

\* No approval is counted before a package is pending.
NoEarlyApproval ==
  state \in {"created", "running", "staged", "validating", "validation_failed"} =>
    approvals = {}

\* Authority exists only for a tree that the policy of the package lets
\* through, and the package records whether that policy asks for review.
PolicyRecorded ==
  state \in Granted =>
    /\ Decision[package.policy][frozen] \in {"allow", "require_approval"}
    /\ package.approval <=> Decision[package.policy][frozen] = "require_approval"

\* The inductive invariant: the last three conjuncts are what the runs check,
\* the others what a step needs to know of the state before it.
AuthorityInv ==
  /\ NoEarlyEvidence /\ EvidenceOfStage /\ NoEarlyApproval /\ PolicyRecorded
  /\ EvidenceBeforeRelease /\ ReviewedRelease /\ ApprovalsBindPackage

\* A new transaction carries no evidence and no authority.
LEMMA AuthorityInit == Init => AuthorityInv
BY DEF Init, AuthorityInv, NoEarlyEvidence, EvidenceOfStage, NoEarlyApproval,
       PolicyRecorded, EvidenceBeforeRelease, ReviewedRelease, ApprovalsBindPackage,
       Granted, Authorized, Recorded, NoResults, NoResult

\* A step that leaves the stage, the results, the package and the approvals alone
\* and either keeps the state or enters one where no authority exists.
LEMMA AuthorityFrame ==
  ASSUME AuthorityInv, UNCHANGED <<frozen, verifications, package, approvals>>,
         \/ state' = state
         \/ state' \in {"blocked", "revise_required", "aborted"}
         \/ state = "running" /\ state' = "completed_no_effect"
         \/ state = "staged" /\ state' = "validating"
         \/ state = "ready_to_commit" /\ state' = "committing"
         \/ state = "committing" /\ state' \in Authorized
  PROVE  AuthorityInv'
<1>1. Recorded' = Recorded
  BY DEF Recorded
<1> QED
  BY <1>1 DEF AuthorityInv, NoEarlyEvidence, EvidenceOfStage, NoEarlyApproval,
       PolicyRecorded, EvidenceBeforeRelease, ReviewedRelease, ApprovalsBindPackage,
       Granted, Authorized

\* A new attempt drops stage, results, package and approvals together.
LEMMA AuthorityStart ==
  ASSUME NEW p \in Principals, startTransaction(p)
  PROVE  AuthorityInv'
<1>1. state' = "running" /\ approvals' = {} /\ verifications' = NoResults
  BY DEF startTransaction, invalidateFrozenState
<1>2. Recorded' = {}
  BY <1>1 DEF Recorded, NoResults, NoResult
<1> QED
  BY <1>1, <1>2 DEF AuthorityInv, NoEarlyEvidence, EvidenceOfStage, NoEarlyApproval,
       PolicyRecorded, EvidenceBeforeRelease, ReviewedRelease, ApprovalsBindPackage,
       Granted, Authorized

\* Freezing a stage starts without evidence and without authority.
LEMMA AuthorityStage ==
  ASSUME AuthorityInv, NEW p \in Principals, stageTransaction(p)
  PROVE  AuthorityInv'
<1>1. state = "running" /\ UNCHANGED <<verifications, package, approvals>>
  BY DEF stageTransaction, StageGate, evidence, authority
<1>2. CASE state' = "completed_no_effect" /\ UNCHANGED frozen
  BY <1>1, <1>2, AuthorityFrame
<1>3. CASE state' = "staged"
  <2>1. Recorded' = {} /\ approvals' = {}
    BY <1>1 DEF AuthorityInv, NoEarlyEvidence, NoEarlyApproval, Recorded
  <2> QED
    BY <1>3, <2>1 DEF AuthorityInv, NoEarlyEvidence, EvidenceOfStage, NoEarlyApproval,
         PolicyRecorded, EvidenceBeforeRelease, ReviewedRelease, ApprovalsBindPackage,
         Granted, Authorized
<1> QED
  BY <1>2, <1>3 DEF stageTransaction, applyEffectAdded, applyStaged, stage

\* A result is recorded for the frozen tree, and never once authority exists.
LEMMA AuthorityVerification ==
  ASSUME TypeOK, AuthorityInv, NEW p, NEW n \in Verifiers, NEW s, NEW i,
         recordVerification(p, n, s, i)
  PROVE  AuthorityInv'
<1>1. /\ state \in {"validating", "validation_failed"}
      /\ state' \in {"validating", "validation_failed"}
      /\ UNCHANGED <<frozen, package, approvals>>
  BY DEF recordVerification, authority
<1>2. \A m \in Verifiers : verifications'[m] = verifications[m] \/ verifications'[m].tree = frozen
  BY DEF recordVerification, applyVerification, applyVerificationSuperseded, TypeOK
<1>3. EvidenceOfStage'
  BY <1>1, <1>2 DEF EvidenceOfStage, AuthorityInv, Recorded
<1>4. approvals' = {}
  BY <1>1 DEF AuthorityInv, NoEarlyApproval
<1> QED
  BY <1>1, <1>3, <1>4 DEF AuthorityInv, NoEarlyEvidence, NoEarlyApproval,
       PolicyRecorded, EvidenceBeforeRelease, ReviewedRelease, ApprovalsBindPackage,
       Granted, Authorized

\* Preparation checks the evidence and the policy it records in the package.
LEMMA AuthorityPrepare ==
  ASSUME TypeOK, AuthorityInv, NEW p \in Principals, prepareTransaction(p)
  PROVE  AuthorityInv'
<1> DEFINE review == Decision[policy][frozen] = "require_approval"
<1>1. /\ state = "validating" /\ UNCHANGED <<frozen, verifications, approvals>>
      /\ validateVerifierProfiles /\ PrepareAuthority
  BY DEF prepareTransaction, stage, evidence
<1>2. /\ package'.policy = policy /\ package'.results = verifications
      /\ package'.approval = review
      /\ state' = IF review THEN "pending_approval" ELSE "ready_to_commit"
  BY DEF prepareTransaction, applyCommitPlan, applyApprovalPackage
<1>3. approvals' = {} /\ Recorded' = Recorded
  BY <1>1 DEF AuthorityInv, NoEarlyApproval, Recorded
<1>4. EvidenceOfStage'
  BY <1>1, <1>3 DEF AuthorityInv, EvidenceOfStage
<1>5. EvidenceBeforeRelease'
  <2>1. Profiles \subseteq Recorded
    BY <1>1, TransactionAssumption DEF validateVerifierProfiles, Recorded
  <2>2. Recorded # {} /\ \A n \in Recorded : /\ verifications[n].status = "passed"
                                            /\ verifications[n].independence = "platform_run"
    BY <1>1 DEF PrepareAuthority, requirePassingVerification, requireNoFailedVerification
  <2> QED
    BY <1>1, <1>2, <1>3, <1>4, <2>1, <2>2 DEF EvidenceBeforeRelease, EvidenceOfStage
<1>6. PolicyRecorded'
  BY <1>1, <1>2 DEF PolicyRecorded, PrepareAuthority
<1>7. ReviewedRelease'
  BY <1>1, <1>2 DEF ReviewedRelease, Authorized
<1> QED
  BY <1>2, <1>3, <1>4, <1>5, <1>6, <1>7
     DEF AuthorityInv, NoEarlyEvidence, NoEarlyApproval, ApprovalsBindPackage

\* Renewal revokes: no authority and no approval is left.
LEMMA AuthorityRenew ==
  ASSUME TypeOK, AuthorityInv, NEW p \in Principals, renewTransactionAuthority(p)
  PROVE  AuthorityInv'
<1>1. state' = "validating" /\ approvals' = {} /\ UNCHANGED frozen
  BY DEF renewTransactionAuthority, applyAuthorityRenewed, stage
<1>2. \A n \in Verifiers : verifications'[n] \in {verifications[n], NoResult}
  BY DEF renewTransactionAuthority, applyAuthorityRenewed
<1>3. EvidenceOfStage'
  BY <1>1, <1>2 DEF EvidenceOfStage, AuthorityInv, Recorded, NoResult
<1> QED
  BY <1>1, <1>3 DEF AuthorityInv, NoEarlyEvidence, NoEarlyApproval,
       PolicyRecorded, EvidenceBeforeRelease, ReviewedRelease, ApprovalsBindPackage,
       Granted, Authorized

\* A decision counts for the pending package only, and only from an approver
\* other than the sponsor.
LEMMA AuthorityResolve ==
  ASSUME TypeOK, AuthorityInv, NEW d \in signed, resolveTransactionApproval(d)
  PROVE  AuthorityInv'
<1>1. state = "pending_approval" /\ UNCHANGED <<frozen, verifications, package>>
  BY DEF resolveTransactionApproval, stage, evidence
<1>2. CASE d.verdict # "approve"
  BY <1>1, <1>2, AuthorityFrame DEF resolveTransactionApproval, applyApprovalResolution
<1>3. CASE d.verdict = "approve"
  <2>1. approvals' = approvals \cup {d} /\ state' \in {"pending_approval", "ready_to_commit"}
    BY <1>1, <1>3 DEF resolveTransactionApproval, applyApprovalResolution
  <2>2. d.package = package.id /\ d.approver \in Approvers \ {Sponsor}
    BY DEF resolveTransactionApproval, Verify, validateApprovalSeparation
  <2>3. Recorded' = Recorded
    BY <1>1 DEF Recorded
  <2>4. ReviewedRelease' /\ ApprovalsBindPackage'
    BY <1>1, <1>3, <2>1, <2>2 DEF AuthorityInv, ReviewedRelease, ApprovalsBindPackage
  <2> QED
    BY <1>1, <2>1, <2>3, <2>4 DEF AuthorityInv, NoEarlyEvidence, EvidenceOfStage,
         NoEarlyApproval, PolicyRecorded, EvidenceBeforeRelease, Granted, Authorized
<1> QED
  BY <1>2, <1>3

\* The steps that touch none of what AuthorityInv speaks of but the state.
LEMMA AuthorityOthers ==
  ASSUME AuthorityInv, NEW p \in Principals,
         \/ createTransactionWorktree(p) \/ applyAgentExecutionStarted(p)
         \/ \E s \in {"succeeded", "unsuccessful"} : applyAgentExecutionFinished(p, s)
         \/ validateTransaction(p) \/ BeginRelease(p) \/ RetryRelease(p)
         \/ abortTransaction(p)
  PROVE  AuthorityInv'
<1>1. UNCHANGED <<frozen, verifications, package, approvals>>
  BY DEF createTransactionWorktree, applyAgentExecutionStarted,
         applyAgentExecutionFinished, validateTransaction, BeginRelease, RetryRelease,
         abortTransaction, stage, evidence, authority, projection
<1>2. \/ state' = state \/ state' \in {"blocked", "revise_required", "aborted"}
      \/ state = "staged" /\ state' = "validating"
      \/ state = "ready_to_commit" /\ state' = "committing"
  BY DEF createTransactionWorktree, applyAgentExecutionStarted,
         applyAgentExecutionFinished, validateTransaction, BeginRelease, RetryRelease,
         abortTransaction, projection
<1> QED
  BY <1>1, <1>2, AuthorityFrame

\* Every step preserves the inductive invariant of the authority.
LEMMA AuthorityStep ==
  ASSUME TypeOK, AuthorityInv, [Next]_vars
  PROVE  AuthorityInv'
<1>1. ASSUME NEW p \in Principals, Request(p) PROVE AuthorityInv'
  <2>1. ASSUME NEW n \in Verifiers, NEW s \in {"passed", "failed", "indeterminate"},
               recordTransactionVerification(p, n, s) \/ runTransactionVerification(p, n, s)
        PROVE  AuthorityInv'
    BY <2>1, AuthorityVerification DEF recordTransactionVerification, runTransactionVerification
  <2> QED
    BY <1>1, <2>1, AuthorityStart, AuthorityStage, AuthorityPrepare, AuthorityRenew,
       AuthorityOthers DEF Request
<1>2. ASSUME NEW o \in DOMAIN PublishOutcome, FinishRelease(o) PROVE AuthorityInv'
  <2>1. state = "committing" /\ state' \in Authorized
    BY <1>2 DEF FinishRelease, PublishOutcome, Authorized
  <2>2. UNCHANGED <<frozen, verifications, package, approvals>>
    BY <1>2 DEF FinishRelease, evidence, authority
  <2> QED
    BY <2>1, <2>2, AuthorityFrame
<1>3. CASE UNCHANGED projection
  BY <1>3, AuthorityFrame DEF projection
<1>4. ASSUME NEW a \in Approvers, NEW v, NEW e, SignDecision(a, v, e) PROVE AuthorityInv'
  BY <1>3, <1>4 DEF SignDecision
<1>5. CASE \/ \E t \in Trees : MutateWorktree(t)
           \/ \E q \in 1..MaxPolicy : RestartDaemon(q)
           \/ Tick \/ UNCHANGED vars
  BY <1>3, <1>5 DEF MutateWorktree, RestartDaemon, Tick, vars
<1> QED
  BY <1>1, <1>2, <1>4, <1>5, AuthorityResolve DEF Next

\* Along every interleaving of handlers, restarts, expiries and late decisions:
\* nothing becomes releasable without passing daemon-run evidence on the frozen
\* tree, nor, where the policy asks for it, without an independent approval of
\* the very package that is released.
THEOREM AuthorityCorrect ==
  Spec => [](EvidenceBeforeRelease /\ ReviewedRelease /\ ApprovalsBindPackage)
<1>1. TypeOK /\ AuthorityInv /\ [Next]_vars => AuthorityInv'
  BY AuthorityStep
<1>2. AuthorityInv => EvidenceBeforeRelease /\ ReviewedRelease /\ ApprovalsBindPackage
  BY DEF AuthorityInv
<1> QED
  BY <1>1, <1>2, TypeCorrect, AuthorityInit, PTL DEF Spec

\* What ReleaseIsAuthorized asks of the step into committing.
AuthorizedStep ==
  state # "committing" /\ state' = "committing" =>
    /\ worktree = frozen
    /\ \A n \in Recorded : /\ verifications[n].independence = "platform_run"
                           /\ Current(verifications[n].expires)
    /\ Decision[policy][worktree] \in {"allow", "require_approval"}
    /\ Decision[policy][worktree] = "require_approval" =>
         \E d \in approvals : Current(d.expires) /\ d.approver \notin actors'

\* Only releaseTransaction enters committing.
LEMMA OnlyReleaseCommits ==
  ASSUME TypeOK, [Next]_vars, state # "committing", state' = "committing"
  PROVE  \E p \in Principals : BeginRelease(p)
<1>1. ASSUME NEW p \in Principals, Request(p) PROVE BeginRelease(p)
  BY <1>1 DEF Request, startTransaction, createTransactionWorktree,
       applyAgentExecutionStarted, applyAgentExecutionFinished, stageTransaction,
       validateTransaction, recordTransactionVerification, runTransactionVerification,
       recordVerification, prepareTransaction, renewTransactionAuthority,
       applyAuthorityRenewed, applyStaged, RetryRelease, abortTransaction, projection
<1>2. ~(\E o \in DOMAIN PublishOutcome : FinishRelease(o))
  BY DEF FinishRelease
<1>3. ~(\E d \in signed : resolveTransactionApproval(d))
  BY DEF resolveTransactionApproval, applyApprovalResolution
<1>4. ~(UNCHANGED projection)
  BY DEF projection
<1> QED
  BY <1>1, <1>2, <1>3, <1>4 DEF Next, SignDecision, MutateWorktree, RestartDaemon, Tick, vars

\* The authority is judged again at the moment of release, by the policy the
\* daemon runs with then, and neither an approval that expired nor one by a
\* principal that acted on the transaction counts.
THEOREM ReleaseAuthorized == Spec => ReleaseIsAuthorized
<1>1. ASSUME TypeOK, AuthorityInv, [Next]_vars PROVE AuthorizedStep
  <2> SUFFICES ASSUME state # "committing", state' = "committing"
               PROVE  /\ worktree = frozen
                      /\ \A n \in Recorded : /\ verifications[n].independence = "platform_run"
                                             /\ Current(verifications[n].expires)
                      /\ Decision[policy][worktree] \in {"allow", "require_approval"}
                      /\ Decision[policy][worktree] = "require_approval" =>
                           \E d \in approvals :
                             Current(d.expires) /\ d.approver \notin actors'
    BY DEF AuthorizedStep
  <2>1. PICK p \in Principals : BeginRelease(p)
    BY <1>1, OnlyReleaseCommits
  <2>2. /\ state = "ready_to_commit" /\ worktree = frozen /\ actors' = actors \cup {p}
        /\ package.policy = policy
        /\ \A n \in Recorded : Current(verifications[n].expires)
    BY <2>1 DEF BeginRelease, matchesFrozenStage, validateReleaseAuthority, AuthoredBy
  <2>3. \A n \in Recorded : verifications[n].independence = "platform_run"
    BY <1>1, <2>2 DEF AuthorityInv, EvidenceBeforeRelease, Authorized
  <2>4. /\ Decision[policy][worktree] \in {"allow", "require_approval"}
        /\ Decision[policy][worktree] = "require_approval" => package.approval
    BY <1>1, <2>2 DEF AuthorityInv, PolicyRecorded, Granted, Authorized
  <2>5. package.approval =>
          \E d \in approvals : Current(d.expires) /\ d.approver \notin actors'
    BY <2>1, <2>2 DEF BeginRelease, validateReleaseAuthority, validateApprovalSeparation,
         Verify
  <2> QED
    BY <2>2, <2>3, <2>4, <2>5
<1>2. TypeOK /\ AuthorityInv /\ [Next]_vars => [AuthorizedStep]_vars
  BY <1>1
<1>3. TypeOK /\ AuthorityInv /\ [Next]_vars => AuthorityInv'
  BY AuthorityStep
<1>4. Spec => [][AuthorizedStep]_vars
  BY <1>2, <1>3, TypeCorrect, AuthorityInit, PTL DEF Spec
<1> QED
  BY <1>4 DEF AuthorizedStep, ReleaseIsAuthorized

-----------------------------------------------------------------------------
(* The projection stays valid *)

\* States before a stage is frozen.
Unfrozen == {"created", "running", "completed_no_effect"}

\* States before authority is prepared; a failed review keeps its package.
Unprepared == Unfrozen \cup {"staged", "validating", "validation_failed"}

\* A stage is frozen exactly in the states that need one, with the effects of
\* its tree, and a live transaction keeps the worktree it is compared with.
StageInv ==
  /\ binding /\ state # "aborted" => worktree # NoTree
  /\ state \in FrozenStates => frozen # NoTree
  /\ state \in Unfrozen => frozen = NoTree
  /\ PresentEffects = IF frozen = NoTree THEN {} ELSE EffectsOf[frozen]
  /\ frozen # BaseTree
  /\ PresentEffects # {} /\ taskBound => LatestSucceeded

\* The effects keep step with the transaction.
EffectsInv ==
  /\ state = "staged" => AllEffects("staged")
  /\ state \in {"validating", "validation_failed"} =>
       \A e \in PresentEffects : effects[e] \in {"staged", "validated"}
  /\ (\E n \in Recorded : verifications[n].status = "passed")
       /\ state \notin Authorized \cup {"blocked", "aborted"} => AllEffects("validated")
  /\ state \in {"pending_approval", "ready_to_commit"} => AllEffects("validated")
  /\ state = "committing" => AllEffects("committing")
  /\ state = "committed" => AllEffects("committed")
  /\ state = "release_failed" => AllEffects("failed")
  /\ state = "manual_recovery_required" => AllEffects("unknown")

\* Only the last execution can be active, in the attempt it was started in.
ExecutionsInv ==
  /\ \A i \in DOMAIN executions :
       /\ executions[i].attempt =< attempt
       /\ executions[i].status = "running" =>
            /\ i = Len(executions) /\ executions[i].attempt = attempt
            /\ state \in {"running", "aborted"} /\ frozen = NoTree

\* Results, current and superseded, speak of this attempt's frozen stage.
EvidenceInv ==
  /\ \A n \in Verifiers :
       IF n \in Recorded
       THEN verifications[n].attempt = attempt /\ verifications[n].tree = frozen
       ELSE verifications[n] = NoResult
  /\ \A r \in superseded : r.attempt = attempt /\ r.tree = frozen
  /\ frozen = NoTree => Recorded = {} /\ superseded = {}

\* Plan and package are minted together, from the frozen stage, and numbered.
PlanInv ==
  /\ state \in Unprepared => plan = NoPlan /\ package = NoPackage
  /\ state \in Unfrozen => archived = {}
  /\ state \in Granted => plan # NoPlan /\ package # NoPackage
  /\ state \notin {"compensating", "rolled_back", "partially_committed"}
  /\ plan # NoPlan => /\ plan.attempt = attempt /\ plan.tree = frozen
                      /\ plan.steps = PresentEffects
  /\ package # NoPackage =>
       /\ package.id \in 1..prepared
       /\ plan # NoPlan /\ package.id = plan.id
       /\ package.attempt = attempt /\ package.tree = frozen
       /\ package.policy = plan.policy /\ package.results = verifications
  /\ state = "pending_approval" => outstanding # {}

\* Until release, approvals are decisions of principals who did nothing else.
ReviewInv ==
  state \in {"pending_approval", "ready_to_commit"} =>
    /\ approvals \subseteq decisions
    /\ \A d \in approvals : /\ d.approver \notin actors
                            /\ \A e \in decisions : e.approver = d.approver => e = d

\* The invariant of the projection as a whole.
ProjectionInv ==
  /\ StageInv /\ EffectsInv /\ ExecutionsInv /\ EvidenceInv /\ PlanInv
  /\ ReviewInv /\ validateProjectionHistory /\ PackageLedger


\* A new transaction satisfies it.
LEMMA ProjectionInit == Init => ProjectionInv
<1> SUFFICES ASSUME Init PROVE ProjectionInv
  OBVIOUS
<1>1. PresentEffects = {} /\ Recorded = {}
  BY DEF Init, PresentEffects, NoEffects, Recorded, NoResults, NoResult
<1>2. StageInv
  BY <1>1, TransactionAssumption DEF Init, StageInv, FrozenStates, Unfrozen
<1>3. EffectsInv
  BY <1>1 DEF Init, EffectsInv, AllEffects
<1>4. ExecutionsInv
  BY DEF Init, ExecutionsInv
<1>5. EvidenceInv
  BY <1>1 DEF Init, EvidenceInv, NoResults
<1>6. PlanInv
  BY DEF Init, PlanInv, Granted, Authorized
<1>7. ReviewInv
  BY DEF Init, ReviewInv
<1>8. validateProjectionHistory
  BY DEF Init, validateProjectionHistory
<1>9. PackageLedger
  BY DEF Init, PackageLedger, NoPackage
<1> QED
  BY <1>2, <1>3, <1>4, <1>5, <1>6, <1>7, <1>8, <1>9 DEF ProjectionInv

\* Every receipt is well typed.
LEMMA ReceiptTypes ==
  ASSUME TypeOK
  PROVE  \A i \in DOMAIN executions :
           executions[i].attempt \in Nat /\ executions[i].status \in ExecutionStatus
<1> DEFINE Receipt == [attempt : Nat, status : ExecutionStatus]
<1>1. executions \in Seq(Receipt)
  BY DEF TypeOK
<1>2. \A r \in Receipt : r.attempt \in Nat /\ r.status \in ExecutionStatus
  OBVIOUS
<1> HIDE DEF Receipt
<1>3. \A i \in DOMAIN executions : executions[i] \in Receipt
  BY <1>1
<1> QED
  BY <1>2, <1>3

\* Moving effects between statuses other than absent keeps the set of effects.
LEMMA MoveKeepsPresent ==
  ASSUME NEW from, NEW to, from # "absent", to # "absent", effects' = MoveEffects(from, to)
  PROVE  PresentEffects' = PresentEffects
BY DEF PresentEffects, MoveEffects

\* When all present effects have one status, moving that status moves them all.
LEMMA MoveAll ==
  ASSUME NEW from, NEW to, from # "absent", to # "absent", effects' = MoveEffects(from, to),
         AllEffects(from)
  PROVE  \A e \in PresentEffects' : effects'[e] = to
BY MoveKeepsPresent DEF AllEffects, PresentEffects, MoveEffects

\* Steps that keep the stage, and only leave the frozen or the unfrozen states.
LEMMA StageFrame ==
  ASSUME StageInv, UNCHANGED <<taskBound, attempt, binding, executions, frozen>>,
         PresentEffects' = PresentEffects,
         \/ worktree' = worktree /\ (state = "aborted" => state' = "aborted")
         \/ worktree' # NoTree \/ state' = "aborted",
         state' \in FrozenStates => state \in FrozenStates,
         state' \in Unfrozen => state \in Unfrozen
  PROVE  StageInv'
<1>1. LatestSucceeded' = LatestSucceeded
  BY DEF LatestSucceeded, latestAttemptExecution
<1> QED
  BY <1>1 DEF StageInv

\* Steps that keep stage, results and effects and enter no state that binds them.
LEMMA EffectsFrame ==
  ASSUME EffectsInv, UNCHANGED <<effects, verifications>>,
         \/ state' = state
         \/ state' \in {"blocked", "aborted"}
         \/ state \notin Authorized \cup {"blocked", "aborted"}
            /\ state' \in {"revise_required", "completed_no_effect"}
         \/ state = "pending_approval" /\ state' = "ready_to_commit"
  PROVE  EffectsInv'
<1>1. PresentEffects' = PresentEffects /\ Recorded' = Recorded
  BY DEF PresentEffects, Recorded
<1> QED
  BY <1>1 DEF EffectsInv, AllEffects, Authorized

\* Steps that keep the executions and do not leave running while one is active.
LEMMA ExecutionsFrame ==
  ASSUME ExecutionsInv, UNCHANGED <<attempt, executions, frozen>>,
         ActiveExecution => state' \in {"running", "aborted"}
  PROVE  ExecutionsInv'
BY DEF ExecutionsInv, ActiveExecution

\* Steps that keep the results, the attempt and the stage.
LEMMA EvidenceFrame ==
  ASSUME EvidenceInv, UNCHANGED <<attempt, frozen, verifications, superseded>>
  PROVE  EvidenceInv'
BY DEF EvidenceInv, Recorded

\* Steps that keep plan and package and move between states that agree on them.
LEMMA PlanFrame ==
  ASSUME PlanInv, UNCHANGED <<attempt, frozen, verifications, plan, package, prepared, archived>>,
         PresentEffects' = PresentEffects,
         state' \in Unprepared => state \in Unprepared,
         state' \in Unfrozen => state \in Unfrozen,
         state' \in Granted => state \in Granted,
         state' = "pending_approval" => outstanding' # {},
         state' \notin {"compensating", "rolled_back", "partially_committed"}
  PROVE  PlanInv'
BY DEF PlanInv

\* Steps that take no decision and leave the states in which decisions count,
\* or author nothing.
LEMMA ReviewFrame ==
  ASSUME ReviewInv, UNCHANGED <<approvals, decisions>>,
         \/ state' \notin {"pending_approval", "ready_to_commit"}
         \/ state' = state /\ UNCHANGED actors
  PROVE  ReviewInv'
BY DEF ReviewInv

\* Steps within an attempt that mint and revoke no package.
LEMMA LedgerFrame ==
  ASSUME validateProjectionHistory, PackageLedger,
         UNCHANGED <<attempt, history, package, archived, prepared>>
  PROVE  validateProjectionHistory' /\ PackageLedger'
BY DEF validateProjectionHistory, PackageLedger

\* The ledger of packages when an attempt is archived: its packages, current and
\* revoked, move to the history together.
LEMMA ArchiveAttempt ==
  ASSUME TypeOK, ProjectionInv, NEW p \in Principals, startTransaction(p)
  PROVE  validateProjectionHistory' /\ PackageLedger'
<1> USE DEF ProjectionInv
<1>1. /\ state \in {"created", "staged", "validation_failed", "revise_required"}
      /\ prepared' = prepared /\ package' = NoPackage /\ archived' = {}
  BY DEF startTransaction, StateChange, CanTransition, transactionTransitions,
         invalidateFrozenState
<1>2. package'.id = 0
  BY <1>1 DEF NoPackage
<1>3. CASE state = "created"
  <2>1. UNCHANGED <<attempt, history>>
    BY <1>3 DEF startTransaction
  <2>2. package = NoPackage /\ archived = {}
    BY <1>3 DEF PlanInv, Unprepared, Unfrozen
  <2> QED
    BY <1>1, <2>1, <2>2, LedgerFrame
<1>4. CASE state # "created"
  <2> DEFINE snap == [attempt |-> attempt, state |-> state, tree |-> frozen,
                      packages |-> archived \cup ({package.id} \ {0})]
  <2>1. history' = Append(history, snap) /\ attempt' = attempt + 1
    BY <1>4 DEF startTransaction, beginNextAttempt
  <2>2. history \in Seq(Snapshot) /\ attempt \in Nat /\ Len(history) = attempt - 1
    BY DEF TypeOK, validateProjectionHistory
  <2>3. /\ DOMAIN history' = 1..attempt /\ Len(history') = attempt
        /\ DOMAIN history = 1..(attempt - 1)
        /\ history'[attempt] = snap /\ \A i \in DOMAIN history : history'[i] = history[i]
    BY <2>1, <2>2
  <2>4. frozen # NoTree
    BY <1>1, <1>4 DEF StageInv, FrozenStates
  <2>5. validateProjectionHistory'
    <3>1. ASSUME NEW i \in DOMAIN history'
          PROVE  /\ history'[i].attempt = i /\ history'[i].tree # NoTree
                 /\ history'[i].state \in {"staged", "validation_failed", "revise_required"}
      <4>1. CASE i = attempt
        BY <1>1, <1>4, <2>3, <2>4, <4>1
      <4>2. CASE i # attempt
        <5>1. i \in DOMAIN history
          BY <2>2, <2>3, <4>2
        <5> QED
          BY <2>3, <5>1 DEF validateProjectionHistory
      <4> QED
        BY <4>1, <4>2
    <3>2. Len(history') = attempt' - 1
      BY <2>1, <2>2, <2>3
    <3> QED
      BY <3>1, <3>2 DEF validateProjectionHistory
  <2> DEFINE past == UNION {history[i].packages : i \in DOMAIN history}
             current == {package.id} \ {0}
  <2>6. attempt \in DOMAIN history' /\ attempt \notin DOMAIN history
        /\ DOMAIN history' = DOMAIN history \cup {attempt}
    <3>1. attempt # 0
      BY <2>2, <2>3
    <3> QED
      BY <2>2, <2>3, <3>1
  <2>7. history'[attempt].packages = archived \cup current
    BY <2>3
  <2>8. /\ 1..prepared = current \cup archived \cup past
        /\ (current \cup archived) \cap past = {}
        /\ \A i, j \in DOMAIN history :
             i # j => history[i].packages \cap history[j].packages = {}
    BY DEF PackageLedger
  <2>9. \A i \in DOMAIN history : history[i].packages \subseteq past
    OBVIOUS
  <2>10. UNION {history'[i].packages : i \in DOMAIN history'} = past \cup archived \cup current
    BY <2>3, <2>6, <2>7
  <2>11. ASSUME NEW i \in DOMAIN history', NEW j \in DOMAIN history', i # j
         PROVE  history'[i].packages \cap history'[j].packages = {}
    <3> HIDE DEF past, current, snap
    <3>1. CASE i = attempt
      BY <2>3, <2>6, <2>7, <2>8, <2>9, <2>11, <3>1
    <3>2. CASE j = attempt
      BY <2>3, <2>6, <2>7, <2>8, <2>9, <2>11, <3>2
    <3>3. CASE i # attempt /\ j # attempt
      BY <2>3, <2>6, <2>8, <2>11, <3>3
    <3> QED
      BY <3>1, <3>2, <3>3
  <2>12. {package'.id} \ {0} = {}
    BY <1>2
  <2> HIDE DEF past, current, snap
  <2>13. PackageLedger'
    BY <1>1, <2>8, <2>10, <2>11, <2>12 DEF PackageLedger
  <2> QED
    BY <2>5, <2>13
<1> QED
  BY <1>3, <1>4

\* A new attempt: the current one is archived as a whole, with its packages, and
\* nothing of it is carried over.
LEMMA ProjectionStart ==
  ASSUME TypeOK, ProjectionInv, NEW p \in Principals, startTransaction(p)
  PROVE  ProjectionInv'
<1> USE DEF ProjectionInv
<1>1. /\ state \in {"created", "staged", "validation_failed", "revise_required"}
      /\ state' = "running" /\ invalidateFrozenState
      /\ UNCHANGED <<taskBound, binding, executions, decisions, prepared, worktree>>
  BY DEF startTransaction, StateChange, CanTransition, transactionTransitions
<1>2. /\ frozen' = NoTree /\ effects' = NoEffects /\ verifications' = NoResults
      /\ superseded' = {} /\ plan' = NoPlan /\ package' = NoPackage
      /\ outstanding' = {} /\ approvals' = {} /\ archived' = {}
  BY <1>1 DEF invalidateFrozenState
<1>3. PresentEffects' = {} /\ Recorded' = {}
  BY <1>2 DEF PresentEffects, NoEffects, Recorded, NoResults, NoResult
<1>5. ~ActiveExecution
  BY <1>1 DEF ExecutionsInv, ActiveExecution
<1>6. StageInv'
  BY <1>1, <1>2, <1>3, TransactionAssumption DEF StageInv, FrozenStates
<1>7. EffectsInv'
  BY <1>1, <1>3 DEF EffectsInv, AllEffects
<1>8. ExecutionsInv'
  <2>1. attempt' \in {attempt, attempt + 1}
    BY DEF startTransaction, beginNextAttempt
  <2>2. attempt \in Nat
    BY DEF TypeOK
  <2>3. \A i \in DOMAIN executions : executions[i].attempt =< attempt'
    BY <2>1, <2>2, ReceiptTypes DEF ExecutionsInv
  <2> QED
    BY <1>1, <1>5, <2>3 DEF ExecutionsInv, ActiveExecution
<1>9. EvidenceInv'
  BY <1>2, <1>3 DEF EvidenceInv, NoResults
<1>10. PlanInv'
  BY <1>1, <1>2 DEF PlanInv, Granted, Authorized
<1>11. ReviewInv'
  BY <1>1 DEF ReviewInv
<1>12. validateProjectionHistory' /\ PackageLedger'
  BY ArchiveAttempt
<1> QED
  BY <1>6, <1>7, <1>8, <1>9, <1>10, <1>11, <1>12

\* A worktree is created once, while nothing is staged.
LEMMA ProjectionCreateWorktree ==
  ASSUME TypeOK, ProjectionInv, NEW p \in Principals, createTransactionWorktree(p)
  PROVE  ProjectionInv'
<1> USE DEF ProjectionInv
<1>1. /\ state = "running" /\ state' = state /\ worktree' # NoTree
      /\ UNCHANGED <<taskBound, attempt, executions, frozen, effects, verifications,
                     superseded, plan, package, outstanding, approvals, archived, history,
                     decisions, prepared>>
  BY TransactionAssumption DEF createTransactionWorktree, applyStageBindingCreated, stage,
       evidence, authority
<1>2. PresentEffects' = PresentEffects /\ LatestSucceeded' = LatestSucceeded
  BY <1>1 DEF PresentEffects, LatestSucceeded, latestAttemptExecution
<1>3. StageInv'
  BY <1>1, <1>2 DEF StageInv
<1>4. EffectsInv' /\ ExecutionsInv' /\ EvidenceInv'
  BY <1>1, EffectsFrame, ExecutionsFrame, EvidenceFrame
<1>5. PlanInv' /\ ReviewInv'
  BY <1>1, <1>2, PlanFrame, ReviewFrame
<1> QED
  BY <1>1, <1>3, <1>4, <1>5, LedgerFrame

\* Starting an execution or recording its receipt disturbs the executions only.
LEMMA ProjectionExecution ==
  ASSUME TypeOK, ProjectionInv, state = "running", state' = state, worktree' = worktree,
         UNCHANGED <<taskBound, attempt, binding, frozen, effects, verifications,
                     superseded, plan, package, outstanding, approvals, archived,
                     history, decisions, prepared>>,
         ExecutionsInv'
  PROVE  ProjectionInv'
<1> USE DEF ProjectionInv
<1>1. PresentEffects' = PresentEffects /\ PresentEffects = {}
  BY DEF PresentEffects, StageInv, Unfrozen
<1>2. StageInv'
  BY <1>1 DEF StageInv
<1>3. EffectsInv' /\ EvidenceInv'
  BY EffectsFrame, EvidenceFrame
<1>4. PlanInv' /\ ReviewInv'
  BY <1>1, PlanFrame, ReviewFrame
<1> QED
  BY <1>2, <1>3, <1>4, LedgerFrame

\* An execution starts in the current attempt, after every other has ended.
LEMMA ProjectionExecutionStarted ==
  ASSUME TypeOK, ProjectionInv, NEW p \in Principals, applyAgentExecutionStarted(p)
  PROVE  ProjectionInv'
<1>1. /\ state = "running" /\ ~ActiveExecution
      /\ executions' = Append(executions, [attempt |-> attempt, status |-> "running"])
      /\ UNCHANGED <<attempt, frozen, state>>
  BY DEF applyAgentExecutionStarted, stage
<1>2. executions \in Seq([attempt : Nat, status : ExecutionStatus]) /\ attempt \in Nat
  BY DEF TypeOK
<1>3. frozen = NoTree
  BY <1>1 DEF ProjectionInv, StageInv, Unfrozen
<1>4. /\ Len(executions') = Len(executions) + 1 /\ DOMAIN executions' = 1..Len(executions')
      /\ DOMAIN executions = 1..Len(executions) /\ Len(executions) \in Nat
      /\ executions'[Len(executions) + 1] = [attempt |-> attempt, status |-> "running"]
      /\ \A i \in DOMAIN executions : executions'[i] = executions[i]
  BY <1>1, <1>2
<1>5. ASSUME NEW i \in DOMAIN executions'
      PROVE  /\ executions'[i].attempt =< attempt'
             /\ executions'[i].status = "running" =>
                  /\ i = Len(executions') /\ executions'[i].attempt = attempt'
                  /\ state' \in {"running", "aborted"} /\ frozen' = NoTree
  <2>1. CASE i = Len(executions')
    BY <1>1, <1>2, <1>3, <1>4, <2>1
  <2>2. CASE i # Len(executions')
    <3>1. i \in DOMAIN executions /\ executions'[i] = executions[i]
      BY <1>4, <2>2
    <3> QED
      BY <1>1, <3>1 DEF ProjectionInv, ExecutionsInv, ActiveExecution
  <2> QED
    BY <2>1, <2>2
<1>6. ExecutionsInv'
  BY <1>5 DEF ExecutionsInv
<1> QED
  BY <1>6, ProjectionExecution DEF applyAgentExecutionStarted, stage, evidence, authority

\* A receipt ends the active execution and leaves the others alone.
LEMMA ProjectionExecutionFinished ==
  ASSUME TypeOK, ProjectionInv, NEW p \in Principals, NEW s \in {"succeeded", "unsuccessful"},
         applyAgentExecutionFinished(p, s)
  PROVE  ProjectionInv'
<1>1. PICK k \in DOMAIN executions : executions' = [executions EXCEPT ![k].status = s]
  BY DEF applyAgentExecutionFinished
<1>2. executions \in Seq([attempt : Nat, status : ExecutionStatus])
  BY DEF TypeOK
<1>3. DOMAIN executions' = DOMAIN executions /\ Len(executions') = Len(executions)
  BY <1>1, <1>2
<1>4. \A i \in DOMAIN executions :
        /\ executions'[i].attempt = executions[i].attempt
        /\ executions'[i].status = "running" => executions[i].status = "running"
  <2>1. \A i \in DOMAIN executions :
          executions'[i] = IF i = k THEN [executions[k] EXCEPT !.status = s] ELSE executions[i]
    BY <1>1, <1>2
  <2>2. executions[k] \in [attempt : Nat, status : ExecutionStatus]
    <3> DEFINE Receipt == [attempt : Nat, status : ExecutionStatus]
    <3>1. executions \in Seq(Receipt)
      BY <1>2
    <3> HIDE DEF Receipt
    <3>2. executions[k] \in Receipt
      BY <3>1
    <3> QED
      BY <3>2 DEF Receipt
  <2>3. /\ [executions[k] EXCEPT !.status = s].attempt = executions[k].attempt
        /\ [executions[k] EXCEPT !.status = s].status = s
    BY <2>2
  <2> QED
    BY <2>1, <2>3
<1>5. ExecutionsInv'
  BY <1>3, <1>4 DEF ProjectionInv, ExecutionsInv, applyAgentExecutionFinished, stage
<1> QED
  BY <1>5, ProjectionExecution DEF applyAgentExecutionFinished, stage, evidence, authority

\* Freezing records the effects of the worktree's tree, and only when there are
\* some.
LEMMA ProjectionStage ==
  ASSUME TypeOK, ProjectionInv, NEW p \in Principals, stageTransaction(p)
  PROVE  ProjectionInv'
<1> USE DEF ProjectionInv
<1>1. /\ state = "running" /\ binding /\ ~ActiveExecution /\ PresentEffects = {}
      /\ taskBound => LatestSucceeded
      /\ UNCHANGED <<taskBound, attempt, binding, executions, verifications, superseded,
                     plan, package, outstanding, approvals, archived, history, decisions,
                     prepared, worktree>>
  BY DEF stageTransaction, StageGate, evidence, authority
<1>2. LatestSucceeded' = LatestSucceeded /\ Recorded' = Recorded
  BY <1>1 DEF LatestSucceeded, latestAttemptExecution, Recorded
<1>3. frozen = NoTree /\ Recorded = {} /\ superseded = {} /\ worktree \in Trees
  BY <1>1 DEF StageInv, Unfrozen, EvidenceInv, TypeOK
<1>4. CASE EffectsOf[worktree] = {}
  <2>1. state' = "completed_no_effect" /\ UNCHANGED <<frozen, effects>>
    BY <1>4 DEF stageTransaction, stage
  <2>2. PresentEffects' = PresentEffects
    BY <2>1 DEF PresentEffects
  <2>3. StageInv' /\ EffectsInv' /\ ExecutionsInv' /\ EvidenceInv'
    BY <1>1, <2>1, <2>2, StageFrame, EffectsFrame, ExecutionsFrame, EvidenceFrame
       DEF FrozenStates, Unfrozen, Authorized
  <2>4. PlanInv' /\ ReviewInv'
    BY <1>1, <2>1, <2>2, PlanFrame, ReviewFrame DEF Unprepared, Unfrozen, Granted, Authorized
  <2> QED
    BY <1>1, <2>3, <2>4, LedgerFrame
<1>5. CASE EffectsOf[worktree] # {}
  <2>1. /\ state' = "staged" /\ frozen' = worktree
        /\ effects' = [e \in EffectIDs |->
                         IF e \in EffectsOf[worktree] THEN "staged" ELSE "absent"]
    BY <1>5 DEF stageTransaction, applyStaged, applyEffectAdded
  <2>2. PresentEffects' = EffectsOf[worktree] /\ AllEffects("staged")'
    BY <1>3, <2>1, TransactionAssumption DEF PresentEffects, AllEffects
  <2>3. worktree # BaseTree /\ worktree # NoTree
    BY <1>3, <1>5, TransactionAssumption
  <2>4. StageInv'
    BY <1>1, <1>2, <2>1, <2>2, <2>3 DEF StageInv, Unfrozen
  <2>5. EffectsInv'
    BY <1>2, <1>3, <2>1, <2>2 DEF EffectsInv
  <2>6. ExecutionsInv'
    BY <1>1, <2>1 DEF ExecutionsInv, ActiveExecution
  <2>7. EvidenceInv'
    BY <1>1, <1>2, <1>3, <2>1, <2>3 DEF EvidenceInv
  <2>8. PlanInv' /\ ReviewInv'
    BY <1>1, <2>1 DEF PlanInv, ReviewInv, Unprepared, Unfrozen, Granted, Authorized
  <2> QED
    BY <1>1, <2>4, <2>5, <2>6, <2>7, <2>8, LedgerFrame
<1> QED
  BY <1>4, <1>5

\* The policy's first verdict on the stage.
LEMMA ProjectionValidateStep ==
  ASSUME TypeOK, ProjectionInv, NEW p \in Principals, validateTransaction(p)
  PROVE  ProjectionInv'
<1> USE DEF ProjectionInv
<1>1. /\ state = "staged" /\ state' \in {"blocked", "revise_required", "validating"}
      /\ UNCHANGED <<taskBound, attempt, binding, executions, frozen, effects,
                     verifications, superseded, plan, package, outstanding, approvals,
                     archived, history, decisions, prepared, worktree>>
  BY DEF validateTransaction, stage, evidence, authority
<1>2. PresentEffects' = PresentEffects /\ Recorded' = Recorded
  BY <1>1 DEF PresentEffects, Recorded
<1>3. StageInv' /\ EvidenceInv'
  BY <1>1, <1>2, StageFrame, EvidenceFrame DEF FrozenStates, Unfrozen
<1>4. ExecutionsInv'
  BY <1>1 DEF ExecutionsInv
<1>5. EffectsInv'
  BY <1>1, <1>2 DEF EffectsInv, AllEffects, Authorized
<1>6. PlanInv' /\ ReviewInv'
  BY <1>1, <1>2, PlanFrame, ReviewFrame DEF Unprepared, Unfrozen, Granted, Authorized
<1> QED
  BY <1>1, <1>3, <1>4, <1>5, <1>6, LedgerFrame

\* A result is recorded for the current attempt and stage; the one it replaces
\* was about them too.  A passing result validates every effect.
LEMMA ProjectionVerification ==
  ASSUME TypeOK, ProjectionInv, NEW p, NEW n \in Verifiers,
         NEW s \in {"passed", "failed", "indeterminate"}, NEW i,
         recordVerification(p, n, s, i)
  PROVE  ProjectionInv'
<1> USE DEF ProjectionInv
<1>1. /\ state \in {"validating", "validation_failed"}
      /\ state' = IF s = "passed" THEN "validating" ELSE "validation_failed"
      /\ effects' = IF s = "passed" THEN MoveEffects("staged", "validated") ELSE effects
      /\ superseded' = superseded \cup ({verifications[n]} \ {NoResult})
      /\ UNCHANGED <<taskBound, attempt, binding, executions, frozen,
                     plan, package, outstanding, approvals, archived, history, decisions,
                     prepared, worktree>>
  BY DEF recordVerification, applyVerificationSuperseded, authority
<1>2. /\ verifications'[n].attempt = attempt /\ verifications'[n].tree = frozen
      /\ verifications'[n].status = s
      /\ \A m \in Verifiers \ {n} : verifications'[m] = verifications[m]
  BY DEF recordVerification, applyVerification, TypeOK
<1>3. Recorded' = Recorded \cup {n}
  BY <1>2 DEF Recorded
<1>4. frozen # NoTree
  BY <1>1 DEF StageInv, FrozenStates
<1>5. PresentEffects' = PresentEffects
  BY <1>1, MoveKeepsPresent DEF PresentEffects
<1>6. StageInv'
  BY <1>1, <1>5, StageFrame DEF FrozenStates, Unfrozen
<1>7. ExecutionsInv'
  BY <1>1 DEF ExecutionsInv
<1>8. EvidenceInv'
  <2>1. \A r \in superseded' : r.attempt = attempt /\ r.tree = frozen
    BY <1>1 DEF EvidenceInv
  <2>2. \A m \in Verifiers :
          IF m \in Recorded'
          THEN verifications'[m].attempt = attempt /\ verifications'[m].tree = frozen
          ELSE verifications'[m] = NoResult
    BY <1>2, <1>3 DEF EvidenceInv
  <2> QED
    BY <1>1, <1>4, <2>1, <2>2 DEF EvidenceInv
<1>9. \A e \in PresentEffects : effects[e] \in {"staged", "validated"}
  BY <1>1 DEF EffectsInv
<1>10. EffectsInv'
  <2>1. CASE s = "passed"
    <3>1. \A e \in PresentEffects' : effects'[e] = "validated"
      BY <1>1, <1>5, <1>9, <2>1 DEF MoveEffects, PresentEffects
    <3>2. state' = "validating"
      BY <1>1, <2>1
    <3> QED
      BY <3>1, <3>2 DEF EffectsInv, AllEffects
  <2>2. CASE s # "passed"
    <3>1. effects' = effects /\ state' = "validation_failed"
      BY <1>1, <2>2
    <3>2. (\E m \in Recorded' : verifications'[m].status = "passed") => AllEffects("validated")
      BY <1>1, <1>2, <1>3, <2>2 DEF EffectsInv, Authorized, Recorded
    <3> QED
      BY <1>5, <1>9, <3>1, <3>2 DEF EffectsInv, AllEffects
  <2> QED
    BY <2>1, <2>2
<1>11. PlanInv' /\ ReviewInv'
  BY <1>1 DEF PlanInv, ReviewInv, Unprepared, Unfrozen, Granted, Authorized
<1> QED
  BY <1>1, <1>6, <1>7, <1>8, <1>10, <1>11, LedgerFrame

\* Plan and package are minted from the stage and the results they are checked
\* against, under the next number.
LEMMA ProjectionPrepare ==
  ASSUME TypeOK, AuthorityInv, ProjectionInv, NEW p \in Principals, prepareTransaction(p)
  PROVE  ProjectionInv'
<1> USE DEF ProjectionInv
<1>1. /\ state = "validating" /\ AllEffects("validated")
      /\ state' \in {"pending_approval", "ready_to_commit"}
      /\ state' = "pending_approval" => outstanding' = {prepared + 1}
      /\ prepared' = prepared + 1 /\ prepared \in Nat
      /\ UNCHANGED <<taskBound, attempt, binding, executions, frozen, effects,
                     verifications, superseded, approvals, archived, history, decisions,
                     worktree>>
  BY DEF prepareTransaction, PrepareAuthority, stage, evidence, TypeOK
<1>2. /\ plan'.id = prepared + 1 /\ plan'.attempt = attempt /\ plan'.tree = frozen
      /\ plan'.steps = PresentEffects /\ plan'.policy = policy
      /\ package'.id = prepared + 1 /\ package'.attempt = attempt /\ package'.tree = frozen
      /\ package'.policy = policy /\ package'.results = verifications
  BY DEF prepareTransaction, applyCommitPlan, applyApprovalPackage
<1>3. plan' # NoPlan /\ package' # NoPackage
  BY <1>1, <1>2 DEF NoPlan, NoPackage
<1>4. package = NoPackage /\ approvals = {}
  BY <1>1 DEF PlanInv, Unprepared, AuthorityInv, NoEarlyApproval
<1>5. PresentEffects' = PresentEffects
  BY <1>1 DEF PresentEffects
<1>6. StageInv' /\ EvidenceInv'
  BY <1>1, <1>5, StageFrame, EvidenceFrame DEF FrozenStates, Unfrozen
<1>7. ExecutionsInv'
  BY <1>1 DEF ExecutionsInv
<1>8. EffectsInv'
  BY <1>1, <1>5 DEF EffectsInv, AllEffects, Authorized
<1>9. PlanInv'
  BY <1>1, <1>2, <1>3, <1>5 DEF PlanInv, Unprepared, Unfrozen
<1>10. ReviewInv'
  BY <1>1, <1>4 DEF ReviewInv
<1>11. validateProjectionHistory'
  BY <1>1 DEF validateProjectionHistory
<1>12. PackageLedger'
  <2> DEFINE past == UNION {history[i].packages : i \in DOMAIN history}
  <2>1. package.id = 0
    BY <1>4 DEF NoPackage
  <2>2. /\ 1..prepared = archived \cup past /\ archived \cap past = {}
        /\ \A i, j \in DOMAIN history :
             i # j => history[i].packages \cap history[j].packages = {}
    BY <2>1 DEF PackageLedger
  <2>3. past' = past
    BY <1>1
  <2> HIDE DEF past
  <2>4. 1..(prepared + 1) = 1..prepared \cup {prepared + 1} /\ prepared + 1 \notin 1..prepared
    BY <1>1
  <2>5. {package'.id} \ {0} = {prepared + 1}
    BY <1>1, <1>2
  <2>6. /\ 1..prepared' = ({package'.id} \ {0}) \cup archived' \cup past'
        /\ ({package'.id} \ {0}) \cap archived' = {}
        /\ (({package'.id} \ {0}) \cup archived') \cap past' = {}
    BY <1>1, <2>2, <2>3, <2>4, <2>5
  <2> QED
    BY <1>1, <2>2, <2>6 DEF PackageLedger, past
<1> QED
  BY <1>6, <1>7, <1>8, <1>9, <1>10, <1>11, <1>12

\* Renewal revokes plan, package and approvals together, and supersedes the
\* results that expired.
LEMMA ProjectionRenew ==
  ASSUME TypeOK, ProjectionInv, NEW p \in Principals, renewTransactionAuthority(p)
  PROVE  ProjectionInv'
<1> USE DEF ProjectionInv
<1> DEFINE stale == {n \in Recorded : ~Current(verifications[n].expires)}
<1>1. /\ state \in {"pending_approval", "ready_to_commit"} /\ state' = "validating"
      /\ package # NoPackage
      /\ plan' = NoPlan /\ package' = NoPackage
      /\ archived' = archived \cup {package.id}
      /\ superseded' = superseded \cup {verifications[n] : n \in stale}
      /\ verifications' = [n \in Verifiers |->
             IF n \in stale THEN NoResult ELSE verifications[n]]
      /\ UNCHANGED <<taskBound, attempt, binding, executions, frozen, effects,
                     history, decisions, prepared, worktree>>
  BY DEF renewTransactionAuthority, applyAuthorityRenewed, stage
<1>2. PresentEffects' = PresentEffects
  BY <1>1 DEF PresentEffects
<1>3. StageInv'
  BY <1>1, <1>2, StageFrame DEF FrozenStates, Unfrozen
<1>4. ExecutionsInv'
  BY <1>1 DEF ExecutionsInv
<1>5. EffectsInv'
  BY <1>1, <1>2 DEF EffectsInv, AllEffects
<1>6. EvidenceInv'
  <2>1. Recorded' = Recorded \ stale
    BY <1>1 DEF Recorded, NoResult
  <2>2. \A n \in stale : verifications[n].attempt = attempt /\ verifications[n].tree = frozen
    BY DEF EvidenceInv, Recorded
  <2>3. \A r \in superseded' : r.attempt = attempt /\ r.tree = frozen
    BY <1>1, <2>2 DEF EvidenceInv
  <2>4. \A n \in Verifiers :
          IF n \in Recorded'
          THEN verifications'[n].attempt = attempt /\ verifications'[n].tree = frozen
          ELSE verifications'[n] = NoResult
    BY <1>1, <2>1 DEF EvidenceInv
  <2>5. frozen # NoTree
    BY <1>1 DEF StageInv, FrozenStates
  <2> QED
    BY <1>1, <2>3, <2>4, <2>5 DEF EvidenceInv
<1>7. PlanInv' /\ ReviewInv'
  BY <1>1 DEF PlanInv, ReviewInv, Unfrozen, Granted, Authorized
<1>8. validateProjectionHistory'
  BY <1>1 DEF validateProjectionHistory
<1>9. PackageLedger'
  <2> DEFINE past == UNION {history[i].packages : i \in DOMAIN history}
  <2>1. package.id \in 1..prepared /\ package.id # 0 /\ package'.id = 0
    BY <1>1 DEF PlanInv, NoPackage, TypeOK
  <2>2. /\ 1..prepared = {package.id} \cup archived \cup past
        /\ ({package.id} \cup archived) \cap past = {}
        /\ \A i, j \in DOMAIN history :
             i # j => history[i].packages \cap history[j].packages = {}
    BY <2>1 DEF PackageLedger
  <2>3. past' = past
    BY <1>1
  <2> HIDE DEF past
  <2>4. {package'.id} \ {0} = {}
    BY <2>1
  <2>5. /\ 1..prepared' = ({package'.id} \ {0}) \cup archived' \cup past'
        /\ ({package'.id} \ {0}) \cap archived' = {}
        /\ (({package'.id} \ {0}) \cup archived') \cap past' = {}
    BY <1>1, <2>2, <2>3, <2>4
  <2> QED
    BY <1>1, <2>2, <2>5 DEF PackageLedger, past
<1> QED
  BY <1>3, <1>4, <1>5, <1>6, <1>7, <1>8, <1>9

\* A decision by somebody who did nothing else on the transaction, and so not by
\* the author of a decision already counted.
LEMMA ProjectionResolve ==
  ASSUME TypeOK, ProjectionInv, NEW d \in signed, resolveTransactionApproval(d)
  PROVE  ProjectionInv'
<1> USE DEF ProjectionInv
<1>1. /\ state = "pending_approval" /\ decisions' = decisions \cup {d}
      /\ state' \in {"pending_approval", "ready_to_commit", "blocked", "revise_required"}
      /\ state' = "pending_approval" => outstanding' # {}
      /\ state' \in {"pending_approval", "ready_to_commit"} => approvals' = approvals \cup {d}
      /\ UNCHANGED <<taskBound, attempt, binding, executions, frozen, effects,
                     verifications, superseded, plan, package, archived, history,
                     actors, prepared, worktree>>
  BY DEF resolveTransactionApproval, applyApprovalResolution, stage, evidence
<1>2. d.approver \notin actors /\ \A o \in decisions : o # d => o.approver # d.approver
  BY DEF resolveTransactionApproval, validateApprovalSeparation
<1>3. PresentEffects' = PresentEffects
  BY <1>1 DEF PresentEffects
<1>4. StageInv' /\ EvidenceInv'
  BY <1>1, <1>3, StageFrame, EvidenceFrame DEF FrozenStates, Unfrozen
<1>5. EffectsInv'
  BY <1>1, EffectsFrame DEF Authorized
<1>6. ExecutionsInv'
  BY <1>1 DEF ExecutionsInv
<1>7. PlanInv'
  BY <1>1, <1>3, PlanFrame DEF Unprepared, Unfrozen, Granted, Authorized
<1>8. ReviewInv'
  BY <1>1, <1>2 DEF ReviewInv
<1> QED
  BY <1>1, <1>4, <1>5, <1>6, <1>7, <1>8, LedgerFrame

\* The first half of a release moves all effects with the transaction.
LEMMA ProjectionBeginRelease ==
  ASSUME TypeOK, ProjectionInv, NEW p \in Principals, BeginRelease(p)
  PROVE  ProjectionInv'
<1> USE DEF ProjectionInv
<1>1. /\ state = "ready_to_commit" /\ state' = "committing" /\ AllEffects("validated")
      /\ effects' = MoveEffects("validated", "committing")
      /\ UNCHANGED <<taskBound, attempt, binding, executions, frozen,
                     verifications, superseded, plan, package, outstanding, approvals,
                     archived, history, decisions, prepared, worktree>>
  BY DEF BeginRelease, evidence, authority
<1>2. PresentEffects' = PresentEffects /\ \A e \in PresentEffects' : effects'[e] = "committing"
  BY <1>1, MoveKeepsPresent, MoveAll
<1>3. StageInv' /\ EvidenceInv'
  BY <1>1, <1>2, StageFrame, EvidenceFrame DEF FrozenStates, Unfrozen
<1>4. EffectsInv'
  BY <1>1, <1>2 DEF EffectsInv, AllEffects, Authorized
<1>5. ExecutionsInv'
  BY <1>1 DEF ExecutionsInv
<1>6. PlanInv' /\ ReviewInv'
  BY <1>1, <1>2, PlanFrame, ReviewFrame DEF Unprepared, Unfrozen, Granted, Authorized
<1> QED
  BY <1>1, <1>3, <1>4, <1>5, <1>6, LedgerFrame

\* So does the second half, whatever PublishCommit reported.
LEMMA ProjectionFinishRelease ==
  ASSUME TypeOK, ProjectionInv, NEW o \in DOMAIN PublishOutcome, FinishRelease(o)
  PROVE  ProjectionInv'
<1> USE DEF ProjectionInv
<1> DEFINE to == PublishOutcome[o].effect
<1>1. /\ state = "committing" /\ state' = PublishOutcome[o].state
      /\ effects' = MoveEffects("committing", to)
      /\ UNCHANGED <<taskBound, attempt, binding, executions, frozen,
                     verifications, superseded, plan, package, outstanding, approvals,
                     archived, history, decisions, prepared, worktree>>
  BY DEF FinishRelease, ReleasedEffects, evidence, authority
<1>2. /\ to # "absent"
      /\ \/ state' = "committed" /\ to = "committed"
         \/ state' = "release_failed" /\ to = "failed"
         \/ state' = "manual_recovery_required" /\ to = "unknown"
  BY <1>1 DEF PublishOutcome
<1> HIDE DEF to
<1>3. AllEffects("committing")
  BY <1>1 DEF EffectsInv
<1>4. PresentEffects' = PresentEffects /\ \A e \in PresentEffects' : effects'[e] = to
  BY <1>1, <1>2, <1>3, MoveKeepsPresent, MoveAll
<1>5. StageInv' /\ EvidenceInv'
  BY <1>1, <1>2, <1>4, StageFrame, EvidenceFrame DEF FrozenStates, Unfrozen
<1>6. EffectsInv'
  BY <1>2, <1>4 DEF EffectsInv, AllEffects, Authorized
<1>7. ExecutionsInv'
  BY <1>1 DEF ExecutionsInv
<1>8. PlanInv' /\ ReviewInv'
  BY <1>1, <1>2, <1>4, PlanFrame, ReviewFrame DEF Unprepared, Unfrozen, Granted, Authorized
<1> QED
  BY <1>1, <1>5, <1>6, <1>7, <1>8, LedgerFrame

\* Aborting keeps the projection as it was.
LEMMA ProjectionAbort ==
  ASSUME TypeOK, ProjectionInv, NEW p \in Principals, abortTransaction(p)
  PROVE  ProjectionInv'
<1> USE DEF ProjectionInv
<1>1. /\ state' = "aborted"
      /\ UNCHANGED <<taskBound, attempt, binding, executions, frozen, effects,
                     verifications, superseded, plan, package, outstanding, approvals,
                     archived, history, decisions, prepared>>
  BY DEF abortTransaction, stage, evidence, authority
<1>2. PresentEffects' = PresentEffects
  BY <1>1 DEF PresentEffects
<1>3. StageInv' /\ EffectsInv' /\ ExecutionsInv' /\ EvidenceInv'
  BY <1>1, <1>2, StageFrame, EffectsFrame, ExecutionsFrame, EvidenceFrame
     DEF FrozenStates, Unfrozen
<1>4. PlanInv' /\ ReviewInv'
  BY <1>1, <1>2, PlanFrame, ReviewFrame DEF Unprepared, Unfrozen, Granted, Authorized
<1> QED
  BY <1>1, <1>3, <1>4, LedgerFrame

\* Steps that append nothing: a late retry, signatures, writes of the agent,
\* restarts and the clock.
LEMMA ProjectionKept ==
  ASSUME TypeOK, ProjectionInv, UNCHANGED projection, worktree' = worktree \/ worktree' # NoTree
  PROVE  ProjectionInv'
<1> USE DEF ProjectionInv
<1>1. UNCHANGED <<taskBound, state, attempt, binding, executions, frozen, effects,
                  verifications, superseded, plan, package, outstanding, approvals,
                  archived, history, actors, decisions, prepared>>
  BY DEF projection
<1>2. PresentEffects' = PresentEffects /\ (ActiveExecution => state \in {"running", "aborted"})
  BY <1>1 DEF PresentEffects, ExecutionsInv, ActiveExecution
<1>3. StageInv' /\ EffectsInv' /\ ExecutionsInv' /\ EvidenceInv'
  BY <1>1, <1>2, StageFrame, EffectsFrame, ExecutionsFrame, EvidenceFrame
<1>4. PlanInv' /\ ReviewInv'
  BY <1>1, <1>2, PlanFrame, ReviewFrame DEF PlanInv
<1> QED
  BY <1>1, <1>3, <1>4, LedgerFrame

\* Every step preserves the invariant of the projection.
LEMMA ProjectionStep ==
  ASSUME TypeOK, AuthorityInv, ProjectionInv, [Next]_vars
  PROVE  ProjectionInv'
<1>1. ASSUME NEW p \in Principals, Request(p) PROVE ProjectionInv'
  <2>1. ASSUME NEW n \in Verifiers, NEW s \in {"passed", "failed", "indeterminate"},
               recordTransactionVerification(p, n, s) \/ runTransactionVerification(p, n, s)
        PROVE  ProjectionInv'
    BY <2>1, ProjectionVerification
       DEF recordTransactionVerification, runTransactionVerification
  <2>2. ASSUME RetryRelease(p) PROVE ProjectionInv'
    BY <2>2, ProjectionKept DEF RetryRelease
  <2> QED
    BY <1>1, <2>1, <2>2, ProjectionStart, ProjectionCreateWorktree,
       ProjectionExecutionStarted, ProjectionExecutionFinished, ProjectionStage,
       ProjectionValidateStep, ProjectionPrepare, ProjectionRenew, ProjectionBeginRelease,
       ProjectionAbort DEF Request
<1>2. ASSUME NEW a, NEW v, NEW e, SignDecision(a, v, e) PROVE ProjectionInv'
  BY <1>2, ProjectionKept DEF SignDecision
<1>3. ASSUME NEW t \in Trees, MutateWorktree(t) PROVE ProjectionInv'
  BY <1>3, ProjectionKept, TransactionAssumption DEF MutateWorktree
<1>4. ASSUME \/ \E q \in 1..MaxPolicy : RestartDaemon(q)
             \/ Tick \/ UNCHANGED vars
      PROVE  ProjectionInv'
  BY <1>4, ProjectionKept DEF RestartDaemon, Tick, vars
<1> QED
  BY <1>1, <1>2, <1>3, <1>4, ProjectionResolve, ProjectionFinishRelease DEF Next

\* The three invariants hold together.
LEMMA ProjectionInductive == Spec => [](TypeOK /\ AuthorityInv /\ ProjectionInv)
<1>1. TypeOK /\ AuthorityInv /\ [Next]_vars => AuthorityInv'
  BY AuthorityStep
<1>2. TypeOK /\ AuthorityInv /\ ProjectionInv /\ [Next]_vars => ProjectionInv'
  BY ProjectionStep
<1> QED
  BY <1>1, <1>2, TypeCorrect, AuthorityInit, ProjectionInit, PTL DEF Spec

\* Whatever handlers ran before, in whatever order, the validation that closes
\* AppendTransactionEvents accepts the projection: no batch a handler appends is
\* ever refused for being inconsistent.
THEOREM ProjectionCorrect == Spec => []ProjectionAlwaysValid
<1>1. TypeOK /\ ProjectionInv => ProjectionAlwaysValid
  <2> SUFFICES ASSUME TypeOK, ProjectionInv PROVE ProjectionValidate
    BY DEF ProjectionAlwaysValid
  <2> USE DEF ProjectionInv
  <2>1. ValidState
    BY DEF ValidState, StageInv, PlanInv, PlanStates, Granted, Authorized
  <2>2. ValidExecutions
    BY DEF ValidExecutions, ExecutionsInv
  <2>3. ValidEffects
    BY DEF ValidEffects, StageInv
  <2>4. ValidEvidence
    BY DEF ValidEvidence, EvidenceInv, Recorded
  <2>5. ValidAuthority
    BY DEF ValidAuthority, PlanInv
  <2> QED
    BY <2>1, <2>2, <2>3, <2>4, <2>5 DEF ProjectionValidate
<1> QED
  BY <1>1, ProjectionInductive, PTL

\* The status of every effect agrees with the state of the transaction through
\* verification, renewal, crash, retry and every outcome of a release.
THEOREM EffectsCorrect == Spec => []EffectsFollowState
<1>1. TypeOK /\ ProjectionInv => EffectsFollowState
  <2> SUFFICES ASSUME TypeOK, ProjectionInv PROVE EffectsFollowState
    OBVIOUS
  <2>1. frozen = NoTree <=> PresentEffects = {}
    <3>1. CASE frozen = NoTree
      BY <3>1 DEF ProjectionInv, StageInv
    <3>2. CASE frozen # NoTree
      <4>1. frozen \in Trees /\ frozen # BaseTree /\ PresentEffects = EffectsOf[frozen]
        BY <3>2 DEF TypeOK, ProjectionInv, StageInv
      <4> QED
        BY <3>2, <4>1, TransactionAssumption
    <3> QED
      BY <3>1, <3>2
  <2> QED
    BY <2>1 DEF ProjectionInv, EffectsInv, EffectsFollowState
<1> QED
  BY <1>1, ProjectionInductive, PTL

\* While an agent process may still be writing, nothing is frozen and no new
\* attempt has begun.
THEOREM ActiveExecutionPinned == Spec => []ActiveExecutionPinsAttempt
<1>1. ProjectionInv => ActiveExecutionPinsAttempt
  BY DEF ProjectionInv, ExecutionsInv, ActiveExecutionPinsAttempt, ActiveExecution
<1> QED
  BY <1>1, ProjectionInductive, PTL

\* No package is lost or counted twice, across renewals and new attempts.
THEOREM PackageLedgerCorrect == Spec => []PackageLedger
<1>1. ProjectionInv => PackageLedger
  BY DEF ProjectionInv
<1> QED
  BY <1>1, ProjectionInductive, PTL

\* An approval that counts towards release is the only thing its author did on
\* the transaction.
THEOREM ReviewIndependent == Spec => []IndependentReview
<1>1. ProjectionInv => IndependentReview
  BY DEF ProjectionInv, ReviewInv, IndependentReview
<1> QED
  BY <1>1, ProjectionInductive, PTL

\* Approvals never outlive the package they were signed for.
THEOREM ApprovalsBound == Spec => []ApprovalsBindPackage
BY AuthorityCorrect, PTL

\* What FrozenIsImmutable asks of a step.
ImmutableStep ==
  attempt' = attempt =>
    /\ frozen # NoTree => frozen' = frozen /\ PresentEffects' = PresentEffects
    /\ package # NoPackage => package' \in {package, NoPackage}

\* Every handler satisfies it.
LEMMA ImmutableRequest ==
  ASSUME TypeOK, ProjectionInv, NEW p \in Principals, Request(p)
  PROVE  ImmutableStep
<1> USE DEF ImmutableStep
<1>1. CASE startTransaction(p)
  <2>1. package' = NoPackage
    BY <1>1 DEF startTransaction, invalidateFrozenState
  <2>2. CASE state = "created"
    BY <2>1, <2>2 DEF ProjectionInv, StageInv, Unfrozen
  <2>3. CASE state # "created"
    <3>1. attempt' = attempt + 1 /\ attempt \in Nat
      BY <1>1, <2>3 DEF startTransaction, beginNextAttempt, TypeOK
    <3> QED
      BY <3>1
  <2> QED
    BY <2>2, <2>3
<1>2. CASE stageTransaction(p)
  BY <1>2 DEF stageTransaction, StageGate, ProjectionInv, StageInv, Unfrozen, authority
<1>3. CASE prepareTransaction(p)
  <2>1. state = "validating" /\ UNCHANGED <<frozen, effects>>
    BY <1>3 DEF prepareTransaction, stage
  <2>2. package = NoPackage
    BY <2>1 DEF ProjectionInv, PlanInv, Unprepared
  <2> QED
    BY <2>1, <2>2 DEF PresentEffects
<1>4. CASE renewTransactionAuthority(p)
  BY <1>4 DEF renewTransactionAuthority, applyAuthorityRenewed, stage, PresentEffects
<1>5. CASE BeginRelease(p)
  BY <1>5, MoveKeepsPresent DEF BeginRelease, authority
<1>6. ASSUME NEW n \in Verifiers, NEW s \in {"passed", "failed", "indeterminate"}, NEW i,
             recordVerification(p, n, s, i)
      PROVE  ImmutableStep
  <2>1. /\ UNCHANGED <<frozen, package>>
        /\ effects' = MoveEffects("staged", "validated") \/ effects' = effects
    BY <1>6 DEF recordVerification, authority
  <2>2. PresentEffects' = PresentEffects
    BY <2>1, MoveKeepsPresent DEF PresentEffects
  <2> QED
    BY <2>1, <2>2
<1>7. CASE UNCHANGED <<frozen, effects, package>>
  BY <1>7 DEF PresentEffects
<1>8. CASE \/ createTransactionWorktree(p) \/ applyAgentExecutionStarted(p)
           \/ \E s \in {"succeeded", "unsuccessful"} : applyAgentExecutionFinished(p, s)
           \/ validateTransaction(p) \/ RetryRelease(p) \/ abortTransaction(p)
  BY <1>7, <1>8 DEF createTransactionWorktree, applyAgentExecutionStarted,
       applyAgentExecutionFinished, validateTransaction, RetryRelease, abortTransaction,
       stage, authority, projection
<1>9. CASE \E n \in Verifiers, s \in {"passed", "failed", "indeterminate"} :
             recordTransactionVerification(p, n, s) \/ runTransactionVerification(p, n, s)
  BY <1>6, <1>9 DEF recordTransactionVerification, runTransactionVerification
<1> HIDE DEF ImmutableStep
<1> QED
  BY <1>1, <1>2, <1>3, <1>4, <1>5, <1>8, <1>9 DEF Request

\* Within an attempt the stage that was verified, approved and planned is the one
\* that stays frozen, and no package is ever edited.
THEOREM FrozenImmutable == Spec => FrozenIsImmutable
<1>1. ASSUME TypeOK, ProjectionInv, Next PROVE ImmutableStep
  <2>1. ASSUME UNCHANGED <<frozen, effects, package>> PROVE ImmutableStep
    BY <2>1 DEF ImmutableStep, PresentEffects
  <2>2. ASSUME NEW a, NEW v, NEW e, SignDecision(a, v, e) PROVE ImmutableStep
    BY <2>1, <2>2 DEF SignDecision, projection
  <2>3. ASSUME NEW d \in signed, resolveTransactionApproval(d) PROVE ImmutableStep
    BY <2>1, <2>3 DEF resolveTransactionApproval, stage
  <2>4. ASSUME NEW o \in DOMAIN PublishOutcome, FinishRelease(o) PROVE ImmutableStep
    <3>1. PublishOutcome[o].effect # "absent"
      BY DEF PublishOutcome
    <3> QED
      BY <2>4, <3>1, MoveKeepsPresent
         DEF FinishRelease, ReleasedEffects, authority, ImmutableStep
  <2>5. ASSUME \/ \E t \in Trees : MutateWorktree(t)
               \/ \E q \in 1..MaxPolicy : RestartDaemon(q)
               \/ Tick
        PROVE  ImmutableStep
    BY <2>1, <2>5 DEF MutateWorktree, RestartDaemon, Tick, projection
  <2> QED
    BY <1>1, <2>2, <2>3, <2>4, <2>5, ImmutableRequest DEF Next
<1>2. TypeOK /\ ProjectionInv /\ [Next]_vars => [ImmutableStep]_vars
  BY <1>1
<1>3. Spec => [][ImmutableStep]_vars
  BY <1>2, ProjectionInductive, PTL DEF Spec
<1> QED
  BY <1>3 DEF ImmutableStep, FrozenIsImmutable

=============================================================================
