---------------------------- MODULE Transaction ----------------------------
(***************************************************************************)
(* One agent transaction: the projection that transaction/reducer.go folds *)
(* out of the event ledger, and the HTTP handlers of                       *)
(* api/transaction_handlers.go that append to it.                          *)
(*                                                                         *)
(* Every mutating handler holds the lock "transaction:<id>" from its first *)
(* read to its last write and appends its events as one SQLite             *)
(* transaction, so a handler is one action here.  The exception is         *)
(* releaseTransaction, which appends a batch, updates the Git ref and      *)
(* appends again: it is BeginRelease followed by FinishRelease, and the    *)
(* daemon may stop in between.                                             *)
(*                                                                         *)
(* A digest is modelled by the value it is a digest of: the staged-state   *)
(* and effect-set digests by the worktree's tree, a package digest by the  *)
(* number of the preparation that minted the package.                      *)
(***************************************************************************)
EXTENDS Naturals, FiniteSets, Sequences

CONSTANTS
  Trees,          \* Git trees the worktree can hold
  BaseTree,       \* the tree of the base revision
  NoTree,         \* no worktree, or no frozen stage
  EffectIDs,      \* effect identifiers (path and operation)
  EffectsOf,      \* EffectsOf[t]: the effects Inspect derives from tree t
  Decision,       \* Decision[p][t]: the outcome of policy p on tree t
  MaxPolicy,      \* policies 1..MaxPolicy the daemon is ever started with
  Verifiers,      \* verification names
  Profiles,       \* names of the daemon-owned verifier profiles
  ExternalVerification, \* the daemon accepts client-supplied results
  Principals,     \* identities of API callers
  Sponsor,        \* the sponsor of the transaction
  Approvers,      \* principals with a trusted approval key
  NoOne,          \* no release handler is running
  EvidenceTTL,    \* lifetime of a verification result and of a package
  DecisionTTL,    \* longest lifetime of a signed decision
  MaxAttempt, MaxExecutions, MaxPrepared, MaxSigned, MaxTime  \* bounds of the model

Outcomes == {"allow", "require_approval", "revise", "block"}

ASSUME TransactionAssumption ==
  /\ BaseTree \in Trees /\ NoTree \notin Trees
  /\ EffectsOf \in [Trees -> SUBSET EffectIDs]
  /\ \A t \in Trees : EffectsOf[t] = {} <=> t = BaseTree
  /\ MaxPolicy \in Nat \ {0}
  /\ Decision \in [1..MaxPolicy -> [Trees -> Outcomes]]
  /\ Profiles \subseteq Verifiers /\ ExternalVerification \in BOOLEAN
  /\ Sponsor \in Principals /\ Approvers \subseteq Principals
  /\ NoOne \notin Principals
  /\ EvidenceTTL \in Nat \ {0} /\ DecisionTTL \in Nat \ {0}
  /\ MaxAttempt \in Nat /\ MaxExecutions \in Nat
  /\ MaxPrepared \in Nat /\ MaxSigned \in Nat /\ MaxTime \in Nat

VARIABLES
  taskBound,      \* the transaction carries a persisted agent task
  state, attempt,
  binding,        \* the Git stage binding exists
  worktree,       \* content of the worktree; not part of the projection
  executions,     \* receipts of supervised processes, in start order
  frozen,         \* staged-state digest and effect-set digest
  effects,        \* status of every effect of the current attempt
  verifications,  \* current result of every verification name
  superseded,     \* results replaced in the current attempt
  plan, package,  \* frozen commit plan and approval package
  outstanding,    \* approval IDs still to be resolved
  approvals,      \* decisions counted for the current package
  archived,       \* packages revoked by renewal in the current attempt
  history,        \* superseded attempts
  actors,         \* authors of the events so far, approvals apart
  decisions,      \* decisions of every approval.resolved event so far
  prepared,       \* number of packages minted so far
  signed,         \* decisions reviewers signed; external
  releasing,      \* caller of the release handler that is publishing
  policy, now     \* authority policy the daemon runs with; the clock

projection == <<taskBound, state, attempt, binding, executions, frozen, effects,
                verifications, superseded, plan, package, outstanding, approvals,
                archived, history, actors, decisions, prepared>>
authority  == <<plan, package, outstanding, approvals, archived>>
stage      == <<frozen, effects>>
evidence   == <<verifications, superseded>>
environment == <<signed, releasing, policy, now>>
vars == <<projection, worktree, environment>>

-----------------------------------------------------------------------------
(* Values *)

Terminal == {"completed_no_effect", "blocked", "committed", "rolled_back",
             "release_failed", "partially_committed",
             "manual_recovery_required", "aborted"}

transactionTransitions ==
  [created           |-> {"running", "blocked", "aborted"},
   running           |-> {"completed_no_effect", "staged", "blocked", "aborted"},
   staged            |-> {"running", "validating", "blocked", "aborted"},
   validating        |-> {"validation_failed", "revise_required", "blocked",
                          "pending_approval", "ready_to_commit", "aborted"},
   validation_failed |-> {"running", "validating", "aborted"},
   revise_required   |-> {"running", "aborted"},
   pending_approval  |-> {"ready_to_commit", "revise_required", "blocked", "aborted"},
   ready_to_commit   |-> {"committing", "revise_required", "blocked", "aborted"},
   committing        |-> {"committed", "release_failed", "compensating",
                          "partially_committed", "manual_recovery_required"},
   compensating      |-> {"rolled_back", "partially_committed",
                          "manual_recovery_required"}]

States == Terminal \cup DOMAIN transactionTransitions

CanTransition(from, to) ==
  from \in DOMAIN transactionTransitions /\ to \in transactionTransitions[from]

\* The guard of a transaction.state_changed event: the table, and the two
\* states that only a dedicated event may enter or leave.
StateChange(to) ==
  /\ CanTransition(state, to)
  /\ to # "staged"
  /\ state # "pending_approval"

ExecutionStatus == {"running", "succeeded", "unsuccessful"}
EffectStatus == {"absent", "staged", "validated", "committing", "committed",
                 "failed", "unknown"}
Result == [status       : {"none", "passed", "failed", "indeterminate"},
           independence : {"platform_run", "agent_supplied"},
           attempt : Nat, tree : Trees \cup {NoTree}, expires : Nat]
Plan == [id : Nat, attempt : Nat, tree : Trees \cup {NoTree},
         policy : Nat, steps : SUBSET EffectIDs]
Package == [id : Nat, attempt : Nat, tree : Trees \cup {NoTree}, policy : Nat,
            results : [Verifiers -> Result], approval : BOOLEAN, expires : Nat]
SignedDecision == [approver : Approvers, verdict : {"approve", "reject", "revise"},
                   package : Nat, expires : Nat]
Snapshot == [attempt : Nat, state : States, tree : Trees \cup {NoTree},
             packages : SUBSET Nat]

NoResult  == [status |-> "none", independence |-> "platform_run",
              attempt |-> 0, tree |-> NoTree, expires |-> 0]
NoResults == [n \in Verifiers |-> NoResult]
NoEffects == [e \in EffectIDs |-> "absent"]
NoPlan    == [id |-> 0, attempt |-> 0, tree |-> NoTree, policy |-> 0, steps |-> {}]
NoPackage == [id |-> 0, attempt |-> 0, tree |-> NoTree, policy |-> 0,
              results |-> NoResults, approval |-> FALSE, expires |-> 0]

-----------------------------------------------------------------------------
(* Helpers of the reducer and of the handlers *)

ActiveExecution == \E i \in DOMAIN executions : executions[i].status = "running"

latestAttemptExecution(i) ==
  /\ i \in DOMAIN executions /\ executions[i].attempt = attempt
  /\ \A j \in DOMAIN executions : j > i => executions[j].attempt # attempt

LatestSucceeded ==
  \E i \in DOMAIN executions : latestAttemptExecution(i) /\ executions[i].status = "succeeded"

PresentEffects == {e \in EffectIDs : effects[e] # "absent"}

MoveEffects(from, to) ==
  [e \in EffectIDs |-> IF effects[e] = from THEN to ELSE effects[e]]

AllEffects(status) == \A e \in PresentEffects : effects[e] = status

Recorded == {n \in Verifiers : verifications[n].status # "none"}

requireNoFailedVerification ==
  Recorded # {} /\ \A n \in Recorded : verifications[n].status # "failed"

requirePassingVerification ==
  /\ requireNoFailedVerification
  /\ \A n \in Recorded : /\ verifications[n].status = "passed"
                         /\ verifications[n].independence = "platform_run"

Current(expires) == expires > now

matchesFrozenStage == binding /\ worktree = frozen

validateVerifierProfiles ==
  \A n \in Profiles : /\ verifications[n].status = "passed"
                      /\ verifications[n].independence = "platform_run"
                      /\ verifications[n].tree = frozen

AuthoredBy(p) == actors' = actors \cup {p}

-----------------------------------------------------------------------------
Init ==
  /\ taskBound \in BOOLEAN
  /\ state = "created" /\ attempt = 1 /\ binding = FALSE /\ worktree = NoTree
  /\ executions = <<>> /\ frozen = NoTree /\ effects = NoEffects
  /\ verifications = NoResults /\ superseded = {}
  /\ plan = NoPlan /\ package = NoPackage /\ outstanding = {} /\ approvals = {}
  /\ archived = {} /\ history = <<>> /\ actors = {Sponsor} /\ decisions = {}
  /\ prepared = 0 /\ signed = {} /\ releasing = NoOne
  /\ policy = 1 /\ now = 0

\* Fault variant of invalidateFrozenState: the results outlive their attempt.
invalidateKeepsEvidence ==
  /\ frozen' = NoTree /\ effects' = NoEffects
  /\ UNCHANGED evidence
  /\ plan' = NoPlan /\ package' = NoPackage /\ outstanding' = {}
  /\ approvals' = {} /\ archived' = {}

invalidateFrozenState ==
  /\ frozen' = NoTree /\ effects' = NoEffects
  /\ verifications' = NoResults /\ superseded' = {}
  /\ plan' = NoPlan /\ package' = NoPackage /\ outstanding' = {}
  /\ approvals' = {} /\ archived' = {}

\* Fault variant of beginNextAttempt: the snapshot leaves out renewed packages.
beginNextAttemptForgetful ==
  /\ attempt < MaxAttempt
  /\ ~ActiveExecution
  /\ history' = Append(history,
       [attempt |-> attempt, state |-> state, tree |-> frozen,
        packages |-> {package.id} \ {0}])
  /\ attempt' = attempt + 1

beginNextAttempt ==
  /\ attempt < MaxAttempt
  /\ ~ActiveExecution
  /\ history' = Append(history,
       [attempt |-> attempt, state |-> state, tree |-> frozen,
        packages |-> archived \cup ({package.id} \ {0})])
  /\ attempt' = attempt + 1

startTransaction(p) ==
  /\ StateChange("running")
  /\ state' = "running"
  /\ IF state = "created" THEN UNCHANGED <<attempt, history>> ELSE beginNextAttempt
  /\ invalidateFrozenState
  /\ AuthoredBy(p)
  /\ UNCHANGED <<taskBound, binding, executions, decisions, prepared,
                 worktree, environment>>

applyStageBindingCreated == state = "running" /\ ~binding /\ binding' = TRUE

createTransactionWorktree(p) ==
  /\ applyStageBindingCreated
  /\ worktree' = BaseTree
  /\ AuthoredBy(p)
  /\ UNCHANGED <<taskBound, state, attempt, executions, stage, evidence, authority,
                 history, decisions, prepared, environment>>

applyAgentExecutionStarted(p) ==
  /\ state = "running" /\ binding /\ ~ActiveExecution
  /\ Len(executions) < MaxExecutions
  /\ executions' = Append(executions, [attempt |-> attempt, status |-> "running"])
  /\ AuthoredBy(p)
  /\ UNCHANGED <<taskBound, state, attempt, binding, stage, evidence, authority,
                 history, decisions, prepared, worktree, environment>>

\* The client authors the receipt of a process it supervises, the daemon the
\* receipt of an OCI execution.
applyAgentExecutionFinished(p, status) ==
  /\ state = "running"
  /\ \E i \in DOMAIN executions :
       /\ executions[i].status = "running"
       /\ executions' = [executions EXCEPT ![i].status = status]
  /\ AuthoredBy(p) \/ UNCHANGED actors
  /\ UNCHANGED <<taskBound, state, attempt, binding, stage, evidence, authority,
                 history, decisions, prepared, worktree, environment>>

\* Fault variant of StageGate: freezing while an agent process may still write.
StageGateWhileActive ==
  /\ state = "running" /\ PresentEffects = {} /\ binding
  /\ taskBound => LatestSucceeded

\* Fault variant of StageGate: a staged transaction can be frozen a second time.
StageGateAgain ==
  /\ state \in {"running", "staged"} /\ binding
  /\ ~ActiveExecution
  /\ taskBound => LatestSucceeded

\* What stageTransaction asks of the projection: nothing is
\* staged yet, no process is active, and a task's effects come from an
\* execution that succeeded.
StageGate ==
  /\ state = "running" /\ PresentEffects = {} /\ binding
  /\ ~ActiveExecution
  /\ taskBound => LatestSucceeded

\* The effects Inspect derived from the worktree, added one by one.
applyEffectAdded ==
  effects' = [e \in EffectIDs |-> IF e \in EffectsOf[worktree] THEN "staged" ELSE "absent"]

applyStaged == frozen' = worktree /\ state' = "staged"

stageTransaction(p) ==
  /\ StageGate
  /\ IF EffectsOf[worktree] = {}
       THEN taskBound /\ state' = "completed_no_effect" /\ UNCHANGED stage
       ELSE applyEffectAdded /\ applyStaged
  /\ AuthoredBy(p)
  /\ UNCHANGED <<taskBound, attempt, binding, executions, evidence, authority,
                 history, decisions, prepared, worktree, environment>>

validateTransaction(p) ==
  /\ state = "staged" /\ matchesFrozenStage
  /\ state' = CASE Decision[policy][frozen] = "block"  -> "blocked"
                [] Decision[policy][frozen] = "revise" -> "revise_required"
                [] OTHER -> "validating"
  /\ AuthoredBy(p)
  /\ UNCHANGED <<taskBound, attempt, binding, executions, stage, evidence, authority,
                 history, decisions, prepared, worktree, environment>>

verificationRetryPrefix(n) ==
  /\ state = "validation_failed" => n \in Recorded
  /\ ~(verifications[n].status = "passed" /\ Current(verifications[n].expires))

\* The replaced result, if there is one, moves to the superseded ones.
applyVerificationSuperseded(n) ==
  superseded' = superseded \cup ({verifications[n]} \ {NoResult})

\* A result binds to the attempt and to the frozen tree.
applyVerification(n, status, independence) ==
  verifications' = [verifications EXCEPT ![n] =
    [status |-> status, independence |-> independence, attempt |-> attempt,
     tree |-> frozen, expires |-> now + EvidenceTTL]]

\* The events every verification appends: the retry prefix (authored by the
\* caller), the effects a passing result validates and the result itself
\* (authored by the verifier's service identity).
recordVerification(p, n, status, independence) ==
  /\ state \in {"validating", "validation_failed"} /\ matchesFrozenStage
  /\ verificationRetryPrefix(n)
  /\ applyVerificationSuperseded(n)
  /\ applyVerification(n, status, independence)
  /\ effects' = IF status = "passed" THEN MoveEffects("staged", "validated") ELSE effects
  /\ state' = IF status = "passed" THEN "validating" ELSE "validation_failed"
  /\ actors' = IF n \in Recorded THEN actors \cup {p} ELSE actors
  /\ UNCHANGED <<taskBound, attempt, binding, executions, frozen, authority,
                 history, decisions, prepared, worktree, environment>>

recordTransactionVerification(p, n, status) ==
  ExternalVerification /\ recordVerification(p, n, status, "agent_supplied")

runTransactionVerification(p, n, status) ==
  recordVerification(p, n, status, "platform_run")

\* Fault variant of PrepareAuthority: client-supplied results count as evidence.
PrepareAuthorityAnyEvidence ==
  /\ requireNoFailedVerification
  /\ \A n \in Recorded : verifications[n].status = "passed" /\ Current(verifications[n].expires)
  /\ AllEffects("validated")
  /\ Decision[policy][frozen] \in {"allow", "require_approval"}

PrepareAuthority ==
  /\ requirePassingVerification
  /\ \A n \in Recorded : Current(verifications[n].expires)
  /\ AllEffects("validated")
  /\ Decision[policy][frozen] \in {"allow", "require_approval"}

applyCommitPlan(id) ==
  plan' = [id |-> id, attempt |-> attempt, tree |-> frozen,
           policy |-> policy, steps |-> PresentEffects]

applyApprovalPackage(id, review) ==
  package' = [id |-> id, attempt |-> attempt, tree |-> frozen,
              policy |-> policy, results |-> verifications,
              approval |-> review, expires |-> now + EvidenceTTL]

prepareTransaction(p) ==
  /\ state = "validating" /\ matchesFrozenStage
  /\ validateVerifierProfiles
  /\ PrepareAuthority
  /\ prepared < MaxPrepared
  /\ LET id == prepared + 1
         review == Decision[policy][frozen] = "require_approval"
     IN /\ prepared' = id
        /\ applyCommitPlan(id) /\ applyApprovalPackage(id, review)
        /\ state' = IF review THEN "pending_approval" ELSE "ready_to_commit"
        /\ outstanding' = IF review THEN {id} ELSE {}
  /\ AuthoredBy(p)
  /\ UNCHANGED <<taskBound, attempt, binding, executions, stage, evidence,
                 approvals, archived, history, decisions, worktree, environment>>

\* Fault variant of applyAuthorityRenewed: the approvals outlive their package.
applyAuthorityRenewedKeeping ==
  /\ state \in {"pending_approval", "ready_to_commit"}
  /\ plan # NoPlan /\ package # NoPackage
  /\ LET stale == {n \in Recorded : ~Current(verifications[n].expires)}
     IN /\ superseded' = superseded \cup {verifications[n] : n \in stale}
        /\ verifications' = [n \in Verifiers |->
             IF n \in stale THEN NoResult ELSE verifications[n]]
  /\ archived' = archived \cup {package.id}
  /\ state' = "validating"
  /\ plan' = NoPlan /\ package' = NoPackage /\ outstanding' = {}
  /\ UNCHANGED approvals

\* Results that expired are superseded, the package is archived, and the plan,
\* the package and its approvals are gone.
applyAuthorityRenewed ==
  /\ state \in {"pending_approval", "ready_to_commit"}
  /\ plan # NoPlan /\ package # NoPackage
  /\ LET stale == {n \in Recorded : ~Current(verifications[n].expires)}
     IN /\ superseded' = superseded \cup {verifications[n] : n \in stale}
        /\ verifications' = [n \in Verifiers |->
             IF n \in stale THEN NoResult ELSE verifications[n]]
  /\ archived' = archived \cup {package.id}
  /\ state' = "validating"
  /\ plan' = NoPlan /\ package' = NoPackage /\ outstanding' = {}
  /\ approvals' = {}

renewTransactionAuthority(p) ==
  /\ applyAuthorityRenewed
  /\ AuthoredBy(p)
  /\ UNCHANGED <<taskBound, attempt, binding, executions, stage, history,
                 decisions, prepared, worktree, environment>>

\* A reviewer signs a decision on the package it was shown; the decision may
\* reach the daemon at any later time, or more than once.
SignDecision(a, verdict, expires) ==
  /\ state = "pending_approval" /\ package.id # 0
  /\ Cardinality(signed) < MaxSigned
  /\ expires \in (now + 1)..(now + DecisionTTL) /\ expires =< package.expires
  /\ signed' = signed \cup {[approver |-> a, verdict |-> verdict,
                             package |-> package.id, expires |-> expires]}
  /\ UNCHANGED <<projection, worktree, releasing, policy, now>>

\* Fault variant of validateApprovalSeparation: only the sponsor is excluded.
SeparatedFromSponsorOnly(a, d) == a # Sponsor

\* a may decide d: a is not the sponsor, authored no event of the transaction
\* and took no other decision on it.
validateApprovalSeparation(a, d) ==
  /\ a # Sponsor
  /\ a \notin actors
  /\ \A other \in decisions : other # d => other.approver # a

\* A trusted approver's signature binds the decision to the pending package.
Verify(d) ==
  /\ d.approver \in Approvers
  /\ d.package = package.id
  /\ Current(d.expires) /\ Current(package.expires)

\* The reducer compares the decision with the package once more.
applyApprovalResolution(d) ==
  /\ d.package = package.id
  /\ Current(d.expires) /\ Current(package.expires)
  /\ package.approval /\ package.id \in outstanding
  /\ decisions' = decisions \cup {d}
  /\ \/ /\ d.verdict = "approve"
        /\ outstanding' = outstanding \ {package.id}
        /\ approvals' = approvals \cup {d}
        /\ IF outstanding' = {}
             THEN requirePassingVerification /\ state' = "ready_to_commit"
             ELSE UNCHANGED state
     \/ /\ d.verdict # "approve"
        /\ state' = IF d.verdict = "reject" THEN "blocked" ELSE "revise_required"
        /\ outstanding' = {}
        /\ UNCHANGED approvals

resolveTransactionApproval(d) ==
  /\ state = "pending_approval" /\ package # NoPackage
  /\ validateApprovalSeparation(d.approver, d)
  /\ Verify(d)
  /\ applyApprovalResolution(d)
  /\ UNCHANGED <<taskBound, attempt, binding, executions, stage, evidence,
                 plan, package, archived, history, actors, prepared,
                 worktree, environment>>

\* Fault variant of validateReleaseAuthority: trusts the approval taken earlier.
ReleaseAuthorityUnchecked(p) == Current(package.expires) /\ validateVerifierProfiles

validateReleaseAuthority(p) ==
  /\ plan # NoPlan /\ package # NoPackage
  /\ Current(package.expires)
  /\ package.policy = policy /\ plan.policy = policy
  /\ validateVerifierProfiles
  /\ package.approval =>
       /\ approvals # {}
       /\ \A d \in approvals : /\ d.approver # p
                               /\ validateApprovalSeparation(d.approver, d)
                               /\ Verify(d)

\* releaseTransaction from ready_to_commit, up to its first append: the
\* authority is checked again, every effect goes to release_ready and on to
\* committing, and the transaction to committing.
BeginRelease(p) ==
  /\ state = "ready_to_commit" /\ releasing = NoOne /\ matchesFrozenStage
  /\ validateReleaseAuthority(p)
  /\ \A n \in Recorded : verifications[n].status = "passed" /\ Current(verifications[n].expires)
  /\ AllEffects("validated")
  /\ effects' = MoveEffects("validated", "committing")
  /\ state' = "committing" /\ releasing' = p
  /\ AuthoredBy(p)
  /\ UNCHANGED <<taskBound, attempt, binding, executions, frozen, evidence, authority,
                 history, decisions, prepared, worktree, signed, policy, now>>

\* releaseTransaction from committing: an interrupted release is taken up
\* again, by any caller, without a second look at the authority.
RetryRelease(p) ==
  /\ state = "committing" /\ releasing = NoOne /\ matchesFrozenStage
  /\ releasing' = p
  /\ UNCHANGED <<projection, worktree, signed, policy, now>>

PublishOutcome ==
  [applied  |-> [effect |-> "committed", state |-> "committed"],
   conflict |-> [effect |-> "failed",    state |-> "release_failed"],
   unknown  |-> [effect |-> "unknown",   state |-> "manual_recovery_required"]]

\* Fault variant of ReleasedEffects: the effects keep their status.
ReleasedEffectsKept(outcome) == effects

\* The effects after finishGitRelease or failGitRelease.
ReleasedEffects(outcome) == MoveEffects("committing", PublishOutcome[outcome].effect)

\* The second append of releaseTransaction, after PublishCommit returned.
FinishRelease(outcome) ==
  /\ state = "committing" /\ releasing # NoOne
  /\ effects' = ReleasedEffects(outcome)
  /\ state' = PublishOutcome[outcome].state
  /\ AuthoredBy(releasing)
  /\ releasing' = NoOne
  /\ UNCHANGED <<taskBound, attempt, binding, executions, frozen, evidence, authority,
                 history, decisions, prepared, worktree, signed, policy, now>>

\* Discard is best effort: the worktree may outlive the transaction.
abortTransaction(p) ==
  /\ StateChange("aborted")
  /\ state' = "aborted"
  /\ worktree' \in {worktree, NoTree}
  /\ AuthoredBy(p)
  /\ UNCHANGED <<taskBound, attempt, binding, executions, stage, evidence, authority,
                 history, decisions, prepared, environment>>

-----------------------------------------------------------------------------
(* The environment *)

\* The agent, or anyone with access to the staging root, writes to the worktree.
MutateWorktree(t) ==
  /\ worktree # NoTree /\ worktree' = t /\ t # worktree
  /\ UNCHANGED <<projection, environment>>

\* The daemon stops, and starts again with the policy of its new configuration.
RestartDaemon(p) ==
  /\ policy' = p /\ releasing' = NoOne
  /\ UNCHANGED <<projection, worktree, signed, now>>

Tick ==
  /\ now < MaxTime /\ now' = now + 1
  /\ UNCHANGED <<projection, worktree, signed, releasing, policy>>

Request(p) ==
  \/ startTransaction(p)
  \/ createTransactionWorktree(p)
  \/ applyAgentExecutionStarted(p)
  \/ \E s \in {"succeeded", "unsuccessful"} : applyAgentExecutionFinished(p, s)
  \/ stageTransaction(p)
  \/ validateTransaction(p)
  \/ \E n \in Verifiers, s \in {"passed", "failed", "indeterminate"} :
       recordTransactionVerification(p, n, s) \/ runTransactionVerification(p, n, s)
  \/ prepareTransaction(p)
  \/ renewTransactionAuthority(p)
  \/ BeginRelease(p)
  \/ RetryRelease(p)
  \/ abortTransaction(p)

Next ==
  \/ \E p \in Principals : Request(p)
  \/ \E a \in Approvers, v \in {"approve", "reject", "revise"},
        e \in (now + 1)..(now + DecisionTTL) : SignDecision(a, v, e)
  \/ \E d \in signed : resolveTransactionApproval(d)
  \/ \E o \in DOMAIN PublishOutcome : FinishRelease(o)
  \/ \E t \in Trees : MutateWorktree(t)
  \/ \E p \in 1..MaxPolicy : RestartDaemon(p)
  \/ Tick

Spec == Init /\ [][Next]_vars

-----------------------------------------------------------------------------
(* The validation AppendTransactionEvents runs before it commits a batch.  No *)
(* action above refers to it: it is a property that no batch is refused.      *)

FrozenStates == {"staged", "validating", "validation_failed", "revise_required",
                 "pending_approval", "ready_to_commit", "committing", "committed",
                 "compensating", "rolled_back", "release_failed",
                 "partially_committed", "manual_recovery_required"}

PlanStates == {"ready_to_commit", "committing", "committed", "compensating",
               "rolled_back", "release_failed", "partially_committed",
               "manual_recovery_required"}

ValidState ==
  /\ state \in FrozenStates => frozen # NoTree
  /\ state = "pending_approval" => package # NoPackage /\ outstanding # {}
  /\ state \in PlanStates => plan # NoPlan

ValidExecutions ==
  \A i \in DOMAIN executions :
    /\ executions[i].attempt =< attempt
    /\ executions[i].status = "running" => i = Len(executions)

ValidEffects ==
  /\ frozen # NoTree => PresentEffects = EffectsOf[frozen]
  /\ PresentEffects # {} /\ taskBound => LatestSucceeded

ValidEvidence ==
  \A r \in {verifications[n] : n \in Recorded} \cup superseded :
    r.attempt = attempt /\ r.tree = frozen

ValidAuthority ==
  /\ plan # NoPlan => /\ plan.attempt = attempt /\ plan.tree = frozen
                      /\ plan.steps = PresentEffects
  /\ package # NoPackage => /\ plan # NoPlan /\ package.id = plan.id
                            /\ package.attempt = attempt /\ package.tree = frozen
                            /\ package.policy = plan.policy
                            /\ package.results = verifications

validateProjectionHistory ==
  /\ Len(history) = attempt - 1
  /\ \A i \in DOMAIN history :
       /\ history[i].attempt = i /\ history[i].tree # NoTree
       /\ history[i].state \in {"staged", "validation_failed", "revise_required"}

ProjectionValidate ==
  /\ ValidState /\ ValidExecutions /\ ValidEffects
  /\ ValidEvidence /\ ValidAuthority /\ validateProjectionHistory

-----------------------------------------------------------------------------
(* Properties *)

\* Every variable stays in its type; in particular no handler gives an effect a
\* status outside the part of effectTransitions the Git connector uses.
TypeOK ==
  /\ taskBound \in BOOLEAN /\ state \in States /\ attempt \in Nat
  /\ binding \in BOOLEAN /\ worktree \in Trees \cup {NoTree}
  /\ executions \in Seq([attempt : Nat, status : ExecutionStatus])
  /\ frozen \in Trees \cup {NoTree} /\ effects \in [EffectIDs -> EffectStatus]
  /\ verifications \in [Verifiers -> Result] /\ superseded \subseteq Result
  /\ plan \in Plan /\ package \in Package
  /\ outstanding \subseteq Nat /\ approvals \subseteq SignedDecision
  /\ archived \subseteq Nat /\ history \in Seq(Snapshot)
  /\ actors \subseteq Principals /\ decisions \subseteq SignedDecision
  /\ prepared \in Nat /\ signed \subseteq SignedDecision
  /\ releasing \in Principals \cup {NoOne}
  /\ policy \in 1..MaxPolicy /\ now \in Nat

\* The validation that closes AppendTransactionEvents never refuses what a
\* handler appends: whatever calls came before, in whatever order, the results,
\* the plan and the package all speak of the current attempt and frozen tree.
ProjectionAlwaysValid == ProjectionValidate

\* Releasable states, and what a handler may have reported after them.
Authorized == {"ready_to_commit", "committing", "committed", "release_failed",
               "manual_recovery_required"}

\* The batches move the effects and the transaction together: no crash, retry
\* or renewal leaves an effect whose status contradicts the transaction's.
EffectsFollowState ==
  /\ frozen = NoTree <=> PresentEffects = {}
  /\ state = "staged" => AllEffects("staged")
  /\ (\E n \in Recorded : verifications[n].status = "passed")
       /\ state \notin Authorized \cup {"blocked", "aborted"} => AllEffects("validated")
  /\ state \in {"pending_approval", "ready_to_commit"} => AllEffects("validated")
  /\ state = "committing" => AllEffects("committing")
  /\ state = "committed" => AllEffects("committed")
  /\ state = "release_failed" => AllEffects("failed")
  /\ state = "manual_recovery_required" => AllEffects("unknown")

\* Nothing becomes releasable on evidence other than passing daemon-run results
\* about exactly the frozen tree, one for every daemon-owned profile, and those
\* are the results the package lists.
EvidenceBeforeRelease ==
  state \in Authorized \cup {"pending_approval"} =>
    /\ Profiles \subseteq Recorded /\ Recorded # {}
    /\ package.results = verifications
    /\ \A n \in Recorded : /\ verifications[n].status = "passed"
                           /\ verifications[n].independence = "platform_run"
                           /\ verifications[n].tree = frozen

\* If the policy the package was prepared under asks for review of the frozen
\* tree, the transaction is not releasable before a trusted approver other
\* than the sponsor approved this very package.
ReviewedRelease ==
  state \in Authorized /\ Decision[package.policy][frozen] = "require_approval" =>
    \E d \in approvals : /\ d.verdict = "approve" /\ d.package = package.id
                         /\ d.approver \in Approvers \ {Sponsor}

\* Approvals count for the package they were signed for and no other: renewal
\* and new attempts drop them, and a decision on a revoked package that arrives
\* late is refused.
ApprovalsBindPackage == \A d \in approvals : d.package = package.id

\* While a transaction waits for release, none of its approvers has authored
\* another of its events or taken a second decision on it.
IndependentReview ==
  state = "ready_to_commit" =>
    \A d \in approvals : /\ d.approver \notin actors
                         /\ \A e \in decisions : e.approver = d.approver => e = d

\* Every package ever minted is in exactly one place: the current one, revoked
\* by renewal in this attempt, or archived with a superseded attempt.
PackageLedger ==
  LET past == UNION {history[i].packages : i \in DOMAIN history}
      current == {package.id} \ {0}
  IN /\ 1..prepared = current \cup archived \cup past
     /\ current \cap archived = {} /\ (current \cup archived) \cap past = {}
     /\ \A i, j \in DOMAIN history :
          i # j => history[i].packages \cap history[j].packages = {}

\* A process that may still be writing to the worktree pins the attempt: it
\* belongs to the current attempt and nothing is frozen under it.
ActiveExecutionPinsAttempt ==
  ActiveExecution => /\ frozen = NoTree /\ state \in {"running", "aborted"}
                     /\ executions[Len(executions)].attempt = attempt

\* Nothing is ever appended to a finished transaction.
TerminalIsFinal == [][(state \in Terminal) => (projection' = projection)]_vars

\* The step into committing happens with the worktree still the frozen tree,
\* all evidence current, under the policy the authority was prepared with,
\* which does not block the tree, and with unexpired approvals where that
\* policy asks for review.
ReleaseIsAuthorized ==
  [][state # "committing" /\ state' = "committing" =>
       /\ worktree = frozen
       /\ \A n \in Recorded : /\ verifications[n].independence = "platform_run"
                              /\ Current(verifications[n].expires)
       /\ Decision[policy][worktree] \in {"allow", "require_approval"}
       /\ Decision[policy][worktree] = "require_approval" =>
            \E d \in approvals : Current(d.expires) /\ d.approver \notin actors']_vars

\* Within an attempt the frozen stage never changes, and a package is never
\* edited: it is minted, and revoked as a whole.
FrozenIsImmutable ==
  [][attempt' = attempt =>
       /\ frozen # NoTree => frozen' = frozen /\ PresentEffects' = PresentEffects
       /\ package # NoPackage => package' \in {package, NoPackage}]_vars

-----------------------------------------------------------------------------
(* What the documentation says and the code does not do *)

\* docs/TRANSACTIONS.md on reject: "it discards an unreleased isolated worktree
\* after execution".  An operator can abort in every state from which the
\* transition table leads to aborted.
RejectableUntilReleased ==
  CanTransition(state, "aborted") => ENABLED (\E p \in Principals : abortTransaction(p))

\* docs/PRODUCTION.md: "Requires the release caller to be distinct from every
\* approver."  The caller whose request publishes approved nothing.
ReleaserDistinctFromApprovers ==
  releasing # NoOne => \A d \in approvals : d.approver # releasing

=============================================================================
