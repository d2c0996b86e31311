# A TLA+ verification of Gatemole

Gatemole lets coding agents change a Git repository through *transactions*: an
agent works in an isolated worktree, the result is frozen, verified, judged by a
policy, approved by people if the policy asks for it, and released with one
compare-and-swap of a Git ref. A daemon (`gatemoled`) owns two kinds of
append-only event ledgers, one per *run* of an agent and one per *transaction*,
in one SQLite database. State is never stored on its own: a reducer folds it out
of the ledger.

Beside the daemon there is a command line (`gatemole`): `tx run` drives a task
through the daemon, `runtime init` prepares a repository, and `gate` decides
from specs, evidence and a release policy whether a change may go out.

This directory models the daemon and these commands in TLA+, checks them with TLC
on small instances, and proves nearly all safety properties with TLAPS for every
size. Paths below are relative to `internal/kernel/` unless they start with
`docs/` or `internal/`.

## Inventory

| Component | State | Operations | Talks to |
|---|---|---|---|
| transaction lifecycle (`transaction/`) | projection of the transaction ledger: state, attempt, executions, effects, results, plan, package, approvals, superseded attempts | one reducer function per event | API handlers call it, the store validates with it |
| transaction handlers (`api/transaction_handlers.go`, `api/authority.go`) | lock `transaction:<id>`, workload slots | start, worktree, run/start/finish execution, stage, validate, verify, prepare, renew, approve, release, abort | ledger, Git, sandbox, trust store |
| Git staging and release (`transaction/gitstage`) | worktrees, refs (in Git) | Create, Inspect, MaterializeSnapshot, PrepareCommit, PublishCommit, Discard | git commands; other users of the repository; whoever writes to the worktree |
| supervised execution (`store/execution_store.go`, `api/execution_authority.go`, `daemon/recovery.go`) | active execution in *both* ledgers, budget usage | claim, supervise, settle, recover | container engine, both ledgers |
| run ledger (`reducer/`, `api/server.go`) | run state, active execution, usage, capabilities, actions | appendEvent, executeAction | lock of the run |
| action broker (`broker/`, `driver/`, `capability/`) | pending actions of a run | Execute, Recover | file system |
| task admission (`admission/`, `store/admission_store.go`, `api/task_handlers.go`) | admission record under an idempotency key, contract, task | admitTask, AdmitTask, replay of old requests | creates both ledgers in one SQLite transaction |
| model broker (`modelbroker/`, `sandbox/model_broker.go`) | reservations, receipt ledger file, sidecar and network | StartModelBroker, responses, reserve, release, RemoveModelBroker, FinalizeLedger | provider, agent container, run budget |
| runtime identity and metadata (`runtimeidentity/`, `store/runtime_metadata.go`) | `runtime.json`, binding of a ledger to runtime and profile | createOrLoad, Load, check and bind | `runtime init`, daemon start, admission |
| daemon (`daemon/`) | process locks, transaction root, socket, configuration snapshot | Run, recovery, shutdown | service manager, other daemons |
| evidence compiler and gate (`internal/gatemole/`) | manifest, specs, artifacts, bundles, policy: files of the repository | validate, link, verify, evaluate the policy | agents and runners that edit these files |
| command line (`internal/gatemole/`), API client (`client/`) | none beyond a call | `tx run`, `runtime init`, `gate`, one request per other command | daemon, files of `.gatemole` |
| approval trust (`approval/`) | trusted keys | Sign, Verify | reviewers |
| event store (`store/`) | SQLite tables | append with expected head, load and verify chain | everybody |
| verification runner, sandbox, identity, preflight | evidence files, containers | see PROJECT.json | |

What is hard here:

* **crashes between two durable steps**: the ledger, Git and the container engine
  cannot be updated together, so a release and an execution each have a window
  in which the ledger is behind the world;
* **other writers**: people push to, reset and check out the branch a release
  targets; the agent can write to its worktree after it was frozen;
* **two ledgers with two locks** that have to agree on one active execution;
* **long call sequences**: attempts, retried verifications, renewals and late
  decisions combine, and every combination must leave a projection the store
  accepts and an authority that rests on current facts;
* **files without a lock**: the worktree, `.gatemole`, the socket and the evidence
  of the gate are read path by path while others write to them;
* **shared budgets**: concurrent model calls, workload slots and retries of one task
  must neither overspend nor leak what a failure has left reserved;
* **time and configuration**: evidence and decisions expire, and the policy may be
  another one after a restart.

`PROJECT.json` lists the hazards one by one, each with its line and with the
properties that would catch it.

## Modules

| Module | Models |
|---|---|
| `Transaction` | one transaction: every handler and every event of the reducer |
| `GitStage` | the worktree of a transaction: creation, inspection read by read, snapshots for reviewers and verifiers, the commit |
| `GitRelease` | `releaseTransaction` and `PublishCommit`, git command by git command, for several transactions on one branch |
| `AbstractRelease` | what a release promises; `GitRelease` implements it |
| `PairedExecution` | execution receipts in two ledgers, client changes to the run, crash and recovery |
| `ActionBroker` | the actions of a run: authorization, effect and receipt, crash and `Recover` |
| `ModelBroker` | the model broker of one execution: budget, receipts, sidecar, final charge |
| `TaskAdmission` | the admission of tasks under idempotency keys |
| `TaskRun` | `tx run` by several clients, with `TaskAdmission` and the handlers a client waits for |
| `RuntimeInit` | `runtime init`: profile document, ignore file and identity |
| `DaemonStart` | `daemon.Run` from configuration to shutdown, beside `RuntimeInit` |
| `ReleaseGate` | `gatemole gate`: manifest, specs, evidence, policy |
| `MC...` | small instances for TLC |
| `TransactionProofs`, `GitProofs` (of `GitRelease` and `GitStage`), `PairedExecutionProofs`, `BrokerProofs` (of `ActionBroker` and `ModelBroker`), `TaskRunProofs`, `DaemonStartProofs`, `ReleaseGateProofs` | theorems and proofs |
| `FiniteSums` | lemmas on least elements and on sums over finite sets, used by three of them |

`TaskRun` and `DaemonStart` compose components: the first extends
`TaskAdmission` with the transactions that are admitted, the second extends
`RuntimeInit` with the daemons that read what it writes. The others meet at
assumptions that another module establishes: `Transaction` takes an append for
atomic and the frozen tree for what was inspected (`GitStage`), `PairedExecution`
takes the charge of an execution for a number (`ModelBroker` computes it), and
`DaemonStart` takes recovery for one step (`PairedExecution`, `ActionBroker`).

### Transaction

The variables are the fields of `Projection` (`transaction/reducer.go`), the
content of the worktree, the decisions reviewers have signed, the policy the
daemon runs with and the clock. A mutating handler holds the lock
`transaction:<id>` from its first read to its last write and appends its events
as one SQLite transaction, so it is one action; the events it appends are
operators of their own (`applyStaged`, `applyVerification`,
`applyAuthorityRenewed`...). `releaseTransaction` appends twice with the
publication in between: `BeginRelease` (or `RetryRelease`) and `FinishRelease`,
and `RestartDaemon` may come between them.

A digest is modelled by the value it is a digest of: the staged-state and
effect-set digests by the tree, a package digest by the number of the preparation
that minted the package. The expected sequence number every request carries is
not modelled: a request with a stale number is refused before it changes
anything, so a step of the model is a request that carries the right one. The
policy engine is the constant `Decision`, any function from policies and trees to
outcomes. All effects of the Git connector are stageable.
`ExternalVerification` lets clients record results; the server allows that by
default and the shipped daemon switches it off (`daemon/daemon.go:110`), so the
run `evidence` is about the server's own check.

The validation that closes every append (`Projection.Validate`) restricts no
action. It is the invariant `ProjectionAlwaysValid`: no handler builds a batch
that the store would refuse.

### GitRelease

One handler per transaction (`pc`), each step one git command or one append.
The branch is the sequence of revisions from the reviewed base to the ref. A git
command may fail at any step; other people push, reset, delete and check out at
any time; `Interrupt` is a crash of the daemon or a cancelled request, after
which only the ledger and Git remain. A child `git update-ref` that outlives its
request is assumed to end before the next request of that transaction. Every
request, a retry from `committing` included, has to find the target ref allowed
by the daemon's policy (`allowed`), the worktree as it was frozen (`intact`), and
in `PrepareCommit` both the ref (`Resolves`) and the worktree once more; somebody
writes to the worktree or puts it back, and the daemon is restarted under another
policy, at any time. A request that is refused changes nothing.
The commit `PrepareCommit` builds depends on the frozen plan only (author, date
and message come from it), so a retry builds the same commit and the transaction
stands for it.

### PairedExecution

An admitted task: the run's projection, the transaction's projection, the phase
of `runAgentExecution` with the heads it read, whether a container runs, and
whether the daemon is up. The run's lock is not taken by `runAgentExecution`, so
`appendEvent` and `executeAction` interleave with it where `AllowHost` holds (the
development profile; production refuses both). `external` is the development
option that lets clients author receipts; it is chosen once and every start has
the same. A client can then settle an execution whose container could not be
removed, so `ContainerUnderReceipt` and `StagedIsSettled` speak of the container
only where the daemon authors the receipts. One budget counter (wall time) stands
for all of them; `MaxInt64` is the largest counter value, and the charges of the
instance include one above both the limit and `MaxInt64`. Executions written
before receipts were paired (`legacyUnpaired`) are left out.

### ActionBroker

One run and the call of `Broker.Execute` in flight, split at every append and at
the driver. `status[a]` is the last event about an action, `grant[a]` the
capability its authorization names, `applied[a]` what really happened to the
file system. `executeAction`, `compileCapabilities` and `appendEvent` hold the
run's lock, so one call is in flight; `AppendPairedExecutionEvent` does not take
that lock, so it can move the head under a call, whose next append is then
refused (`Abandon`). `Abandon` is also an error of the store and a caller that
goes away. `authorize` takes the first installed grant that covers the action,
also if a later one would allow what the first refuses, as the code does. Which
actions a grant covers is a constant (`MatchResource` is not modelled); all
grants of a contract are installed together and expire together. An action in
the model is a request; a repeated request is another action with the same key.

### GitStage

One worktree and the handler that holds the lock of its transaction. `Inspect` is
split where the code reads: each tracked path is compared, untracked paths are
listed, sizes are added up, contents are read into a private index, and the
effects are derived from the tree that results. A writer edits, ignores, links or
moves `HEAD` between any two reads. `Lstat` follows links in the leading
directories, as `os.Root` does; `Put` is what a file does to a directory of its
name and what `update-index` does to an index. A path is a sequence of names;
mode and size stand for the content. The two directories a handler fills
(worktree, verifier's copy) may stay half filled when writing or removing fails.
The states between `staged` and `committing` are those of `Transaction` and are
left out: a frozen snapshot may be reviewed, verified and released in any order.

### ModelBroker

`receipts` is the ledger file, `recorder` and `budget` the memory of the
sidecar, `cost` what the provider really spent, which no code sees. Calls
interleave at every append and at the provider. A write of the ledger may fail,
end short or reach the disk without its sync; later events then do not continue
the chain and the ledger does not verify. The broker and the daemon die anywhere;
recovery removes the broker before it sums up. Authentication, request parsing and
the provider's protocol are left out: an answer is an outcome and a usage, which
may be missing or out of range. A usage is its input and output tokens: the total
a report also has can only make the recorder refuse it, which is an append that
fails.

### TaskAdmission and TaskRun

The store has one connection (`SetMaxOpenConns(1)`), so a transaction holds
`writer` and statements of other calls wait. An admission is five inserts, each
of which may fail or find its key taken. Requests differ in key, identifiers and
intent; old requests without a runtime identity are replayed only. `TaskRun` has
the whole command: preflight, admission, start, worktree, agent in a container or
as a child, stage, validate. Every request carries the event sequence the client
has seen, modelled by whether anything was appended since (`current`). A client
that stops may be run again; several clients run one task. The handler of an
agent holds the transaction's lock and a workload slot until it returns. Others
verify, approve or abort.

What can refuse a task for ever is in the model. `live` is what
`compileLiveExecutionAuthority` checks: a grant or deadline that has expired, a
revoked grant, an exhausted budget; nothing brings it back. `clean` is the
worktree as the next request needs it: a creation that failed half way leaves a
directory that every later `Create` refuses, and somebody may spoil a worktree
that exists; only somebody outside the daemon repairs it. A task admitted before
there were runtimes has no authority and is never driven
(`requireCurrentRuntimeAuthority`). After an abort under an active execution the
start of the daemon fails (`Unrecoverable`), having settled some of the other
executions or none. A preparation that fails after the slot was taken
(`PrepareFails`) is one action for all its returns. The slots that
`runTransactionVerification` takes from the same channel are not modelled.

### RuntimeInit and DaemonStart

`RuntimeInit` has the three files of `.gatemole`, each created, checked, replaced
and rolled back in separate steps, without a lock. A file is its inode and its
content, because the code compares inodes before it replaces or removes. Every
step may fail, for a reason of Git or of the file system: an identity that is
there may fail to load in `createOrLoad`, the ignore file may fail to be read, and
the identity just created may fail its verification, which leaves it in place
while the ignore entry it needs is rolled back. A later command that fails thus
rolls back beside what an earlier one has finished. `beside` remembers which
commands were under way together.

`DaemonStart` has the steps of `Run`: identity, runtime lock, transaction root in a
directory others may write to, database lock, inspection and binding of the
ledger, recovery, socket, requests, shutdown. `http.Server.Shutdown` is bounded by
a timeout, so a request may commit after the store's locks are released: the
binding that every admission compares inside its transaction is what protects the
ledger then. The instances place two daemons on one repository, on one database,
or on both.

### ReleaseGate

The repository's files and one run of the gate, which reads manifest, specs, each
artifact and policy in separate steps while all of them are edited. An obligation
is a spec and a kind; an artifact says of which obligations it speaks well and
badly; importers differ in what they accept, and are operators of their own
(`importJUnitEvidence`, `importSARIFEvidence`, `importVerifierOutput`...). A policy
is a list of rules over the facts the code offers; `DefaultReleasePolicy` is
translated, others are constants.

Where signatures are asked for, an artifact is linked in three steps:
`LinkEvidenceArtifact` reads it, `verifySignedEvidenceBundle` reads its bundle and
compares it with manifest and artifact (`evidence_artifacts.go:150`-`:199`), and
`verifySignature` hands the path to cosign, which reads the bundle again
(`:201`-`:231`). Anybody may write a bundle in any name without a signature
(`EditBundle`); a runner may sign a bundle that names another (`Sign`),
but the signature is by its own identity; signatures get lost. cosign is
`verifyBlob`: there is a signature of the bundle that is at the path now, by the
signer the manifest names. A bundle that is replaced between the two reads is
therefore not the one that was signed.

Without a manifest an imported JUnit manifest is judged against every spec. Matching of test names to
obligations by similar words, `CompileRepo` and the bootstrap of specs are left
out: the refs of an artifact stand for what was matched.

## What TLC checks

All passing runs explore their state space completely.

| Run | Instance | Shows | States |
|---|---|---|---|
| `lifecycle` | 3 trees, 3 policies, 3 attempts, 2 executions, 2 packages | `ProjectionAlwaysValid`, `ActiveExecutionPinsAttempt`, `FrozenIsImmutable` | 1.9 million |
| `authority` | 2 principals who are approvers, one the sponsor; 2 attempts, 2 packages, 2 signed decisions, 2 policies, the clock moves once | `ApprovalsBindPackage`, `IndependentReview`, `PackageLedger`, `ReleaseIsAuthorized` | 1.6 million |
| `evidence` | 2 verification names, one with a daemon profile, client-supplied results allowed | `EffectsFollowState`, `EvidenceBeforeRelease` | 0.9 million |
| `git_release` | 2 transactions, 2 interruptions, 2 foreign changes, any number of changes to worktrees and policy, fairness | `OnReviewedBase`, `FailureIsUnpublished`, `NoLostUpdate`, the refinement `KeepsPromise`, `EventuallyConcluded` | 0.2 million |
| `paired` | 3 executions, 2 attempts, 2 crashes, receipts by the daemon or by clients, fairness | `LedgersAgree`, `ContainerUnderReceipt`, `RefusedOnlyAfterAbort`, `InterruptedIsSettled` | 0.3 million |
| `actions` | 3 actions under 2 keys, 3 grants with one use each, one of them needing approval, 2 crashes, the clock moves once, fairness | `AtMostOnce`, `HonestLedger`, `UsesWithinLimit`, `InterruptedIsClosed` | 0.2 million |
| `start` | 3 initializers with different profiles, 2 daemons on one repository, one database or both, new, old and foreign ledgers, stale sockets | `RuntimeInv`, `HistoryOfOneRuntime`, `SocketsServe`, `RootStaysPrivate`, `ForeignLedgerUntouched` | 1.3 million |
| `tasks` | 2 clients in seven pairs of requests, 1 slot, 2 attempts, one failure, crash, spoiled worktree or end of authority, fairness | `AdmissionInv`, `OneSuccessPerAttempt`, `SlotsAccounted`, `EventuallyConcluded` | 0.3 million |
| `model_calls` | 3 calls of which the policy allows 2, two failures | `BudgetInv`, `ReceiptsComplete`, `SettledLedgerFrozen` | 1.9 million |
| `stage` | 3 paths (a file and a directory of one name, a link to another directory), 2 edits, one failure, 2 attempts | `SnapshotInv`, `BoundWorktreeComplete`, `FrozenThroughout` | 1.7 million |
| `gate` | 2 specs with a shared file, an artifact of every kind, 2 signers of whom one is accepted, 3 policies, 2 edits | `ReleaseIsJustified`, `SignedMeansSigned`, `PolicyNeverLoosens` | 1.1 million |

Some properties are conjunctions of parts that belong together:

* `RuntimeInv`: types; whoever asks is given the same identity, unless the command
  that created it failed (`IdentityAgreement`); an initialization that succeeded is
  undone by no later one, whatever it fails at and rolls back
  (`InitializationLasts`). Commands that overlapped with it can undo it, and the
  property says which: only one that fails takes the identity or its ignore entry
  back, and only one that registers a profile loses the profile (two replace one
  document, and the second rename drops what the first added). Both happen: TLC
  finds the property violated without either exemption. `SocketsServe`: who serves is reachable, and a stale
  socket blocks nobody.
* `AdmissionInv`: types; admissions are stored whole (`AdmissionWhole`), one per
  key and answered alike (`OneTaskPerKey`); a conflict has a cause
  (`ConflictIsReal`); an admitted request is answered again under any policy
  (`RetryIsAnswered`); a client drives only its own task (`DrivesItsOwnTask`).
* `BudgetInv`: types; what was really spent is within the budget (`WithinBudget`);
  reservations are those of the calls under way (`ReservationsAccounted`).
  `ReceiptsComplete`: a receipt before each call, and a summary that leaves none
  out.
* `SnapshotInv`: types; effects lead exactly from the base to the frozen tree
  (`EffectsExact`); an inspection reads no more than its limit although files grow
  (`ContentBounded`); without a writer the snapshot is the worktree
  (`QuietSnapshotExact`). `FrozenThroughout`: reviewers, verifiers and the commit
  all have the frozen tree.
* `ReleaseIsJustified`: types; every obligation of every touched spec has evidence
  that was read (`ReleasedIsCovered`); every changed file has its owners among the
  touched specs (`FilesAccountedFor`); nothing read speaks against the change
  (`NoEvidenceAgainst`). `SignedMeansSigned`: what speaks for an obligation has a
  bundle that attests its content for this change, and cosign confirmed an accepted
  runner's signature of the bundle at that path. That both are the same bundle holds
  unless the file changed between the two reads; the exemption is needed, TLC finds
  the swap without it. `PolicyNeverLoosens`: high risk is not merged
  automatically under the default policy, and a block is final.

The bounds are the smallest at which the cases of interest happen. A second
package needs a renewal or a new attempt, and a third attempt shows an attempt
whose history already has an entry; one tick with lifetimes of one makes
everything expire once; two transactions suffice for a race on the ref, two
foreign changes for "push, reset" between its steps, so that the ref is back at
the base a handler has read; two crashes
allow one during the work that follows a recovery. In `actions` the second
grant leaves a use for a request repeated under a new ID, so that only its key
stops it, and `MaxHead` leaves room for two complete actions and a third. The
three `Transaction` runs split the dimensions (attempts, time and approvers,
verifiers), because their product is too large; `start` explores the
initializers alone from the beginning and the daemons beside the last steps of
the initializers, for the same reason (`MCDaemonStart`); beside daemons an
initializer does not crash, which to them is one that takes no more steps, and does
not go through a rollback that has nothing to undo. In `tasks` two independent tasks
get one attempt each (`MCNext` of `MCTaskRun`; the revisions it leaves out are always
one outcome of several, so no fair behaviour is cut short). In `model_calls` any two
calls may use up the tokens, so a third must be refused on tokens or on
requests. In `stage` a file of size 2 fits, two do not, and one of size 3 is too
large by itself; two edits allow a change before and one during an inspection.
Two edits in `gate` allow a change and its concealment (an artifact and its
digest, a manifest and its bundle, a forged bundle and the signed one put back
before cosign reads it). The artifacts that change are one of each importer:
`trace`, `metrics` and `undo` are imported like a scan that is no SARIF, so
`Volatile` has `scan`, `junit` and `judge`, and bundles are handled alike for all
kinds, so `Reworked` has one. `Changes` starts from the spec without and the one
with high risk. In `start` three initializers are needed for two that replace the
document of a first one, and for one that comes after two that overlapped.

Deadlock is checked in `lifecycle`, `authority`, `evidence`, `git_release`, `tasks`
and `gate`. In the others the bounds on executions, starts, calls, edits or
crashes stop the system, and a ledger that does not verify, an aborted
transaction or a terminal run stops it by itself.

### Fairness

* `git_release`: weak fairness of a started handler (the Go scheduler runs it and
  git commands end, by their context) and of the retry of a release left in
  `committing` (an operator repeats the request; nothing in the daemon does), and
  strong fairness of `Prepared`: git does not fail `PrepareCommit` for ever. The
  conclusion is conditional on what every request checks: in the end the policy
  allows the target ref, the ref resolves and the worktree holds the frozen stage.
  If one of them fails for ever the release stays `committing` for ever: the code
  has no way out of it, not even by abort.
* `paired`: weak fairness of the daemon's start after a crash (the service
  manager restarts it) with a cleanup that eventually succeeds. Nothing is
  assumed of the agent, the clients or `runAgentExecution` itself.
* `actions`: weak fairness of the start of the daemon and of its recovery,
  a sequential loop before it listens. Nothing is assumed of calls in flight.
* `tasks`: weak fairness of the clients (the command is given again whenever it
  stops), of the handlers (agents end: a timeout kills them) and of the restart of
  a daemon that is down or has an execution nobody supervises, as the client's
  error message asks for. Strong fairness of the admission call: `database/sql`
  serves requests for its one connection (`store/sqlite.go:127`) in order, so a
  caller cannot be overtaken for ever. The conclusion is conditional on nothing
  refusing the task for ever: the policy allows its image, grants, deadlines and
  budgets last, the worktree is in order in the end (a half-created one is
  removed), and the daemon is up again and again, which an abort under an active
  execution prevents. It is about tasks with runtime authority.

## Where the code and its documentation disagree

`stage_links` is a run that TLC must find violated (`LinksRecorded`): if a tracked
directory is replaced by a link to another directory with a file of the same
name, the snapshot has that file and no link, while `docs/TRANSACTIONS.md:426` says
that links are recorded as link text. The finding in `PROJECT.json` follows the
lines. `QuietSnapshotExact` excludes exactly this case.

Six more disagreements can be reproduced with configurations that are kept here;
each states what a document says, and TLC finds it violated:

1. `MCGitRelease_retry.cfg` (`RetryIsSafe`): after a crash between `update-ref` and
   the ledger, a retry reports `release_failed` for a commit that is on the branch,
   if somebody pushed on top of it or checked the branch out
   (`transaction/gitstage/gitstage.go:1153`, `:1163`; the comment at `:1137` calls
   the retry safe).
2. `MCPairedExecution_abort.cfg` (`ActiveIsInterrupted`): aborting a transaction
   whose execution is still active in the ledger (`transaction/reducer.go:614`)
   makes the next daemon start fail; `docs/PRODUCTION.md:510` says an `interrupted`
   receipt is appended.
3. `MCTransaction_reject.cfg` (`RejectableUntilReleased`): a transaction in
   `pending_approval` cannot be aborted (`transaction/reducer.go:668`), though the
   transition table lists it and `docs/TRANSACTIONS.md:355` promises it.
4. `MCTransaction_releaser.cfg` (`ReleaserDistinctFromApprovers`): a retry from
   `committing` does not look at its caller (`api/transaction_handlers.go:2233`), so
   an approver can be the one who publishes (`docs/PRODUCTION.md:93`).
5. `MCActionBroker_terminal.cfg` (`InterruptedBecomeUnknown`): an action whose call
   ended between two appends stays authorized or executing if its run reaches a
   terminal state, because recovery skips terminal runs (`broker/broker.go:69`);
   `docs/KERNEL.md:47` says a start converts it to `unknown`.
6. `MCModelBroker_charge.cfg` (`ConservativeCharge`): a call that is pending when
   the ledger is summed up is closed without a charge for its input
   (`modelbroker/receipt.go:94`), while
   `docs/architecture/KERNEL_SEMANTICS.md:156` says unknown calls are charged
   conservatively. The output is charged in full (`SummaryComplete`).

## What is proved

Every safety invariant and action property the runs check is a theorem. The
theorems hold for every value of the constants that
satisfies the module's `ASSUME`, which TLC evaluates on the instances: non-empty
lifetimes and policies, distinct sentinels, limits each of which a counter can hold, finitely
many actions, calls and paths, positive capability numbers, base revisions that are trees,
rows of a request that name its own identifiers. The bounds (`Max...`) are
arbitrary naturals.

`TransactionProofs`
: `TypeCorrect`, action by action. `AuthorityCorrect`: `EvidenceBeforeRelease`,
  `ReviewedRelease` and `ApprovalsBindPackage` together. None is inductive alone:
  evidence is for the frozen tree only because no result survives into a state in
  which the tree can change, so `AuthorityInv` adds that there are no results
  before the stage is frozen (`NoEarlyEvidence`), that a result is about the
  frozen tree (`EvidenceOfStage`), that no approval exists before a package
  (`NoEarlyApproval`), and that the package records a policy the daemon was
  started with and whether that policy asked for review (`PolicyRecorded`).
  `ReleaseAuthorized`: the action property `ReleaseIsAuthorized` from this
  invariant; only `BeginRelease` enters `committing` (`OnlyReleaseCommits`).
: `ProjectionCorrect`, `EffectsCorrect`, `ActiveExecutionPinned`,
  `PackageLedgerCorrect`, `ReviewIndependent`, `ApprovalsBound` and `FrozenImmutable`
  from `ProjectionInv`, which says for each part of the projection what the code's
  validation checks only where it looks: in which states a stage is frozen and with
  which effects (`StageInv`, `EffectsInv`), that only the last execution can be
  active (`ExecutionsInv`), that results speak of this attempt (`EvidenceInv`), that
  plan and package are minted together and numbered (`PlanInv`, `PackageLedger`),
  and that approvers did nothing else (`ReviewInv`).

`GitProofs`, of `GitRelease`
: `ReleaseTypeCorrect`. `ReviewedBase`: `BranchInv` says the branch starts at the base,
  every transaction's commit follows the base directly, and what is on the branch
  has landed. `Refinement`: `ReleaserInv` ties the handler's position to the
  ledger and `applied` to a landed commit; every step is then a step of
  `AbstractRelease` or a stutter. `HonestFailure`: `OutcomeInv` adds that without
  an interruption a commit lands only in the request that records it.
  `UpdateLosesNothing`: the compare-and-swap of `update-ref` is what keeps a push
  that came after the handler's read.

`PairedExecutionProofs`
: `TypeCorrect`, with the lemma `ChargeFits` on `boundedBudgetCharge`.
  `LedgersCorrect`, `RefusalCorrect` and `ContainerCorrect` from `PairedInv`: the
  ledgers agree, no handler runs while the daemon is down, nothing is active under
  a staged transaction, a refused start implies an abort, and without external
  receipts (`external`, which no step changes) a container runs only under an
  active execution and is gone when the handler is about to settle.

`BrokerProofs`, of `ActionBroker`
: `ActionTypeCorrect` needs `FlightInv`: the status of the action in flight is the one
  its call wrote last, and no call is in flight while the daemon is down.
  `AtMostOnceCorrect` and `LedgerHonest` from `OnceInv`, which adds that a key
  belongs to one requested action and that a call about to run its driver has not
  had an effect (or, after it, knows it). `UsesCorrect`: `UsesInv` bounds the
  authorizations of a grant, not only the effects, and `UndecidedInv` says an
  undecided action uses none. `MinInSet` rests on the library's well-foundedness of
  the naturals.

`GitProofs`, of `GitStage`
: `FrozenCorrect` from `StageInv`. `FrozenThroughout` is not inductive: a
  verification that ends after a revision would vouch for a tree that is no longer
  frozen. `HandlerInv` excludes it: only staging starts without a frozen snapshot,
  every other handler keeps the one it started with, and nothing starts once there
  is a commit. `ExactInv` says that what an inspection derived, and so what is
  frozen, is exactly the difference from the base and within the limits
  (`EffectsCorrect`); `NothingEarly` that nothing is reviewed, verified or committed
  before anything is frozen. `WorktreeComplete`: only the step after a complete fill
  binds.
: `SnapshotCorrect` from `InspectionInv`: trees stay trees (`TreesInv`); what was
  charged covers the sizes before all changes and those after the changes that were
  read (`ChargedInv`), so a file that grew after it was measured is refused when it is
  read; and as long as nobody writes, each path behind the reader has been judged as
  it is (`QuietInv`). Replacing a file by a directory empties index entries that were
  charged already, so the charge is a bound and not an equality. Nothing is assumed
  of the writer.

`BrokerProofs`, of `ModelBroker`
: `BudgetKept`, `ReceiptsKept` and `SettledFrozen` from `ModelInv`. `BudgetInv` is not
  inductive: what was spent is known to no code, and what was charged may exceed the
  limit, since an unusable report is replaced by the whole budget. What holds is that
  reservations and the cost of the calls that are over are together within the limit,
  and that a broker which is up has charged at least that cost (`AccountInv`); that a
  call under way has reserved all it can cost, and a finished one is charged no less
  than it did cost (`CallsInv`); and that calls are counted when they are admitted
  (`RequestsInv`). A broker that dies takes its reservations with it, so the cost of
  its calls is then bounded by the sum of both. `ReceiptsInv` says that a call has one
  receipt of its start, at most one of its end, and none before it was admitted, and
  that each charges enough output, short and unsynced writes included. `PhaseInv`: no
  call is under way once the broker is removed. `ClosedLedger` shows that closing gives
  every open call its one end; the counts of starts and of outcomes are then equal
  because both match the calls one to one (`CountOnce`), and the output is covered
  because the ends of the calls that cost something are different events
  (`SumInjected`).

`FiniteSums`
: The sums are the fold of the community modules. `SumStep`, `SumMonotone`,
  `SumReplaced`, `SumAdded`, `SumSupport` and `SumInjected` are proved for every finite
  set, by the least subset on which they would fail, because the library's induction
  theorems cannot be instantiated.

`TaskRunProofs`
: `AdmissionCorrect`, `SuccessOnce` and `SlotsCorrect` from `TaskInv`. `LedgerInv`: rows
  belong to whole admissions without a shared primary key, the open SQLite
  transaction holds the first rows of one whose key was free and cannot have been
  taken since, and every call knows what it was told. `RunInv`: a handler that is at
  work holds the lock of its transaction and one slot, whose number is the
  cardinality of the busy transactions; a client whose projection is current sees
  the transaction as it is, so it starts an agent only in an attempt without a
  success. `DriveInv`: a command drives a task only after its own request was
  admitted.

`DaemonStartProofs`
: `RuntimeCorrect`, `HistoryCorrect`, `RootPrivate`, `SocketsCorrect` and
  `ForeignUntouched` from `DaemonInv`. The identity file has one writer, the process
  whose exclusive create succeeded, and every identity that was handed out is what
  the file holds unless its creator failed (`IdentityInv`). `InitializationLasts`
  is not inductive, because who comes later might have something to undo. It has
  not: whoever is active and was not beside a finished command knows nothing of the
  ignore file to roll back and syncs no identity of its own (`LoadOK`), and has
  read a document with the finished command's profile, if it replaces or restores
  one (`RegisterOK`); `BesideInv` says that overlapping commands know of each
  other. Locks have one holder from the moment `Run` has them until it gives
  them up (`LockInv`); a root was accepted only below a sticky or private directory
  (`RootInv`); a ledger is bound to runtime and profile together, and who changes its
  schema has seen that it may (`LedgerInv`); from its look at the socket path on,
  nobody but the daemon that holds the locks puts a file there (`SocketInv`). A request that
  commits after the locks were released needs none of these: it compares the
  binding in its own transaction.

`ReleaseGateProofs`
: `SignedCorrect` and the substance of `JustifiedCorrect` from `GateInv`: risks are
  risks and an empty artifact says nothing (`RepositoryOK`), the gate links only what
  the manifest it read lists and nothing before it read the specs (`ReadInv`), a linked
  result says what its artifact said when it was read and, where signatures are asked
  for, has a matching bundle and a confirmed signature (`ResultsInv`, with `Reads` and
  `Verified`), and nothing
  with a blocking finding is released, whatever the policy (`JudgedInv`, which is
  `enforcePolicyFloor`). `LinkingInv` carries the signature through the three steps
  of an artifact: before cosign runs, its signer is accepted and its bundle was
  compared and is still the one on disk, unless it was rewritten (`Checked`).
  `SameFindings` is the point of the argument: the findings
  depend on what was read only, so an edit after the read cannot change them.
  `TypeCorrect` and `PolicyCorrect` from `TypeInv`: a decision is that of the policy
  that was read (`DecidedInv`), and the evaluation of a list of rules, a recursive
  function, is followed to the first rule that could have loosened it (`Least`).

Only model-checked: the liveness properties (`EventuallyConcluded`,
`InterruptedIsSettled`, `InterruptedIsClosed`), because fairness and `ENABLED` are out
of the prover's reach.

## Not modelled, and the plan

Not modelled because there is no state to interleave: identity tokens, peer
credentials, the probes of preflight, field syntax, digests and decoding, the
commands that make one request and print, parsing and rendering of the evidence
compiler, and its bootstrap of specs. I/O that a model reduces to its outcome: the
process supervision of the verification runner, command lines of the container
engine, the provider's protocol. SQLite, Git's objects, Ed25519, cosign and the
container engine are trusted.

In this order:

1. `EventLedger`: append with expected head and reference-counted locks as an
   abstract ledger that the handlers' atomic appends rely on.
2. `SequencePolicy`, resource patterns and budget arithmetic as operators against
   reference definitions.
