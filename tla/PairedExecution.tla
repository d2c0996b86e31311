--------------------------- MODULE PairedExecution ---------------------------
(***************************************************************************)
(* An admitted task has two ledgers: the run's (reducer/reducer.go) and    *)
(* the transaction's (transaction/reducer.go).  The start and the end of a *)
(* supervised execution are appended to both in one SQLite transaction     *)
(* that compares both heads with the ones its author read                  *)
(* (store/execution_store.go).                                             *)
(*                                                                         *)
(* The two ledgers have different locks.  runAgentExecution holds the      *)
(* transaction's from its first read to the receipt, but not the run's: a  *)
(* state change or an action of the run moves the run's head under it.     *)
(* The daemon may die at any point, leaving the agent's container running, *)
(* and recovers when it is started again (daemon/recovery.go).             *)
(***************************************************************************)
EXTENDS Naturals, Sequences, FiniteSetsExt

CONSTANTS
  AllowHost,      \* development profile: clients drive runs and request actions
  Limit,          \* wall-time budget of the run
  MaxInt64,       \* largest value of a budget counter
  Charges,        \* wall times an execution may have taken
  MaxExecutions, MaxAttempt, MaxRunSeq, MaxCrashes   \* bounds of the model

ASSUME PairedExecutionAssumption ==
  /\ AllowHost \in BOOLEAN
  /\ MaxInt64 \in Nat /\ Limit \in 1..MaxInt64 /\ Charges \subseteq Nat
  /\ MaxExecutions \in Nat /\ MaxAttempt \in Nat
  /\ MaxRunSeq \in Nat /\ MaxCrashes \in Nat

VARIABLES
  runState, active, runSeq, usage,       \* the run's projection
  txState, attempt, txSeq, executions,   \* the transaction's projection
  handler,    \* runAgentExecution: its phase and the heads it read
  container,  \* the agent's container is running
  daemon, crashes,
  external    \* development option, the same at every start of the daemon:
              \* clients author execution receipts

run == <<runState, active, runSeq, usage>>
tx == <<txState, attempt, txSeq, executions>>
vars == <<run, tx, handler, container, daemon, crashes, external>>

allowedTransitions ==
  [created              |-> {"admitted", "failed", "cancelled"},
   admitted             |-> {"running", "blocked", "failed", "cancelled"},
   running              |-> {"waiting_for_event", "waiting_for_agent",
                             "waiting_for_approval", "blocked", "failed",
                             "cancelled", "completed"},
   waiting_for_event    |-> {"running", "blocked", "failed", "cancelled"},
   waiting_for_agent    |-> {"running", "blocked", "failed", "cancelled"},
   waiting_for_approval |-> {"running", "blocked", "failed", "cancelled"},
   blocked              |-> {"admitted", "running", "failed", "cancelled"},
   failed |-> {}, cancelled |-> {}, completed |-> {}]

RunStates == DOMAIN allowedTransitions
Launchable == {"admitted", "waiting_for_agent", "waiting_for_event"}
ExecutionStatus == {"running", "succeeded", "unsuccessful", "interrupted"}
Idle == [phase |-> "idle", tx |-> 0, run |-> 0]

Last == Len(executions)
Executing == Last > 0 /\ executions[Last].status = "running"

\* The heads the handler read are still the heads of both ledgers.
HeadsUnmoved == handler.tx = txSeq /\ handler.run = runSeq

Init ==
  /\ runState = "admitted" /\ active = 0 /\ runSeq = 1 /\ usage = 0
  /\ txState = "running" /\ attempt = 1 /\ txSeq = 1 /\ executions = <<>>
  /\ handler = Idle /\ container = FALSE /\ daemon = "up" /\ crashes = 0
  /\ external \in BOOLEAN /\ (external => AllowHost)

-----------------------------------------------------------------------------
(* AppendPairedExecutionEvent *)

\* Fault variant of boundedBudgetCharge: the charge is what was used.
unboundedBudgetCharge(actual, current) == actual

boundedBudgetCharge(actual, current) ==
  LET remaining == Min({MaxInt64 - current, Limit - current})
  IN Min({actual, remaining})

StartAllowed ==
  /\ txState = "running" /\ ~Executing
  /\ runState \in Launchable /\ active = 0

PairedStart ==
  /\ StartAllowed
  /\ executions' = Append(executions, [attempt |-> attempt, status |-> "running"])
  /\ txSeq' = txSeq + 1 /\ UNCHANGED <<txState, attempt>>
  /\ active' = Last + 1 /\ runState' = "running"
  /\ runSeq' = runSeq + 1 /\ UNCHANGED usage

\* Both reducers accept the receipt, and the run with its new usage is valid.
FinishAllowed(actual) ==
  /\ txState = "running" /\ Executing
  /\ runState = "running" /\ active = Last
  /\ usage + boundedBudgetCharge(actual, usage) =< Limit

\* Fault variant of PairedFinish: only the transaction's ledger is written.
TransactionFinish(status, actual) ==
  /\ FinishAllowed(actual)
  /\ executions' = [executions EXCEPT ![Last].status = status]
  /\ txSeq' = txSeq + 1 /\ UNCHANGED <<txState, attempt, run>>

PairedFinish(status, actual) ==
  /\ FinishAllowed(actual)
  /\ executions' = [executions EXCEPT ![Last].status = status]
  /\ txSeq' = txSeq + 1 /\ UNCHANGED <<txState, attempt>>
  /\ active' = 0 /\ runSeq' = runSeq + 1
  /\ usage' = usage + boundedBudgetCharge(actual, usage)
  /\ runState' = IF status = "succeeded" THEN "waiting_for_event" ELSE "waiting_for_agent"

-----------------------------------------------------------------------------
(* Handlers that hold the transaction's lock *)

Unlocked == daemon = "up" /\ handler = Idle

\* runAgentExecution compiles its authority from one snapshot of both ledgers.
CompileAuthority ==
  /\ Unlocked
  /\ StartAllowed /\ usage < Limit /\ Last < MaxExecutions
  /\ handler' = [phase |-> "claim", tx |-> txSeq, run |-> runSeq]
  /\ UNCHANGED <<run, tx, container, daemon, crashes, external>>

\* It claims the launch, and the workload starts or fails to start; or it gives
\* up, because a head moved, the authority expired or a preparation failed.
ClaimExecution ==
  /\ handler.phase = "claim"
  /\ \/ /\ HeadsUnmoved /\ PairedStart
        /\ handler' = [phase |-> "supervise", tx |-> txSeq', run |-> runSeq']
        /\ container' \in BOOLEAN
     \/ handler' = Idle /\ UNCHANGED <<run, tx, container>>
  /\ UNCHANGED <<daemon, crashes, external>>

\* The process ends and the container is removed.
StopWorkload ==
  /\ handler.phase = "supervise"
  /\ handler' = [handler EXCEPT !.phase = "settle"] /\ container' = FALSE
  /\ UNCHANGED <<run, tx, daemon, crashes, external>>

\* "cleanup failed; execution remains active until daemon recovery": of the agent's
\* container, or of the model broker once the container is gone.
CleanupFails ==
  /\ handler.phase = "supervise"
  /\ handler' = Idle /\ container' \in {container, FALSE}
  /\ UNCHANGED <<run, tx, daemon, crashes, external>>

\* The receipt, against the heads the claim left.  If the run moved on since, or
\* the store fails, nothing is appended and the execution stays active.
SettleExecution(status, actual) ==
  /\ handler.phase = "settle"
  /\ \/ HeadsUnmoved /\ PairedFinish(status, actual)
     \/ UNCHANGED <<run, tx>>
  /\ handler' = Idle
  /\ UNCHANGED <<container, daemon, crashes, external>>

\* Receipts of a process the client supervises: the heads are read on the spot.
startAgentExecution ==
  /\ external /\ Unlocked /\ Last < MaxExecutions
  /\ PairedStart
  /\ UNCHANGED <<handler, container, daemon, crashes, external>>

finishAgentExecution(status, actual) ==
  /\ external /\ Unlocked
  /\ PairedFinish(status, actual)
  /\ UNCHANGED <<handler, container, daemon, crashes, external>>

stageTransaction ==
  /\ Unlocked /\ txState = "running" /\ Last > 0
  /\ executions[Last].attempt = attempt /\ executions[Last].status = "succeeded"
  /\ txState' = "staged" /\ txSeq' = txSeq + 1
  /\ UNCHANGED <<run, attempt, executions, handler, container, daemon, crashes, external>>

\* A staged transaction is sent back for another attempt.
startTransaction ==
  /\ Unlocked /\ txState = "staged" /\ attempt < MaxAttempt
  /\ txState' = "running" /\ attempt' = attempt + 1 /\ txSeq' = txSeq + 1
  /\ UNCHANGED <<run, executions, handler, container, daemon, crashes, external>>

abortTransaction ==
  /\ Unlocked /\ txState \in {"running", "staged"}
  /\ txState' = "aborted" /\ txSeq' = txSeq + 1
  /\ UNCHANGED <<run, attempt, executions, handler, container, daemon, crashes, external>>

-----------------------------------------------------------------------------
(* Handlers that hold the run's lock *)

StateChangeAllowed(to) ==
  /\ to \in allowedTransitions[runState]
  /\ active # 0 => to = "running"

\* appendEvent: a client moves the run to another state.
appendEvent(to) ==
  /\ AllowHost /\ daemon = "up" /\ runSeq < MaxRunSeq
  /\ StateChangeAllowed(to)
  /\ runState' = to /\ runSeq' = runSeq + 1
  /\ UNCHANGED <<active, usage, tx, handler, container, daemon, crashes, external>>

\* Broker.Execute appends the events of an action to a running run.
executeAction ==
  /\ AllowHost /\ daemon = "up" /\ runSeq < MaxRunSeq /\ runState = "running"
  /\ runSeq' = runSeq + 1
  /\ UNCHANGED <<runState, active, usage, tx, handler, container, daemon, crashes, external>>

-----------------------------------------------------------------------------
(* Crash and recovery *)

Crash ==
  /\ daemon = "up" /\ crashes < MaxCrashes
  /\ daemon' = "down" /\ crashes' = crashes + 1 /\ handler' = Idle
  /\ UNCHANGED <<run, tx, container, external>>

\* What recovery compares before it touches anything.
ProjectionsAgree ==
  Last > 0 => IF Executing THEN runState = "running" /\ active = Last ELSE active = 0

\* Fault variant of recoverAgentExecutions: the container is left alone.
recoverWithoutCleanup(actual) ==
  /\ daemon \in {"down", "refused"}
  /\ IF Executing
       THEN IF FinishAllowed(actual)
              THEN PairedFinish("interrupted", actual) /\ daemon' = "up"
              ELSE UNCHANGED <<run, tx>> /\ daemon' = "refused"
       ELSE UNCHANGED <<run, tx>> /\ daemon' = "up"
  /\ UNCHANGED <<container, handler, crashes, external>>

\* Fault variant of recoverAgentExecutions: an active execution is cleaned up but
\* not settled.
recoverWithoutReceipt(actual) ==
  /\ daemon \in {"down", "refused"}
  /\ daemon' = "up" /\ container' = FALSE
  /\ UNCHANGED <<run, tx, handler, crashes, external>>

\* recoverAgentExecutions, before the daemon listens: an execution that is
\* still active is cleaned up and settled as interrupted; if its receipt is
\* refused the daemon does not start.  A cleanup that fails also ends the start,
\* with nothing changed: a stuttering step.
recoverAgentExecutions(actual) ==
  /\ daemon \in {"down", "refused"}
  /\ IF ~ProjectionsAgree
       THEN UNCHANGED <<run, tx, container>> /\ daemon' = "refused"
     ELSE IF ~Executing
       THEN UNCHANGED <<run, tx, container>> /\ daemon' = "up"
     ELSE /\ container' = FALSE
          /\ IF FinishAllowed(actual)
               THEN PairedFinish("interrupted", actual) /\ daemon' = "up"
               ELSE UNCHANGED <<run, tx>> /\ daemon' = "refused"
  /\ UNCHANGED <<handler, crashes, external>>

Next ==
  \/ CompileAuthority \/ ClaimExecution \/ StopWorkload \/ CleanupFails
  \/ \E s \in {"succeeded", "unsuccessful"}, c \in Charges :
       SettleExecution(s, c) \/ finishAgentExecution(s, c)
  \/ startAgentExecution
  \/ stageTransaction \/ startTransaction \/ abortTransaction
  \/ \E to \in RunStates : appendEvent(to)
  \/ executeAction
  \/ Crash
  \/ \E c \in Charges : recoverAgentExecutions(c)

Spec == Init /\ [][Next]_vars

\* A service manager starts the daemon again when it died.
FairSpec == Spec /\ WF_vars(\E c \in Charges : recoverAgentExecutions(c))

-----------------------------------------------------------------------------
(* Properties *)

\* Every variable stays in its type; the run's usage stays within its budget.
TypeOK ==
  /\ runState \in RunStates /\ active \in Nat /\ runSeq \in Nat /\ usage \in 0..Limit
  /\ txState \in {"running", "staged", "aborted"} /\ attempt \in Nat /\ txSeq \in Nat
  /\ executions \in Seq([attempt : Nat, status : ExecutionStatus])
  /\ handler \in [phase : {"idle", "claim", "supervise", "settle"}, tx : Nat, run : Nat]
  /\ container \in BOOLEAN /\ daemon \in {"up", "down", "refused"} /\ crashes \in Nat
  /\ external \in BOOLEAN

\* The two ledgers never disagree about which execution is active, through every
\* crash, refused receipt, client-made state change and abort: the check at the
\* head of recovery never finds a contradiction.
LedgersAgree ==
  IF Executing THEN active = Last /\ runState = "running" ELSE active = 0

\* Where the daemon authors all receipts, a container never outlives the receipt
\* of its execution, so nothing writes to a worktree that is staged or was handed
\* to the next execution.
ContainerUnderReceipt == container => Executing \/ external

\* A transaction is only staged on an execution both ledgers have settled, and,
\* where the daemon authors all receipts, with no container left that writes.
StagedIsSettled ==
  txState = "staged" => active = 0 /\ ~Executing /\ (container => external)

\* The receipt of an interrupted execution is only ever refused because the
\* transaction was aborted under it, not by its budget or by the run.
RefusedOnlyAfterAbort == daemon = "refused" => txState = "aborted"

\* An execution the daemon lost is settled after a restart, unless its
\* transaction was aborted.
InterruptedIsSettled ==
  (daemon = "down" /\ Executing) ~> (~Executing \/ txState = "aborted")

-----------------------------------------------------------------------------
(* What the documentation says and the code does not do *)

\* docs/PRODUCTION.md: "If an agent execution was active, Gatemole removes its
\* deterministic container and appends an `interrupted` receipt."  The receipt
\* of an execution that recovery finds active is accepted.
ActiveIsInterrupted == daemon # "refused"

=============================================================================
