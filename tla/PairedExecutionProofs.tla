------------------------ MODULE PairedExecutionProofs ------------------------
(***************************************************************************)
(* Theorems about PairedExecution, for every budget, every set of charges, *)
(* any number of executions, attempts, run events and crashes.             *)
(***************************************************************************)
EXTENDS PairedExecution, TLAPS

Receipt == [attempt : Nat, status : ExecutionStatus]

\* The charge is a natural number that the budget still covers, whatever was
\* really used.
LEMMA ChargeFits ==
  ASSUME NEW actual \in Nat, NEW current \in 0..Limit
  PROVE  /\ boundedBudgetCharge(actual, current) \in Nat
         /\ current + boundedBudgetCharge(actual, current) \in 0..Limit
<1> DEFINE a == MaxInt64 - current
           b == Limit - current
<1>1. a \in Nat /\ b \in Nat /\ b =< a
  BY PairedExecutionAssumption
<1>2. \A x, y \in Nat : Min({x, y}) \in {x, y} /\ Min({x, y}) =< x /\ Min({x, y}) =< y
  <2> SUFFICES ASSUME NEW x \in Nat, NEW y \in Nat
               PROVE  Min({x, y}) \in {x, y} /\ Min({x, y}) =< x /\ Min({x, y}) =< y
    OBVIOUS
  <2>1. \E m \in {x, y} : \A z \in {x, y} : m =< z
    <3>1. CASE x =< y
      BY <3>1
    <3>2. CASE y =< x
      BY <3>2
    <3> QED
      BY <3>1, <3>2
  <2> QED
    BY <2>1 DEF Min
<1>3. Min({a, b}) \in Nat /\ Min({a, b}) =< b
  BY <1>1, <1>2
<1>4. /\ boundedBudgetCharge(actual, current) = Min({actual, Min({a, b})})
  BY DEF boundedBudgetCharge
<1>5. boundedBudgetCharge(actual, current) \in Nat /\ boundedBudgetCharge(actual, current) =< b
  <2> HIDE DEF a, b
  <2> QED
    BY <1>1, <1>2, <1>3, <1>4
<1> QED
  BY <1>5, PairedExecutionAssumption

-----------------------------------------------------------------------------
(* Type correctness *)

\* The state in which a task has just been admitted is well typed.
LEMMA TypeInit == Init => TypeOK
<1> SUFFICES ASSUME Init PROVE TypeOK
  OBVIOUS
<1>1. executions \in Seq(Receipt)
  BY DEF Init
<1>2. container \in BOOLEAN /\ external \in BOOLEAN
  BY DEF Init
<1>3. runState \in RunStates /\ usage \in 0..Limit
  BY PairedExecutionAssumption DEF Init, RunStates, allowedTransitions
<1>4. handler \in [phase : {"idle", "claim", "supervise", "settle"}, tx : Nat, run : Nat]
  BY DEF Init, Idle
<1> QED
  BY <1>1, <1>2, <1>3, <1>4 DEF Init, TypeOK, Receipt

\* The states the paired events put a run in.
LEMMA PairedStates == {"running", "waiting_for_event", "waiting_for_agent"} \subseteq RunStates
BY DEF RunStates, allowedTransitions

\* The two ledgers' part of the type.
LedgerType ==
  /\ runState \in RunStates /\ active \in Nat /\ runSeq \in Nat /\ usage \in 0..Limit
  /\ txState \in {"running", "staged", "aborted"} /\ attempt \in Nat /\ txSeq \in Nat
  /\ executions \in Seq(Receipt)

\* The paired start event keeps both ledgers well typed.
LEMMA StartType ==
  ASSUME TypeOK, PairedStart
  PROVE  LedgerType'
<1>1. executions \in Seq(Receipt) /\ Last \in Nat
  BY DEF TypeOK, Receipt, Last
<1>2. [attempt |-> attempt, status |-> "running"] \in Receipt
  BY DEF TypeOK, Receipt, ExecutionStatus
<1>3. executions' \in Seq(Receipt)
  BY <1>1, <1>2 DEF PairedStart
<1> QED
  BY <1>1, <1>3, PairedStates DEF TypeOK, PairedStart, LedgerType

\* The paired receipt keeps both ledgers well typed and the charge within budget.
LEMMA FinishType ==
  ASSUME TypeOK, NEW status \in ExecutionStatus, NEW actual \in Charges,
         PairedFinish(status, actual)
  PROVE  LedgerType'
<1>1. executions \in Seq(Receipt) /\ Last \in DOMAIN executions
  BY DEF TypeOK, Receipt, Last, PairedFinish, FinishAllowed, Executing
<1>2. executions[Last] \in Receipt
  BY <1>1
<1>3. [executions[Last] EXCEPT !.status = status] \in Receipt
  BY <1>2 DEF Receipt
<1>4. executions' = [executions EXCEPT ![Last] = [executions[Last] EXCEPT !.status = status]]
  BY DEF PairedFinish
<1>5. executions' \in Seq(Receipt)
  BY <1>1, <1>3, <1>4
<1>6. usage' \in 0..Limit
  BY ChargeFits, PairedExecutionAssumption DEF TypeOK, PairedFinish
<1>7. runState' \in RunStates
  BY PairedStates DEF PairedFinish
<1>8. active' \in Nat /\ runSeq' \in Nat /\ txSeq' \in Nat /\ UNCHANGED <<txState, attempt>>
  BY DEF TypeOK, PairedFinish
<1> QED
  BY <1>5, <1>6, <1>7, <1>8 DEF TypeOK, LedgerType

\* Every step keeps every variable in its type.
LEMMA TypeStep == TypeOK /\ [Next]_vars => TypeOK'
<1> SUFFICES ASSUME TypeOK, [Next]_vars PROVE TypeOK'
  OBVIOUS
<1> DEFINE SideType ==
      /\ handler \in [phase : {"idle", "claim", "supervise", "settle"}, tx : Nat, run : Nat]
      /\ container \in BOOLEAN /\ daemon \in {"up", "down", "refused"} /\ crashes \in Nat
      /\ external \in BOOLEAN
<1>1. LedgerType /\ SideType
  BY DEF TypeOK, LedgerType, Receipt
<1>2. ASSUME LedgerType', SideType' PROVE TypeOK'
  BY <1>2 DEF TypeOK, LedgerType, Receipt
<1>3. UNCHANGED <<run, tx>> => LedgerType'
  BY <1>1 DEF LedgerType, run, tx
<1>4. Idle \in [phase : {"idle", "claim", "supervise", "settle"}, tx : Nat, run : Nat]
  BY DEF Idle
<1>5. CASE CompileAuthority
  BY <1>1, <1>2, <1>3, <1>5 DEF CompileAuthority, LedgerType
<1>6. CASE ClaimExecution
  <2>1. LedgerType'
    BY <1>3, <1>6, StartType DEF ClaimExecution
  <2>2. container' \in BOOLEAN
    BY <1>1, <1>6 DEF ClaimExecution
  <2>3. handler' \in [phase : {"idle", "claim", "supervise", "settle"}, tx : Nat, run : Nat]
    BY <1>4, <1>6, <2>1 DEF ClaimExecution, LedgerType
  <2> QED
    BY <1>1, <1>2, <1>6, <2>1, <2>2, <2>3 DEF ClaimExecution
<1>7. CASE StopWorkload
  <2>1. container' \in BOOLEAN
    BY <1>7 DEF StopWorkload
  <2> QED
    BY <1>1, <1>2, <1>3, <1>7, <2>1 DEF StopWorkload
<1>8. CASE CleanupFails
  BY <1>1, <1>2, <1>3, <1>4, <1>8 DEF CleanupFails
<1>9. ASSUME NEW s \in {"succeeded", "unsuccessful"}, NEW c \in Charges,
             SettleExecution(s, c) \/ finishAgentExecution(s, c)
      PROVE  TypeOK'
  <2>1. LedgerType'
    BY <1>3, <1>9, FinishType DEF SettleExecution, finishAgentExecution, ExecutionStatus
  <2> QED
    BY <1>1, <1>2, <1>4, <1>9, <2>1 DEF SettleExecution, finishAgentExecution
<1>10. CASE startAgentExecution
  BY <1>1, <1>2, <1>10, StartType DEF startAgentExecution
<1>11. CASE stageTransaction \/ startTransaction \/ abortTransaction
  BY <1>1, <1>2, <1>11 DEF stageTransaction, startTransaction, abortTransaction,
       LedgerType, run
<1>12. ASSUME NEW to \in RunStates, appendEvent(to) PROVE TypeOK'
  BY <1>1, <1>2, <1>12 DEF appendEvent, LedgerType, tx
<1>13. CASE executeAction
  BY <1>1, <1>2, <1>13 DEF executeAction, LedgerType, tx
<1>14. CASE Crash
  BY <1>1, <1>2, <1>3, <1>4, <1>14 DEF Crash
<1>15. ASSUME NEW c \in Charges, recoverAgentExecutions(c) PROVE TypeOK'
  <2>1. LedgerType'
    BY <1>3, <1>15, FinishType DEF recoverAgentExecutions, ExecutionStatus
  <2>2. container' \in BOOLEAN
    BY <1>1, <1>15 DEF recoverAgentExecutions
  <2> QED
    BY <1>1, <1>2, <1>15, <2>1, <2>2 DEF recoverAgentExecutions
<1>16. CASE UNCHANGED vars
  BY <1>1, <1>2, <1>3, <1>16 DEF vars
<1> QED
  BY <1>5, <1>6, <1>7, <1>8, <1>9, <1>10, <1>11, <1>12, <1>13, <1>14, <1>15, <1>16 DEF Next

\* The usage of a run never exceeds its budget, and every variable stays in its
\* type.
THEOREM TypeCorrect == Spec => []TypeOK
BY TypeInit, TypeStep, PTL DEF Spec

-----------------------------------------------------------------------------
(* The two ledgers and the container *)

\* The handler is gone while the daemon is down.
NoHandlerWhileDown == daemon # "up" => handler = Idle

\* A staged transaction has no active execution.
StagedNotExecuting == txState = "staged" => ~Executing

\* A container that is known to be stopped is stopped.
SettleAfterStop == handler.phase = "settle" => ~container \/ external

\* The inductive invariant.
PairedInv ==
  /\ LedgersAgree /\ NoHandlerWhileDown /\ StagedNotExecuting
  /\ RefusedOnlyAfterAbort
  /\ ContainerUnderReceipt /\ SettleAfterStop

\* Nothing is active when the task has just been admitted.
LEMMA PairedInit == Init => PairedInv
BY DEF Init, PairedInv, LedgersAgree, NoHandlerWhileDown, StagedNotExecuting,
   RefusedOnlyAfterAbort, ContainerUnderReceipt, SettleAfterStop, Executing, Last, Idle

\* What the paired append does to both ledgers.
LEMMA StartEffect ==
  ASSUME TypeOK, PairedStart
  PROVE  /\ ~Executing /\ txState = "running" /\ txState' = "running"
         /\ Executing' /\ active' = Last' /\ runState' = "running"
<1>1. ~Executing /\ txState = "running" /\ txState' = "running" /\ runState' = "running"
  BY DEF PairedStart, StartAllowed
<1>2. /\ executions' = Append(executions, [attempt |-> attempt, status |-> "running"])
      /\ active' = Len(executions) + 1
  BY DEF PairedStart, Last
<1> QED
  BY <1>1, <1>2 DEF TypeOK, Executing, Last

\* After the paired receipt neither ledger has an active execution.
LEMMA FinishEffect ==
  ASSUME TypeOK, NEW status \in ExecutionStatus \ {"running"}, NEW actual,
         PairedFinish(status, actual)
  PROVE  /\ Executing /\ txState = "running" /\ txState' = "running"
         /\ ~Executing' /\ active' = 0
<1>1. Executing /\ txState = "running" /\ txState' = "running" /\ active' = 0
  BY DEF PairedFinish, FinishAllowed
<1>2. executions' = [executions EXCEPT ![Len(executions)].status = status]
  BY DEF PairedFinish, Last
<1> QED
  BY <1>1, <1>2 DEF TypeOK, Executing, Last

\* The receipt of an active execution is refused only if the transaction left
\* the running state: never for its budget.
LEMMA FinishAccepted ==
  ASSUME TypeOK, LedgersAgree, Executing, txState = "running", NEW actual \in Charges
  PROVE  FinishAllowed(actual)
<1>1. usage + boundedBudgetCharge(actual, usage) \in 0..Limit
  BY ChargeFits, PairedExecutionAssumption DEF TypeOK
<1> QED
  BY <1>1, PairedExecutionAssumption DEF FinishAllowed, LedgersAgree

\* Every step of a handler, of a client, of a crash and of recovery preserves the
\* inductive invariant.
LEMMA PairedStep == TypeOK /\ PairedInv /\ [Next]_vars => PairedInv'
<1> SUFFICES ASSUME TypeOK, PairedInv, [Next]_vars PROVE PairedInv'
  OBVIOUS
<1> USE DEF PairedInv, LedgersAgree, NoHandlerWhileDown, StagedNotExecuting,
      RefusedOnlyAfterAbort, ContainerUnderReceipt, SettleAfterStop
<1>1. UNCHANGED executions => (Executing' <=> Executing) /\ Last' = Last
  BY DEF Executing, Last
<1>2. CASE CompileAuthority
  BY <1>1, <1>2 DEF CompileAuthority, Unlocked, run, tx
<1>3. CASE ClaimExecution
  <2>1. CASE PairedStart /\ handler'.phase = "supervise"
    BY <1>3, <2>1, StartEffect DEF ClaimExecution, Idle
  <2>2. CASE handler' = Idle /\ UNCHANGED <<run, tx, container>>
    BY <1>1, <1>3, <2>2 DEF ClaimExecution, Idle, run, tx
  <2> QED
    BY <1>3, <2>1, <2>2 DEF ClaimExecution
<1>4. CASE StopWorkload
  BY <1>1, <1>4 DEF StopWorkload, Idle, run, tx
<1>5. CASE CleanupFails
  <2>1. container' => container
    BY <1>5 DEF CleanupFails
  <2> QED
    BY <1>1, <1>5, <2>1 DEF CleanupFails, Idle, run, tx
<1>6. ASSUME NEW s \in {"succeeded", "unsuccessful"}, NEW c \in Charges, SettleExecution(s, c)
      PROVE  PairedInv'
  <2>1. CASE PairedFinish(s, c)
    BY <1>6, <2>1, FinishEffect DEF SettleExecution, Idle, ExecutionStatus
  <2>2. CASE UNCHANGED <<run, tx>>
    BY <1>1, <1>6, <2>2 DEF SettleExecution, Idle, run, tx
  <2> QED
    BY <1>6, <2>1, <2>2 DEF SettleExecution
<1>7. ASSUME NEW s \in {"succeeded", "unsuccessful"}, NEW c \in Charges,
             finishAgentExecution(s, c)
      PROVE  PairedInv'
  BY <1>7, FinishEffect DEF finishAgentExecution, ExecutionStatus, Unlocked
<1>8. CASE startAgentExecution
  BY <1>8, StartEffect DEF startAgentExecution, Unlocked
<1>9. CASE stageTransaction
  <2>1. ~Executing
    BY <1>9 DEF stageTransaction, Executing
  <2> QED
    BY <1>1, <1>9, <2>1 DEF stageTransaction, Unlocked, run
<1>10. CASE startTransaction \/ abortTransaction
  BY <1>1, <1>10 DEF startTransaction, abortTransaction, Unlocked, run
<1>11. ASSUME NEW to \in RunStates, appendEvent(to) PROVE PairedInv'
  <2>1. Executing => active # 0
    BY DEF Executing, Last, TypeOK
  <2> QED
    BY <1>1, <1>11, <2>1 DEF appendEvent, StateChangeAllowed, tx
<1>12. CASE executeAction
  BY <1>1, <1>12 DEF executeAction, tx
<1>13. CASE Crash
  BY <1>1, <1>13 DEF Crash, Idle, run, tx
<1>14. ASSUME NEW c \in Charges, recoverAgentExecutions(c) PROVE PairedInv'
  <2>0. ProjectionsAgree
    BY DEF ProjectionsAgree
  <2>1. CASE ~Executing
    BY <1>1, <1>14, <2>0, <2>1 DEF recoverAgentExecutions, run, tx
  <2>2. CASE Executing /\ FinishAllowed(c)
    BY <1>14, <2>0, <2>2, FinishEffect DEF recoverAgentExecutions, ExecutionStatus
  <2>3. CASE Executing /\ ~FinishAllowed(c)
    <3>1. txState = "aborted"
      BY <2>3, FinishAccepted DEF TypeOK
    <3> QED
      BY <1>1, <1>14, <2>0, <2>3, <3>1 DEF recoverAgentExecutions, run, tx
  <2> QED
    BY <2>1, <2>2, <2>3
<1>15. CASE UNCHANGED vars
  BY <1>1, <1>15 DEF vars, run, tx
<1> QED
  BY <1>2, <1>3, <1>4, <1>5, <1>6, <1>7, <1>8, <1>9, <1>10, <1>11, <1>12, <1>13, <1>14,
     <1>15 DEF Next

\* Both ledgers name the same active execution at all times, and the daemon
\* refuses to start for no other reason than a transaction aborted under its
\* execution.
THEOREM LedgersCorrect == Spec => [](LedgersAgree /\ RefusedOnlyAfterAbort)
<1>1. PairedInv => LedgersAgree /\ RefusedOnlyAfterAbort
  BY DEF PairedInv
<1> QED
  BY <1>1, TypeCorrect, PairedInit, PairedStep, PTL DEF Spec

\* Where clients may not author receipts, no container outlives its receipt, and
\* nothing runs or is charged under a staged transaction.
THEOREM ContainerCorrect ==
  Spec => [](ContainerUnderReceipt /\ StagedIsSettled)
<1>1. PairedInv => ContainerUnderReceipt /\ StagedIsSettled
  BY DEF PairedInv, LedgersAgree, StagedNotExecuting, ContainerUnderReceipt, StagedIsSettled
<1> QED
  BY <1>1, TypeCorrect, PairedInit, PairedStep, PTL DEF Spec

\* Recovery refuses to start the daemon only after a transaction was aborted under
\* an active execution.
THEOREM RefusalCorrect == Spec => []RefusedOnlyAfterAbort
BY LedgersCorrect, PTL

=============================================================================
