------------------------------ MODULE TaskRun ------------------------------
(***************************************************************************)
(* `gatemole tx run`: the client admits a task, starts its transaction,    *)
(* has a worktree created, runs the agent in a container of the daemon or  *)
(* as its own child, stages and validates.  It keeps no state: run again   *)
(* with the same identifier it goes on from what the ledger says, and an   *)
(* identifier may be run by several clients at once.  Every request        *)
(* carries the event sequence of the projection the client has seen.       *)
(*                                                                         *)
(* A client's copy of the event sequence is compared with the current one  *)
(* only for equality: `current' says that nothing was appended since.      *)
(* Handlers are those of module Transaction, reduced to what a client      *)
(* waits for; runAgentExecution holds the lock of its transaction and a    *)
(* workload slot while the agent runs.                                     *)
(***************************************************************************)
EXTENDS TaskAdmission

CONSTANTS
  MaxWorkloads, \* the capacity of workloadSlots
  MaxAttempts   \* bound on attempts

ASSUME WorkloadsAssumption == MaxWorkloads \in Nat \ {0} /\ MaxAttempts \in Nat \ {0}

VARIABLES
  tx,      \* tx[k]: state, attempt, stage binding, latest execution of the attempt
  serving, \* serving[k]: the runAgentExecution that holds the lock of k, and for whom
  slots,   \* tokens in workloadSlots
  client,  \* client[c]: where the command is and the projection it has seen
  live,    \* live[k]: grants, deadlines and budgets of k let an agent be launched
  clean    \* clean[k]: the worktree of k is as the next request needs it: absent to be
           \* created, fit to be inspected, as it was frozen

runVars == <<tx, serving, slots, client>>
ground == <<live, clean>>
vars == <<admissionVars, runVars, ground>>

Transactions == {r.transaction : r \in Requests}
TxOf(c) == request[c].transaction
\* An admission from before runtime identities is replayed but gives no authority.
requireCurrentRuntimeAuthority(k) ==
  \E r \in rows : r.table = "transaction" /\ r.id = k /\ request[r.of].version = "v1"
Idle == [at |-> "idle", by |-> NoOne]
Nowhere == [pc |-> "idle", view |-> NoOne, current |-> FALSE, code |-> 0]

Init ==
  /\ InitAdmission
  /\ tx = [k \in Transactions |->
             [state |-> "created", attempt |-> 1, bound |-> FALSE, exec |-> "none", wins |-> 0]]
  /\ serving = [k \in Transactions |-> Idle]
  /\ slots = 0
  /\ client = [c \in Clients |-> Nowhere]
  /\ live = [k \in Transactions |-> TRUE] /\ clean = [k \in Transactions |-> TRUE]

-----------------------------------------------------------------------------
At(c, where) == client[c].pc = where
View(c) == client[c].view

Ended == {"idle", "exited"}
Exited(code) == [Nowhere EXCEPT !.pc = "exited", !.code = code]
Exit(c, code) == client' = [client EXCEPT ![c] = Exited(code)]
Goto(c, where) == client' = [client EXCEPT ![c].pc = where]

\* An event of transaction k was appended: c has the new projection, the
\* sequence everybody else has seen is an old one.
Appended(c, k, after) ==
  client' = [d \in Clients |->
    IF d = c THEN after
    ELSE IF TxOf(d) = k THEN [client[d] EXCEPT !.current = FALSE] ELSE client[d]]

Sees(projection, where) ==
  [pc |-> where, view |-> projection, current |-> TRUE, code |-> 0]

\* Fault variant of transactionAtSequence: the sequence is not compared.
transactionAtAnySequence(c) == TRUE

\* The handler waited for the lock and found the sequence the client expects.
transactionAtSequence(c) == client[c].current

Unlocked(c) == serving[TxOf(c)] = Idle

\* A request whose handler is one step: `accepted' is what the handler
\* requires, `next' the projection it leaves.  The client goes on, or was
\* killed before it saw the answer; a refusal ends it.
Call(c, accepted, next, after) ==
  /\ up /\ Unlocked(c)
  /\ IF transactionAtSequence(c) /\ requireCurrentRuntimeAuthority(TxOf(c)) /\ accepted
     THEN /\ tx' = [tx EXCEPT ![TxOf(c)] = next]
          /\ \/ Appended(c, TxOf(c), after) /\ UNCHANGED troubles
             \/ Trouble /\ Appended(c, TxOf(c), Exited(1))
     ELSE Exit(c, 1) /\ UNCHANGED <<tx, troubles>>
  /\ UNCHANGED <<request, rows, writer, pending, call, allowed, up, serving, slots, ground>>

\* The command is given, for the first time or again.
BeginRun(c) ==
  /\ client[c].pc \in Ended /\ call[c].at \in {"idle", "answered"}
  /\ client' = [client EXCEPT ![c] =
       [Nowhere EXCEPT !.pc = IF request[c].class = "oci" THEN "preflight" ELSE "admit"]]
  /\ call' = [call EXCEPT ![c] = NoCall]
  /\ UNCHANGED <<request, rows, writer, pending, allowed, up, troubles, tx, serving,
                 slots, ground>>

\* Nobody answers on the socket.
Unreachable(c) ==
  /\ ~up /\ client[c].pc \notin Ended \cup {"execute", "child", "agent"}
  /\ At(c, "admit") => call[c].at = "idle"
  /\ Exit(c, 1)
  /\ UNCHANGED <<admissionVars, tx, serving, slots, ground>>

\* Policy, ledger, container engine and image, or a failure of one of them.
preflightRuntime(c) ==
  /\ up /\ At(c, "preflight")
  /\ \/ allowed /\ Goto(c, "admit") /\ UNCHANGED troubles
     \/ ~allowed /\ Exit(c, 1) /\ UNCHANGED troubles
     \/ Trouble /\ Exit(c, 1)
  /\ UNCHANGED <<request, rows, writer, pending, call, allowed, up, tx, serving,
                 slots, ground>>

\* The call goes on if the client that made it is killed.
Admit(c) ==
  /\ At(c, "admit") \/ call[c].at \notin {"idle", "answered"}
  /\ AdmissionCall(c)
  /\ UNCHANGED <<runVars, ground>>

\* Fault variant of AdmissionAnswered: any answer with a result will do.
AnsweredUnchecked(c) ==
  /\ At(c, "admit") /\ call[c].at = "answered"
  /\ IF Admitted(Key(c)) THEN Goto(c, "get") ELSE Exit(c, 1)
  /\ call' = [call EXCEPT ![c] = NoCall]
  /\ UNCHANGED <<request, rows, writer, pending, allowed, up, troubles, tx, serving, slots,
                 ground>>

AdmissionAnswered(c) ==
  /\ At(c, "admit") /\ call[c].at = "answered"
  /\ IF call[c].answer \in {"created", "existing"} THEN Goto(c, "get") ELSE Exit(c, 1)
  /\ call' = [call EXCEPT ![c] = NoCall]
  /\ UNCHANGED <<request, rows, writer, pending, allowed, up, troubles, tx, serving, slots,
                 ground>>

transactionRunStateIsHealthy(s) ==
  s \in {"validating", "pending_approval", "completed_no_effect"}

\* Fault variant of GetTransaction: whatever is not staged is resumed.
GetAndResume(c) ==
  /\ up /\ At(c, "get")
  /\ LET seen == tx[TxOf(c)] IN
     client' = [client EXCEPT ![c] =
       CASE seen.state = "staged"  -> Sees(seen, "validate")
         [] seen.state = "created" -> Sees(seen, "start")
         [] OTHER                  -> Sees(seen, "worktree")]
  /\ UNCHANGED <<admissionVars, tx, serving, slots, ground>>

\* Where the command goes on from what the ledger says.
GetTransaction(c) ==
  /\ up /\ At(c, "get")
  /\ LET seen == tx[TxOf(c)] IN
     client' = [client EXCEPT ![c] =
       CASE seen.state = "staged" -> Sees(seen, "validate")
         [] seen.state \in {"created", "validation_failed", "revise_required"}
                                  -> Sees(seen, "start")
         [] seen.state = "running" -> Sees(seen, "worktree")
         [] transactionRunStateIsHealthy(seen.state) -> Exited(0)
         [] OTHER                  -> Exited(1)]
  /\ UNCHANGED <<admissionVars, tx, serving, slots, ground>>

StartTransaction(c) ==
  /\ At(c, "start")
  /\ LET now == tx[TxOf(c)]
         next == [now EXCEPT !.state = "running",
                    !.attempt = IF now.state = "created" THEN @ ELSE @ + 1,
                    !.exec = "none", !.wins = 0]
     IN Call(c, now.state \in {"created", "validation_failed", "revise_required"}, next,
             Sees(next, "worktree"))

\* Create refuses a path at which there is something already.
CreateTransactionWorktree(c) ==
  /\ At(c, "worktree")
  /\ LET now == tx[TxOf(c)]
         next == [now EXCEPT !.bound = TRUE]
     IN IF View(c).bound
        THEN Goto(c, "execute") /\ UNCHANGED <<admissionVars, tx, serving, slots, ground>>
        ELSE Call(c, now.state = "running" /\ ~now.bound /\ clean[TxOf(c)], next,
                  Sees(next, "execute"))

\* The creation fails half way, because of git, of a caller who went away or of
\* the daemon's death.  What was created is removed, or stays in the way.
CreationFails(c) ==
  /\ up /\ At(c, "worktree") /\ Unlocked(c) /\ ~View(c).bound /\ Trouble
  /\ transactionAtSequence(c) /\ requireCurrentRuntimeAuthority(TxOf(c))
  /\ tx[TxOf(c)].state = "running" /\ ~tx[TxOf(c)].bound
  /\ clean[TxOf(c)] /\ \E removed \in BOOLEAN : clean' = [clean EXCEPT ![TxOf(c)] = removed]
  /\ Exit(c, 1)
  /\ UNCHANGED <<request, rows, writer, pending, call, allowed, up, tx, serving, slots, live>>

\* The latest execution of the attempt decides whether the agent must run.
DecideExecution(c) ==
  /\ At(c, "execute")
  /\ CASE View(c).exec = "running"   -> Exit(c, 1)
       [] View(c).exec = "succeeded" -> Goto(c, "stage")
       [] OTHER -> Goto(c, IF request[c].class = "oci" THEN "run" ELSE "spawn")
  /\ UNCHANGED <<admissionVars, tx, serving, slots, ground>>

-----------------------------------------------------------------------------
(* runAgentExecution *)

\* The select does not wait: without a free token the request is refused.
acquireWorkloadSlot == slots < MaxWorkloads

\* What a launch requires: the projection the client has seen, live authority
\* and a free slot.
MayLaunch(c) ==
  LET now == tx[TxOf(c)] IN
  /\ transactionAtSequence(c) /\ requireCurrentRuntimeAuthority(TxOf(c))
  /\ now.state = "running" /\ now.bound /\ now.exec # "running"
  /\ live[TxOf(c)] /\ acquireWorkloadSlot

\* A worktree that was tampered with may be refused as well.
RunTransactionAgent(c) ==
  /\ up /\ At(c, "run") /\ Unlocked(c)
  /\ \/ /\ MayLaunch(c)
        /\ serving' = [serving EXCEPT ![TxOf(c)] = [at |-> "prepare", by |-> c]]
        /\ slots' = slots + 1 /\ Goto(c, "agent")
     \/ /\ ~MayLaunch(c) \/ ~clean[TxOf(c)]
        /\ Exit(c, 1) /\ UNCHANGED <<serving, slots>>
  /\ UNCHANGED <<admissionVars, tx, ground>>

\* The deferred calls of the handler.
Returns(k) == serving' = [serving EXCEPT ![k] = Idle] /\ slots' = slots - 1

\* Whoever waits for the answer gets it.
Answered(k, c, after) ==
  IF c = NoOne THEN Appended(NoOne, k, Nowhere) ELSE Appended(c, k, after)

\* Fault variant of PrepareFails: the slot is released only after a run.
PrepareFailsHoldingSlot(k) ==
  /\ serving[k].at = "prepare" /\ IF live[k] THEN Trouble ELSE UNCHANGED troubles
  /\ client' = [c \in Clients |-> IF c = serving[k].by THEN Exited(1) ELSE client[c]]
  /\ serving' = [serving EXCEPT ![k] = Idle] /\ UNCHANGED slots
  /\ UNCHANGED <<request, rows, writer, pending, call, allowed, up, tx, ground>>

\* The authority ends before the launch, or ownership, the task document, the
\* model broker's policy or the claim of the launch fails: nothing is appended.
PrepareFails(k) ==
  /\ serving[k].at = "prepare" /\ IF live[k] THEN Trouble ELSE UNCHANGED troubles
  /\ client' = [c \in Clients |-> IF c = serving[k].by THEN Exited(1) ELSE client[c]]
  /\ Returns(k)
  /\ UNCHANGED <<request, rows, writer, pending, call, allowed, up, tx, ground>>

LaunchAgent(k) ==
  /\ serving[k].at = "prepare"
  /\ tx' = [tx EXCEPT ![k].exec = "running"]
  /\ serving' = [serving EXCEPT ![k].at = "running"]
  /\ client' = [c \in Clients |->
                  IF TxOf(c) = k THEN [client[c] EXCEPT !.current = FALSE] ELSE client[c]]
  /\ UNCHANGED <<admissionVars, slots, ground>>

\* The process ended and its receipt is appended.  Without success the answer
\* is an error or a failed execution: the command ends either way.
SettleAgent(k, status) ==
  /\ serving[k].at = "running"
  /\ IF status = "succeeded" \/ serving[k].by = NoOne THEN UNCHANGED troubles
     ELSE Trouble
  /\ LET next == [tx[k] EXCEPT !.exec = status,
                               !.wins = IF status = "succeeded" THEN @ + 1 ELSE @]
     IN /\ tx' = [tx EXCEPT ![k] = next]
        /\ Answered(k, serving[k].by,
                    IF status = "succeeded" THEN Sees(next, "stage") ELSE Exited(1))
  /\ Returns(k)
  /\ UNCHANGED <<request, rows, writer, pending, call, allowed, up, ground>>

\* The container or the broker cannot be removed, the receipts do not verify
\* or the receipt cannot be appended: the execution stays active.
CleanupFails(k) ==
  /\ serving[k].at = "running" /\ Trouble
  /\ client' = [c \in Clients |-> IF c = serving[k].by THEN Exited(1) ELSE client[c]]
  /\ Returns(k)
  /\ UNCHANGED <<request, rows, writer, pending, call, allowed, up, tx, ground>>

-----------------------------------------------------------------------------
(* A child of the client, staging, validation *)

StartAgentExecution(c) ==
  /\ At(c, "spawn")
  /\ LET now == tx[TxOf(c)]
         next == [now EXCEPT !.exec = "running"]
     IN Call(c, now.state = "running" /\ now.bound /\ now.exec # "running", next,
             Sees(next, "child"))

\* The client supervises its child, and reports how it ended.
FinishAgentExecution(c, status) ==
  /\ At(c, "child") /\ (up => Unlocked(c))
  /\ LET now == tx[TxOf(c)]
         next == [now EXCEPT !.exec = status,
                             !.wins = IF status = "succeeded" THEN @ + 1 ELSE @]
     IN IF /\ up /\ transactionAtSequence(c) /\ requireCurrentRuntimeAuthority(TxOf(c))
           /\ now.state = "running" /\ now.exec = "running"
        THEN /\ tx' = [tx EXCEPT ![TxOf(c)] = next]
             /\ Appended(c, TxOf(c), IF status = "succeeded" THEN Sees(next, "stage")
                                     ELSE Exited(1))
             /\ IF status = "succeeded" THEN UNCHANGED troubles ELSE Trouble
        ELSE Exit(c, 1) /\ UNCHANGED <<tx, troubles>>
  /\ UNCHANGED <<request, rows, writer, pending, call, allowed, up, serving, slots, ground>>

\* Staging inspects the worktree.
StageTransaction(c, state) ==
  /\ At(c, "stage")
  /\ LET now == tx[TxOf(c)]
         next == [now EXCEPT !.state = state]
     IN Call(c, now.state = "running" /\ now.exec = "succeeded" /\ clean[TxOf(c)], next,
             IF state = "staged" THEN Sees(next, "validate") ELSE Exited(0))

\* The worktree must still match the frozen stage.  The command succeeds whatever
\* the sequence policy decides.
ValidateTransaction(c, state) ==
  /\ At(c, "validate")
  /\ state = "revise_required" => tx[TxOf(c)].attempt < MaxAttempts
  /\ LET now == tx[TxOf(c)]
         next == [now EXCEPT !.state = state]
     IN Call(c, now.state = "staged" /\ clean[TxOf(c)], next, Exited(0))

Kill(c) ==
  /\ client[c].pc \notin Ended /\ Trouble
  /\ Exit(c, 1)
  /\ serving' = [k \in Transactions |->
       IF serving[k].by = c THEN [serving[k] EXCEPT !.by = NoOne] ELSE serving[k]]
  /\ UNCHANGED <<request, rows, writer, pending, call, allowed, up, tx, slots, ground>>

-----------------------------------------------------------------------------
(* Others, and the daemon *)

\* A grant or a deadline expires, a grant is revoked or a budget is used up.  No
\* request brings them back.  It is noticed when an agent is to be launched: that
\* it happens earlier makes no difference.
AuthorityEnds(k) ==
  /\ tx[k].state = "running" /\ tx[k].exec # "succeeded" /\ live[k] /\ Trouble
  /\ live' = [live EXCEPT ![k] = FALSE]
  /\ UNCHANGED <<request, rows, writer, pending, call, allowed, up, runVars, clean>>

\* Somebody spoils the worktree, which is noticed while the transaction is running
\* or staged, and somebody puts it right.
Disturb(k) ==
  /\ tx[k].state \in {"running", "staged"} /\ clean[k] /\ Trouble
  /\ clean' = [clean EXCEPT ![k] = FALSE]
  /\ UNCHANGED <<request, rows, writer, pending, call, allowed, up, runVars, live>>
Repair(k) ==
  /\ ~clean[k]
  /\ clean' = [clean EXCEPT ![k] = TRUE]
  /\ UNCHANGED <<admissionVars, runVars, live>>

\* Verification and review move on from validating; anybody may abort.
OthersDecide(k, state) ==
  /\ up /\ serving[k] = Idle /\ requireCurrentRuntimeAuthority(k)
  /\ CASE state = "aborted" -> tx[k].state \in {"created", "running", "staged", "validating"}
       [] state = "validation_failed" -> tx[k].state = "validating" /\ tx[k].attempt < MaxAttempts
       [] OTHER -> tx[k].state = "validating"
  /\ tx' = [tx EXCEPT ![k].state = state]
  /\ Appended(NoOne, k, Nowhere)
  /\ UNCHANGED <<admissionVars, serving, slots, ground>>

\* Everybody who waits for an answer of the agent's handler gets none.
Orphaned ==
  client' = [c \in Clients |-> IF At(c, "agent") THEN Exited(1) ELSE client[c]]

Stop ==
  /\ Die /\ Orphaned
  /\ serving' = [k \in Transactions |-> Idle] /\ slots' = 0
  /\ UNCHANGED <<tx, ground>>

Crash == Trouble /\ Stop

\* An execution that no handler and no client supervises any more.
Stuck(k) ==
  /\ tx[k].state = "running" /\ tx[k].exec = "running" /\ serving[k] = Idle
  /\ ~\E c \in Clients : At(c, "child") /\ TxOf(c) = k

\* "wait for daemon recovery": an operator restarts a daemon that is stuck.
StopStuck == (\E k \in Transactions : Stuck(k)) /\ Stop /\ UNCHANGED troubles

Active == {k \in Transactions : tx[k].exec = "running"}

\* Aborted under an active execution: its receipt cannot be appended any more.
Unrecoverable == {k \in Active : tx[k].state # "running"}

\* Fault variant of Restart: executions of the daemon before are not recovered.
RestartOnly(policy) == Revive(policy) /\ UNCHANGED <<runVars, ground>>

\* recoverInterruptedExecutions: executions that were active are interrupted
\* before the daemon serves.  At one whose receipt is refused the start fails,
\* after some of the others.
Restart(policy) ==
  /\ ~up
  /\ IF Unrecoverable = {} THEN Revive(policy) ELSE UNCHANGED admissionVars
  /\ \E done \in SUBSET (Active \ Unrecoverable) :
     /\ Unrecoverable = {} => done = Active
     /\ tx' = [k \in Transactions |->
                 IF k \in done THEN [tx[k] EXCEPT !.exec = "unsuccessful"] ELSE tx[k]]
     /\ client' = [c \in Clients |->
          IF TxOf(c) \in done THEN [client[c] EXCEPT !.current = FALSE] ELSE client[c]]
  /\ UNCHANGED <<serving, slots, ground>>

-----------------------------------------------------------------------------
ClientStep(c) ==
  \/ Unreachable(c) \/ preflightRuntime(c) \/ Admit(c) \/ AdmissionAnswered(c)
  \/ GetTransaction(c) \/ StartTransaction(c) \/ CreateTransactionWorktree(c)
  \/ DecideExecution(c) \/ RunTransactionAgent(c) \/ StartAgentExecution(c)
  \/ \E s \in {"succeeded", "unsuccessful"} : FinishAgentExecution(c, s)
  \/ \E s \in {"staged", "completed_no_effect"} : StageTransaction(c, s)
  \/ \E s \in {"validating", "blocked", "revise_required"} : ValidateTransaction(c, s)

HandlerStep(k) ==
  \/ LaunchAgent(k)
  \/ \E s \in {"succeeded", "unsuccessful"} : SettleAgent(k, s)

Next ==
  \/ \E c \in Clients : BeginRun(c) \/ ClientStep(c) \/ CreationFails(c) \/ Kill(c)
  \/ \E k \in Transactions : HandlerStep(k) \/ PrepareFails(k) \/ CleanupFails(k)
  \/ \E k \in Transactions : AuthorityEnds(k) \/ Disturb(k) \/ Repair(k)
  \/ \E k \in Transactions, s \in {"aborted", "validation_failed", "pending_approval"} :
       OthersDecide(k, s)
  \/ Crash \/ StopStuck \/ \E policy \in BOOLEAN : Restart(policy)

Spec == Init /\ [][Next]_vars

\* Clients are run again until their task is concluded, the daemon serves its
\* requests, agents end and a stopped or stuck daemon is restarted.  Calls that
\* wait for the connection get it in the order of their arrival.
Fairness ==
  /\ \A c \in Clients : WF_vars(BeginRun(c) \/ ClientStep(c)) /\ SF_vars(Admit(c))
  /\ \A k \in Transactions : WF_vars(HandlerStep(k))
  /\ WF_vars(StopStuck) /\ WF_vars(\E policy \in BOOLEAN : Restart(policy))

FairSpec == Spec /\ Fairness

-----------------------------------------------------------------------------
(* Properties *)

\* Every variable stays in its type: a view is a transaction the client read.
TypeOK ==
  /\ writer \in Clients \cup {NoOne}
  /\ \A c \in Clients : /\ client[c].current \in BOOLEAN
                        /\ client[c].view \in {NoOne} \cup [state : {"created", "running",
                             "staged", "validation_failed", "revise_required"},
                             attempt : 1..MaxAttempts, bound : BOOLEAN,
                             exec : {"none", "running", "unsuccessful", "succeeded"},
                             wins : Nat]
  /\ \A k \in Transactions : serving[k].by \in Clients \cup {NoOne}

\* The agent is not run again once it has succeeded in an attempt, however
\* many clients run the task, stop and start over: nobody pays twice, and
\* what is staged is the work of one successful run.
OneSuccessPerAttempt == \A k \in Transactions : tx[k].wins <= 1

\* A client drives only a transaction that was admitted for its own request.
DrivesItsOwnTask ==
  \A c \in Clients : View(c) # NoOne =>
    Admitted(Key(c)) /\ request[StoredResult(Key(c))] = request[c]

\* Tokens in workloadSlots are exactly the handlers past acquireWorkloadSlot,
\* never more than the limit: no way out of a handler keeps a slot.
SlotsAccounted ==
  /\ slots = Cardinality({k \in Transactions : serving[k] # Idle})
  /\ slots <= MaxWorkloads

Concluded(k) == tx[k].state \in {"validating", "pending_approval", "blocked",
                                 "completed_no_effect", "aborted"}

\* A task that is admitted is concluded in the end, after any crash, lost answer,
\* failed agent and race between clients, if the command is given again whenever
\* it stops and nothing refuses it for ever: the policy keeps allowing its image,
\* grants and budgets last, the worktree is in order in the end and the daemon
\* can be started.  A task admitted before there were runtimes is never driven.
EventuallyConcluded ==
  \A k \in Transactions :
    <>[](allowed /\ live[k] /\ clean[k]) /\ []<>up =>
      []<>(requireCurrentRuntimeAuthority(k) => Concluded(k))

\* The ledger holds whole admissions, one per key, and what callers were told
\* agrees with it: who was admitted, who conflicts, who asked again, and
\* which task a command drives.
AdmissionInv ==
  /\ TypeOK
  /\ AdmissionWhole /\ OneTaskPerKey
  /\ ConflictIsReal /\ RetryIsAnswered /\ DrivesItsOwnTask

=============================================================================
