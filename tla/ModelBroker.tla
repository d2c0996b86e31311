---------------------------- MODULE ModelBroker ----------------------------
(***************************************************************************)
(* The model broker of one execution: a sidecar that lets the agent call a *)
(* model provider within a budget of requests and tokens, and records the  *)
(* start and the end of every call in a hash-chained ledger on disk.       *)
(* Calls run concurrently; a write or a sync of the ledger fails, the      *)
(* broker is killed, the daemon crashes.  In the end the daemon, in its    *)
(* handler or on recovery, removes the broker, closes what is pending and  *)
(* charges the run for what the ledger says.                               *)
(*                                                                         *)
(* Tokens are small numbers.  What a call costs is chosen by the provider, *)
(* which keeps to what was reserved: the bytes of the request and          *)
(* max_output_tokens; what it reports may be missing or out of range.  An  *)
(* event of the ledger keeps its sequence, call, phase and usage; the      *)
(* sequence stands for the digest of the event before it.                  *)
(***************************************************************************)
EXTENDS Integers, FiniteSets, SequencesExt

CONSTANTS
  Calls,                \* the calls the agent makes
  MaxRequests, MaxTotalInputTokens, MaxTotalOutputTokens, \* the policy
  MaxOutputTokensPerRequest,
  Sizes,                \* the bytes and max_output_tokens of the requests made
  MaxInt64,             \* largest value of an int64
  MaxTroubles           \* bound on what goes wrong

ASSUME BudgetAssumption ==
  /\ IsFiniteSet(Calls)
  /\ {MaxRequests, MaxTotalInputTokens, MaxTotalOutputTokens, MaxOutputTokensPerRequest,
      MaxInt64} \subseteq Nat \ {0}
  /\ Sizes \subseteq [in : Nat \ {0}, out : Nat \ {0}]
  /\ MaxOutputTokensPerRequest <= MaxTotalOutputTokens
  /\ MaxTotalInputTokens <= MaxInt64 /\ MaxTotalOutputTokens <= MaxInt64

VARIABLES
  receipts, \* the receipt ledger on disk
  recorder, \* the Recorder of the broker: its counters and pending calls
  budget,   \* the counters of the broker
  call,     \* call[c]: progress, reservation, reported usage
  cost,     \* cost[c]: the tokens the provider really used
  broker,   \* the container: "none", "up"
  network,  \* the internal network exists
  phase,    \* where the execution is
  summary,  \* the summary that is charged, or NoSummary
  troubles

modelVars == <<receipts, recorder, budget, call, cost, broker, network, phase, summary, troubles>>

NoUsage == [in |-> 0, out |-> 0]
NoSummary == [calls |-> -1, in |-> 0, out |-> 0, completed |-> 0, failed |-> 0, unknown |-> 0]
NoCall == [at |-> "idle", in |-> 0, out |-> 0, usage |-> NoUsage, phase |-> "unknown"]
NewRecorder == [sequence |-> 0, pending |-> {}]
NewBudget == [requests |-> 0, in |-> 0, out |-> 0, reservedIn |-> 0, reservedOut |-> 0]

InitModel ==
  /\ receipts = <<>> /\ recorder = NewRecorder /\ budget = NewBudget
  /\ call = [c \in Calls |-> NoCall]
  /\ cost = [c \in Calls |-> NoUsage]
  /\ broker = "none" /\ network = FALSE
  /\ phase = "prepared" /\ summary = NoSummary /\ troubles = 0

Trouble == troubles < MaxTroubles /\ troubles' = troubles + 1

-----------------------------------------------------------------------------
(* Arithmetic *)

saturatingAdd(left, right) ==
  IF left < 0 \/ right < 0 \/ left > MaxInt64 - right THEN MaxInt64 ELSE left + right

\* Fault variant of wouldExceedBudget: reservations of others do not count.
wouldExceedAlone(current, reserved, requested, limit) ==
  current > limit \/ requested > limit - current

wouldExceedBudget(current, reserved, requested, limit) ==
  \/ current > limit
  \/ reserved > limit - current
  \/ requested > limit - current - reserved

\* A usage that may be recorded; that of a completed call names its input.  The total is left out:
\* where adding the maxima overflows it, the receipt is refused, which is AppendFails.
validUsage(usage, completed) ==
  usage.in >= 0 /\ usage.out >= 0 /\ (completed => usage.in > 0)

\* Output that was not reported counts as the maximum.
OutputCharge(usage, max) == IF usage.out > 0 THEN usage.out ELSE max

-----------------------------------------------------------------------------
(* The receipt ledger *)

Event(n, c, kind, usage) ==
  [seq |-> n, call |-> c, kind |-> kind, usage |-> usage, max |-> call[c].out]
StartOf(l, c) == l[CHOOSE i \in DOMAIN l : l[i].call = c /\ l[i].kind = "started"]
Terminal == {"completed", "failed", "unknown"}

\* What load accepts: every line decodes and continues the chain.
Verifies(l) == \A i \in DOMAIN l : l[i].kind # "torn" /\ l[i].seq = i

StartedIn(l) == {l[i].call : i \in {j \in DOMAIN l : l[j].kind = "started"}}
EndedIn(l) == {l[i].call : i \in {j \in DOMAIN l : l[j].kind \in Terminal}}
Count(l, kinds) == Cardinality({i \in DOMAIN l : l[i].kind \in kinds})

\* Adding charges up one by one, with saturation, gives their sum or the
\* largest counter.
Saturated(sum) == IF sum > MaxInt64 THEN MaxInt64 ELSE sum
InputOf(l) ==
  Saturated(SumFunction([i \in DOMAIN l |-> IF l[i].kind \in Terminal THEN l[i].usage.in ELSE 0]))
OutputOf(l) ==
  Saturated(SumFunction([i \in DOMAIN l |-> IF l[i].kind \in Terminal
                                            THEN OutputCharge(l[i].usage, l[i].max) ELSE 0]))

\* appendLocked: the sequence is remembered only after write and sync; a
\* write may end short, and a line that was written may not be synced.
Appended(event) ==
  /\ receipts' = Append(receipts, event)
  /\ UNCHANGED troubles

AppendFails(event) ==
  /\ Trouble
  /\ receipts' \in {receipts, Append(receipts, event),
                    Append(receipts, [event EXCEPT !.kind = "torn"])}

\* OpenRecorder closes the calls that are pending, at no cost.
Close(l) ==
  LET open == SetToSeq(StartedIn(l) \ EndedIn(l))
  IN l \o [i \in 1..Len(open) |->
            [StartOf(l, open[i]) EXCEPT !.seq = Len(l) + i, !.kind = "unknown"]]

-----------------------------------------------------------------------------
(* The sidecar *)

\* StartModelBroker removes what an earlier one left, creates the network,
\* starts the container, which opens the ledger, and waits until it is ready.
StartModelBroker ==
  /\ phase = "prepared"
  /\ broker' = "up" /\ network' = TRUE /\ phase' = "running"
  /\ LET l == Close(receipts) IN
     /\ receipts' = l
     /\ recorder' = [sequence |-> Len(l), pending |-> {}]
     /\ budget' = [NewBudget EXCEPT !.requests = Count(l, {"started"}),
                     !.in = IF Count(l, {"unknown"}) > 0 THEN MaxTotalInputTokens ELSE InputOf(l),
                     !.out = OutputOf(l)]
  /\ UNCHANGED <<call, cost, summary, troubles>>

\* It does not start, or not in time.  What was started is removed, but the
\* outcome of that is ignored; the agent is not run.
StartFails ==
  /\ phase = "prepared" /\ Trouble
  /\ broker' \in {"none", "up"} /\ network' \in {broker' = "up", TRUE}
  /\ phase' = "finalize"
  /\ UNCHANGED <<receipts, recorder, budget, call, cost, summary>>

\* The broker and its memory are gone, what was written and spent is not.
Gone ==
  /\ broker' = "none" /\ recorder' = NewRecorder /\ budget' = NewBudget
  /\ call' = [c \in Calls |-> [NoCall EXCEPT !.at = "refused"]]

\* The broker is killed or fails.
BrokerDies ==
  /\ broker = "up" /\ phase \in {"running", "adrift"} /\ Trouble /\ Gone
  /\ UNCHANGED <<receipts, cost, network, phase, summary>>

Serving(c, where) == broker = "up" /\ call[c].at = where
Move(c, where) == call' = [call EXCEPT ![c].at = where]
\* The handler of the call returns.
Return(c, how) == call' = [call EXCEPT ![c] = [NoCall EXCEPT !.at = how]]

\* Fault variant of reserve: the number of requests is not compared.
reserveTokensOnly(in, out) ==
  /\ ~wouldExceedBudget(budget.in, budget.reservedIn, in, MaxTotalInputTokens)
  /\ ~wouldExceedBudget(budget.out, budget.reservedOut, out, MaxTotalOutputTokens)

reserve(in, out) ==
  /\ budget.requests < MaxRequests
  /\ ~wouldExceedBudget(budget.in, budget.reservedIn, in, MaxTotalInputTokens)
  /\ ~wouldExceedBudget(budget.out, budget.reservedOut, out, MaxTotalOutputTokens)

\* The agent's request is authorized, read and within the policy.
BeginCall(c, in, out) ==
  /\ Serving(c, "idle") /\ phase \in {"running", "adrift"}
  /\ out <= MaxOutputTokensPerRequest
  /\ IF reserve(in, out)
     THEN /\ budget' = [budget EXCEPT !.requests = @ + 1, !.reservedIn = @ + in,
                                      !.reservedOut = @ + out]
          /\ call' = [call EXCEPT ![c] = [NoCall EXCEPT !.at = "reserved", !.in = in, !.out = out]]
     ELSE Return(c, "refused") /\ UNCHANGED budget
  /\ UNCHANGED <<receipts, recorder, cost, broker, network, phase, summary, troubles>>

\* Fault variant of releaseReservation: the reservation of output stays.
releaseInputOnly(c, usage) ==
  [budget EXCEPT !.reservedIn = Max({@ - call[c].in, 0}),
                 !.in = saturatingAdd(@, usage.in),
                 !.out = saturatingAdd(@, OutputCharge(usage, call[c].out))]

releaseReservation(c, usage) ==
  [budget EXCEPT !.reservedIn = Max({@ - call[c].in, 0}),
                 !.reservedOut = Max({@ - call[c].out, 0}),
                 !.in = saturatingAdd(@, usage.in),
                 !.out = saturatingAdd(@, OutputCharge(usage, call[c].out))]

\* Fault variant of RecordStart: a call goes ahead although its start could
\* not be recorded.
RecordStartIfPossible(c) ==
  /\ Serving(c, "reserved")
  /\ LET event == Event(recorder.sequence + 1, c, "started", NoUsage) IN
     \/ /\ Appended(event) /\ Move(c, "started")
        /\ recorder' = [sequence |-> event.seq, pending |-> recorder.pending \cup {c}]
        /\ UNCHANGED budget
     \/ AppendFails(event) /\ Move(c, "started") /\ UNCHANGED <<recorder, budget>>
  /\ UNCHANGED <<cost, broker, network, phase, summary>>

\* Recorder.Start; without a durable receipt the call is not made.
RecordStart(c) ==
  /\ Serving(c, "reserved")
  /\ LET event == Event(recorder.sequence + 1, c, "started", NoUsage) IN
     \/ /\ Appended(event) /\ Move(c, "started")
        /\ recorder' = [sequence |-> event.seq, pending |-> recorder.pending \cup {c}]
        /\ UNCHANGED budget
     \/ /\ AppendFails(event) /\ Return(c, "refused")
        /\ budget' = releaseReservation(c, NoUsage) /\ UNCHANGED recorder
  /\ UNCHANGED <<cost, broker, network, phase, summary>>

\* The request reaches the provider, which spends tokens on it: all that was
\* reserved, or hardly any.
SendToProvider(c) ==
  /\ Serving(c, "started")
  /\ \E used \in {[in |-> call[c].in, out |-> call[c].out], [in |-> 1, out |-> 0]} :
       cost' = [cost EXCEPT ![c] = used]
  /\ Move(c, "sent")
  /\ UNCHANGED <<receipts, recorder, budget, broker, network, phase, summary, troubles>>

\* The answer: it did not arrive, is too large or reports nothing ("unknown"),
\* is an error or the response, with its usage as reported; or the request
\* could not even be built.
Answer(c, kind, usage) ==
  /\ \/ Serving(c, "sent")
     \/ Serving(c, "started") /\ kind = "failed" /\ usage = NoUsage
  /\ kind = "unknown" => usage = NoUsage
  /\ call' = [call EXCEPT ![c].at = "answered", ![c].phase = kind, ![c].usage = usage]
  /\ UNCHANGED <<receipts, recorder, budget, cost, broker, network, phase, summary, troubles>>

Estimate(c) == [in |-> MaxTotalInputTokens, out |-> call[c].out]

\* The deferred function believes no usage without input or out of range.
Unusable(c) ==
  \/ call[c].usage.in = 0
  \/ ~validUsage(call[c].usage, call[c].phase = "completed")
  \/ call[c].usage.in > MaxTotalInputTokens
  \/ call[c].usage.out > MaxTotalOutputTokens

\* Recorder.Finish; that it failed is logged and nothing else.
RecordFinish(c) ==
  /\ Serving(c, "answered")
  /\ LET usage == IF Unusable(c) THEN Estimate(c) ELSE call[c].usage
         kind == IF Unusable(c) /\ call[c].phase = "completed" THEN "unknown" ELSE call[c].phase
         event == Event(recorder.sequence + 1, c, kind, usage)
     IN /\ call' = [call EXCEPT ![c].at = "finished", ![c].usage = usage, ![c].phase = kind]
        /\ \/ /\ Appended(event)
              /\ recorder' = [sequence |-> event.seq, pending |-> recorder.pending \ {c}]
           \/ AppendFails(event) /\ UNCHANGED recorder
  /\ UNCHANGED <<budget, cost, broker, network, phase, summary>>

Release(c) ==
  /\ Serving(c, "finished")
  /\ budget' = releaseReservation(c, call[c].usage)
  /\ Return(c, "done")
  /\ UNCHANGED <<receipts, recorder, cost, broker, network, phase, summary, troubles>>

-----------------------------------------------------------------------------
(* The daemon: runAgentExecution and recovery *)

\* The agent has ended.
AgentEnds ==
  /\ phase = "running" /\ phase' = "remove"
  /\ UNCHANGED <<receipts, recorder, budget, call, cost, broker, network, summary, troubles>>

\* The daemon dies; the containers go on until a new daemon recovers.  The
\* agent does too, if it had not ended.
DaemonCrashes ==
  /\ phase \in {"prepared", "running", "remove", "finalize"} /\ Trouble
  /\ phase' = IF phase = "running" THEN "adrift" ELSE "crashed"
  /\ UNCHANGED <<receipts, recorder, budget, call, cost, broker, network, summary>>

\* Fault variant of RemoveModelBroker: that it failed is ignored.
RemoveOrIgnore ==
  /\ phase \in {"remove", "adrift", "crashed"}
  /\ \/ Gone /\ network' = FALSE /\ UNCHANGED troubles
     \/ Trouble /\ UNCHANGED <<broker, recorder, budget, call, network>>
  /\ phase' = "finalize"
  /\ UNCHANGED <<receipts, cost, summary>>

\* The container and its network are removed; if that fails the execution
\* stays active until a daemon recovers it.
RemoveModelBroker ==
  /\ phase \in {"remove", "adrift", "crashed"}
  /\ \/ Gone /\ network' = FALSE /\ phase' = "finalize" /\ UNCHANGED troubles
     \/ /\ Trouble /\ phase' = "crashed"
        /\ UNCHANGED <<broker, recorder, budget, call, network>>
  /\ UNCHANGED <<receipts, cost, summary>>

\* Fault variant of FinalizeLedger: pending calls are left out.
FinalizeRecorded ==
  /\ phase = "finalize" /\ Verifies(receipts)
  /\ summary' = [calls |-> Count(receipts, {"started"}), in |-> InputOf(receipts),
                 out |-> OutputOf(receipts), completed |-> Count(receipts, {"completed"}),
                 failed |-> Count(receipts, {"failed"}), unknown |-> Count(receipts, {"unknown"})]
  /\ phase' = "settled"
  /\ UNCHANGED <<receipts, recorder, budget, call, cost, broker, network, troubles>>

\* The ledger is loaded, pending calls are closed, and it is summed up.  One
\* that does not verify leaves the execution active.
FinalizeLedger ==
  /\ phase = "finalize"
  /\ IF Verifies(receipts)
     THEN LET l == Close(receipts) IN
          /\ receipts' = l
          /\ summary' = [calls |-> Count(l, {"started"}), in |-> InputOf(l), out |-> OutputOf(l),
                         completed |-> Count(l, {"completed"}), failed |-> Count(l, {"failed"}),
                         unknown |-> Count(l, {"unknown"})]
          /\ phase' = "settled"
     ELSE phase' = "unverifiable" /\ UNCHANGED <<receipts, summary>>
  /\ UNCHANGED <<recorder, budget, call, cost, broker, network, troubles>>

-----------------------------------------------------------------------------
\* What a provider reports of a call: what it cost, or nonsense.
Reports(c) == {NoUsage, cost[c], [in |-> MaxTotalInputTokens + 1, out |-> 1]}

CallStep(c) ==
  \/ \E size \in Sizes : BeginCall(c, size.in, size.out)
  \/ RecordStart(c) \/ SendToProvider(c)
  \/ \E kind \in Terminal, usage \in Reports(c) : Answer(c, kind, usage)
  \/ RecordFinish(c) \/ Release(c)

ModelNext ==
  \/ \E c \in Calls : CallStep(c)
  \/ StartModelBroker \/ StartFails \/ BrokerDies
  \/ AgentEnds \/ DaemonCrashes \/ RemoveModelBroker \/ FinalizeLedger

ModelSpec == InitModel /\ [][ModelNext]_modelVars

-----------------------------------------------------------------------------
(* Properties *)

SpentIn == SumFunction([c \in Calls |-> cost[c].in])
SpentOut == SumFunction([c \in Calls |-> cost[c].out])
Sent == {c \in Calls : cost[c] # NoUsage}

\* Every variable stays in its type; reservations stay within the limits.
ModelTypeOK ==
  /\ \A c \in Calls : /\ call[c].usage.in \in 0..(MaxTotalInputTokens + 1)
                      /\ call[c].phase \in Terminal
  /\ budget.reservedIn \in 0..MaxTotalInputTokens
  /\ budget.reservedOut \in 0..MaxTotalOutputTokens
  /\ {budget.in, budget.out} \subseteq 0..MaxInt64
  /\ recorder.pending \subseteq Calls

\* The agent never costs more than its budget of tokens and requests, however
\* its calls overlap, fail, go unreported or outlive the broker.
WithinBudget ==
  /\ SpentIn <= MaxTotalInputTokens
  /\ SpentOut <= MaxTotalOutputTokens
  /\ Cardinality(Sent) <= MaxRequests

\* What is reserved is what the calls under way have reserved: no failure
\* keeps a reservation, none gives back another's.
ReservationsAccounted ==
  broker = "up" /\ phase = "running" =>
    LET holding == {c \in Calls : call[c].at \in {"reserved", "started", "sent", "answered",
                                                  "finished"}}
    IN /\ budget.reservedIn = SumFunctionOnSet([c \in Calls |-> call[c].in], holding)
       /\ budget.reservedOut = SumFunctionOnSet([c \in Calls |-> call[c].out], holding)

\* No call reaches the provider without a receipt of its start on disk.
ReceiptBeforeCall == Sent \subseteq StartedIn(receipts)

\* The summary that is charged is complete: each recorded call has one
\* outcome, and neither calls nor output tokens are undercharged.
SummaryComplete ==
  summary # NoSummary =>
    /\ summary.calls = summary.completed + summary.failed + summary.unknown
    /\ summary.calls >= Cardinality(Sent)
    /\ summary.out >= SpentOut

\* Nobody writes to a ledger any more, and nobody spends tokens, once it has
\* been summed up.
SettledLedgerFrozen == [][summary # NoSummary => UNCHANGED <<receipts, cost, summary>>]_modelVars

\* The charge for the input is conservative too: not less than was spent.
ConservativeCharge == summary # NoSummary => summary.in >= SpentIn

\* The budget holds for what was really spent, and its reservations are those
\* of the calls under way.
BudgetInv == ModelTypeOK /\ WithinBudget /\ ReservationsAccounted

\* Every call that reached the provider has a receipt, and is in the summary.
ReceiptsComplete == ReceiptBeforeCall /\ SummaryComplete

=============================================================================
