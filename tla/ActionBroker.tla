---------------------------- MODULE ActionBroker ----------------------------
(***************************************************************************)
(* The actions of one run: broker/broker.go, with the capabilities         *)
(* (capability/compiler.go) it authorizes them by and the filesystem       *)
(* driver (driver/filesystem.go) that performs them.                       *)
(*                                                                         *)
(* Execute appends an event before and after everything it does; each      *)
(* append names the head it expects.  It holds the run's lock, so a run    *)
(* has one action in flight, but the paired events of a supervised         *)
(* execution are appended without that lock.  The caller may go away, and  *)
(* the daemon may die, between any two steps.                              *)
(***************************************************************************)
EXTENDS Naturals, FiniteSets, FiniteSetsExt

CONSTANTS
  Actions,        \* action IDs clients use
  KeyOf,          \* KeyOf[a]: the idempotency key a is requested with
  Grants,         \* capability IDs of the run's contract, in their order
  Covers,         \* Covers[g]: the actions whose resource and operation g allows
  NeedsApproval,  \* grants whose conditions ask for human approval
  MaxToolCalls,   \* the contract's limit, on the uses of each grant
  GrantTTL,       \* lifetime of the grants
  NoAction,       \* no action is in flight
  MaxHead, MaxCrashes, MaxTime   \* bounds of the model

ASSUME ActionBrokerAssumption ==
  /\ IsFiniteSet(Actions) /\ NoAction \notin Actions
  /\ Grants \subseteq Nat \ {0} /\ NeedsApproval \subseteq Grants
  /\ Covers \in [Grants -> SUBSET Actions]
  /\ DOMAIN KeyOf = Actions
  /\ MaxToolCalls \in Nat /\ GrantTTL \in Nat \ {0}
  /\ MaxHead \in Nat /\ MaxCrashes \in Nat /\ MaxTime \in Nat

VARIABLES
  runState,  \* "waiting" stands for every state that is neither of the others
  active,    \* the run has an active execution
  head,      \* sequence number of the run's last event
  expires,   \* when the installed grants expire; 0 if none are installed
  status,    \* status[a]: the last event about a
  grant,     \* grant[a]: the capability a was authorized by, or 0
  request,   \* the call of Execute in flight
  applied,   \* applied[a]: how often a took effect
  daemon, crashes, now

ledger == <<runState, active, head, expires, status, grant>>
vars == <<ledger, request, applied, daemon, crashes, now>>

Pending == {"requested", "authorized", "executing"}
Closed == {"denied", "approval_required", "committed", "failed", "unknown"}
Results == {"committed", "failed", "unknown"}
Phases == {"idle", "request", "decide", "start", "effect", "receipt"}

Idle == [phase |-> "idle", action |-> NoAction, hint |-> 0, head |-> 0, result |-> "none"]

Init ==
  /\ runState = "waiting" /\ active = FALSE /\ head = 1 /\ expires = 0
  /\ status = [a \in Actions |-> "none"] /\ grant = [a \in Actions |-> 0]
  /\ request = Idle /\ applied = [a \in Actions |-> 0]
  /\ daemon = "up" /\ crashes = 0 /\ now = 0

-----------------------------------------------------------------------------
(* Execute *)

\* Fault variant of ensureUniqueAttempt: only the action ID is compared.
ensureUniqueID(a) == status[a] = "none"

ensureUniqueAttempt(a) ==
  \A b \in Actions : status[b] # "none" => b # a /\ KeyOf[b] # KeyOf[a]

\* Fault variant of UsesOf: an action uses its grant once it is committed.
UsesCommitted(g) == Cardinality({a \in Actions : grant[a] = g /\ status[a] = "committed"})

\* GrantsFromEvents counts the authorizations, whatever became of them.
UsesOf(g) == Cardinality({a \in Actions : grant[a] = g})

\* The first installed grant that covers the action decides, also if a later one
\* would allow what it refuses.
authorize(a, hint) ==
  LET candidates == {g \in Grants : expires # 0 /\ hint \in {0, g} /\ a \in Covers[g]}
      g == Min(candidates)
  IN IF \/ candidates = {}
        \/ expires =< now
        \/ UsesOf(g) >= MaxToolCalls
     THEN [status |-> "denied", grant |-> 0]
     ELSE IF g \in NeedsApproval THEN [status |-> "approval_required", grant |-> 0]
     ELSE [status |-> "authorized", grant |-> g]

\* An event about a, against the head the call knows.
append(a, s) ==
  /\ head = request.head
  /\ head' = head + 1
  /\ status' = [status EXCEPT ![a] = s]
  /\ UNCHANGED <<runState, active, expires>>

Proceed(phase) == request' = [request EXCEPT !.phase = phase, !.head = head']

\* Execute reads the run and its events.
executeAction(a, hint) ==
  /\ daemon = "up" /\ request = Idle /\ runState = "running" /\ head < MaxHead
  /\ ensureUniqueAttempt(a)
  /\ request' = [phase |-> "request", action |-> a, hint |-> hint,
                 head |-> head, result |-> "none"]
  /\ UNCHANGED <<ledger, applied, daemon, crashes, now>>

RequestAction ==
  /\ request.phase = "request"
  /\ append(request.action, "requested")
  /\ Proceed("decide")
  /\ UNCHANGED <<grant, applied, daemon, crashes, now>>

DecideAction ==
  /\ request.phase = "decide"
  /\ LET decision == authorize(request.action, request.hint)
     IN /\ append(request.action, decision.status)
        /\ grant' = [grant EXCEPT ![request.action] = decision.grant]
        /\ IF decision.status = "authorized" THEN Proceed("start") ELSE request' = Idle
  /\ UNCHANGED <<applied, daemon, crashes, now>>

StartAction ==
  /\ request.phase = "start"
  /\ append(request.action, "executing")
  /\ Proceed("effect")
  /\ UNCHANGED <<grant, applied, daemon, crashes, now>>

\* The driver performs the action, refuses or fails to, or replaces the file and
\* cannot make that durable.
RunDriver(result) ==
  /\ request.phase = "effect"
  /\ applied' = [applied EXCEPT ![request.action] =
                   IF result = "failed" THEN @ ELSE @ + 1]
  /\ request' = [request EXCEPT !.phase = "receipt", !.result = result]
  /\ UNCHANGED <<ledger, daemon, crashes, now>>

RecordResult ==
  /\ request.phase = "receipt"
  /\ append(request.action, request.result)
  /\ request' = Idle
  /\ UNCHANGED <<grant, applied, daemon, crashes, now>>

\* An append fails because the head moved, the store failed or the caller went
\* away; Execute returns and leaves the action as it is in the ledger.
Abandon ==
  /\ request.phase \in {"request", "decide", "start", "receipt"}
  /\ request' = Idle
  /\ UNCHANGED <<ledger, applied, daemon, crashes, now>>

-----------------------------------------------------------------------------
(* Other events of the run *)

\* Installs every grant of the contract; their IDs are stable, so a second
\* installation is refused.
compileCapabilities ==
  /\ daemon = "up" /\ request = Idle /\ head < MaxHead
  /\ runState # "terminal" /\ expires = 0
  /\ expires' = now + GrantTTL /\ head' = head + 1
  /\ UNCHANGED <<runState, active, status, grant, request, applied, daemon, crashes, now>>

appendEvent(to) ==
  /\ daemon = "up" /\ request = Idle /\ head < MaxHead
  /\ runState \notin {to, "terminal"} /\ ~active
  /\ runState' = to /\ head' = head + 1
  /\ UNCHANGED <<active, expires, status, grant, request, applied, daemon, crashes, now>>

\* A supervised execution starts or ends, without the run's lock.
AppendPairedExecutionEvent ==
  /\ daemon = "up" /\ head < MaxHead
  /\ runState = IF active THEN "running" ELSE "waiting"
  /\ runState' = IF active THEN "waiting" ELSE "running"
  /\ active' = ~active /\ head' = head + 1
  /\ UNCHANGED <<expires, status, grant, request, applied, daemon, crashes, now>>

Tick ==
  /\ now < MaxTime /\ now' = now + 1
  /\ UNCHANGED <<ledger, request, applied, daemon, crashes>>

-----------------------------------------------------------------------------
(* Crash and recovery *)

Crash ==
  /\ daemon # "down" /\ crashes < MaxCrashes
  /\ daemon' = "down" /\ crashes' = crashes + 1 /\ request' = Idle
  /\ UNCHANGED <<ledger, applied, now>>

\* The daemon starts, and recoverAgentExecutions settles the active execution.
Restart ==
  /\ daemon = "down" /\ daemon' = "recovering"
  /\ IF active THEN runState' = "waiting" /\ active' = FALSE /\ head' = head + 1
               ELSE UNCHANGED <<runState, active, head>>
  /\ UNCHANGED <<expires, status, grant, request, applied, crashes, now>>

\* Fault variant of interruptedActions: only those that were executing.
interruptedExecuting == {a \in Actions : status[a] = "executing"}

interruptedActions == {a \in Actions : status[a] \in Pending}

\* Fault variant of Recover: what has no receipt did not happen.
RecoverAsFailed(a) ==
  /\ daemon = "recovering" /\ runState # "terminal" /\ a \in interruptedActions
  /\ status' = [status EXCEPT ![a] = IF grant[a] = 0 THEN "denied" ELSE "failed"]
  /\ head' = head + 1
  /\ UNCHANGED <<runState, active, expires, grant, request, applied, daemon, crashes, now>>

\* Broker.Recover closes one action of a run that is not terminal.
Recover(a) ==
  /\ daemon = "recovering" /\ runState # "terminal" /\ a \in interruptedActions
  /\ status' = [status EXCEPT ![a] = IF grant[a] = 0 THEN "denied" ELSE "unknown"]
  /\ head' = head + 1
  /\ UNCHANGED <<runState, active, expires, grant, request, applied, daemon, crashes, now>>

Recovered == daemon = "recovering" /\ (runState = "terminal" \/ interruptedActions = {})

\* Recovery is over and the daemon serves requests.
Listen ==
  /\ Recovered /\ daemon' = "up"
  /\ UNCHANGED <<ledger, request, applied, crashes, now>>

Recovery == Restart \/ (\E a \in Actions : Recover(a)) \/ Listen

Next ==
  \/ \E a \in Actions, hint \in Grants \cup {0} : executeAction(a, hint)
  \/ RequestAction \/ DecideAction \/ StartAction
  \/ \E result \in Results : RunDriver(result)
  \/ RecordResult \/ Abandon
  \/ compileCapabilities
  \/ \E to \in {"waiting", "running", "terminal"} : appendEvent(to)
  \/ AppendPairedExecutionEvent \/ Tick
  \/ Crash \/ Recovery

Spec == Init /\ [][Next]_vars

\* A service manager starts the daemon again, and recovery runs on.
FairSpec == Spec /\ WF_vars(Recovery)

-----------------------------------------------------------------------------
(* Properties *)

\* Every variable stays in its type, and an action is authorized by a grant.
TypeOK ==
  /\ runState \in {"waiting", "running", "terminal"} /\ active \in BOOLEAN
  /\ head \in Nat /\ expires \in Nat
  /\ status \in [Actions -> Pending \cup Closed \cup {"none"}]
  /\ grant \in [Actions -> Grants \cup {0}]
  /\ request \in [phase : Phases, action : Actions \cup {NoAction},
                  hint : Grants \cup {0}, head : Nat, result : Results \cup {"none"}]
  /\ applied \in [Actions -> Nat]
  /\ daemon \in {"up", "down", "recovering"} /\ crashes \in Nat /\ now \in Nat
  /\ \A a \in Actions :
       status[a] \in {"authorized", "executing"} \cup Results => grant[a] # 0

\* However often a client repeats a request whose answer it lost, and wherever
\* the daemon stops, what is requested under one idempotency key takes effect at
\* most once.
AtMostOnce ==
  /\ \A a \in Actions : applied[a] =< 1
  /\ \A a, b \in Actions : applied[a] > 0 /\ applied[b] > 0 /\ KeyOf[a] = KeyOf[b] => a = b

\* The ledger never says of an action that took effect that it did not: committed
\* ones did, and those that are denied, failed or not yet executing did not.
HonestLedger ==
  \A a \in Actions :
    /\ status[a] = "committed" => applied[a] > 0
    /\ status[a] \notin {"executing", "committed", "unknown"} => applied[a] = 0

\* Actions that were interrupted count as uses: no grant is ever used for more
\* effects than the contract's limit.
UsesWithinLimit ==
  \A g \in Grants : Cardinality({a \in Actions : grant[a] = g /\ applied[a] > 0}) =< MaxToolCalls

\* An action that was interrupted by the daemon's end is closed after a restart.
InterruptedIsClosed ==
  \A a \in Actions :
    (daemon # "up" /\ runState # "terminal" /\ status[a] \in Pending) ~> (status[a] \in Closed)

-----------------------------------------------------------------------------
(* What the documentation says and the code does not do *)

\* docs/KERNEL.md: "Startup conversion of interrupted authorized/executing
\* actions to `unknown`".  When recovery is over, none is left.
InterruptedBecomeUnknown ==
  Recovered => \A a \in Actions : status[a] \notin {"authorized", "executing"}

=============================================================================
