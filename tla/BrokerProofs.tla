---------------------------- MODULE BrokerProofs ----------------------------
(***************************************************************************)
(* Theorems about the two brokers of an execution.  ActionBroker: for any  *)
(* finite set of actions, any grants, limits and lifetimes, and any number *)
(* of crashes.  ModelBroker: for any finite set of calls, any policy and   *)
(* request sizes, and any number of failures.                              *)
(***************************************************************************)
EXTENDS ActionBroker, ModelBroker, FiniteSums

-----------------------------------------------------------------------------
(* ActionBroker *)

\* A non-empty set of natural numbers contains its minimum.
LEMMA MinInSet ==
  ASSUME NEW S \in SUBSET Nat, S # {}
  PROVE  Min(S) \in S
<1>1. PICK x \in S : \A y \in S : ~(<<y, x>> \in OpToRel(<, Nat))
  BY NatLessThanWellFounded, WFMin
<1>2. ASSUME NEW y \in S
      PROVE  x =< y
  <2>1. ~(<<y, x>> \in {ss \in Nat \X Nat : ss[1] < ss[2]})
    BY <1>1 DEF OpToRel
  <2> QED
    BY <2>1
<1>3. \E m \in S : \A y \in S : m =< y
  BY <1>2
<1> QED
  BY <1>3 DEF Min

\* What authorize decides, and that it names an installed grant with a use left
\* exactly if it authorizes.
LEMMA Decision ==
  ASSUME NEW a \in Actions, NEW hint \in Grants \cup {0}
  PROVE  LET d == authorize(a, hint)
         IN \/ d.status \in {"denied", "approval_required"} /\ d.grant = 0
            \/ /\ d.status = "authorized" /\ d.grant \in Grants
               /\ ~(UsesOf(d.grant) >= MaxToolCalls)
<1> DEFINE C == {g \in Grants : expires # 0 /\ hint \in {0, g} /\ a \in Covers[g]}
<1>1. CASE C = {}
  BY <1>1 DEF authorize
<1>2. CASE C # {}
  <2>1. C \in SUBSET Nat
    BY ActionBrokerAssumption
  <2>2. Min(C) \in Grants
    <3> HIDE DEF C
    <3>1. Min(C) \in C
      BY <2>1, <1>2, MinInSet
    <3> QED
      BY <3>1 DEF C
  <2> QED
    BY <1>2, <2>2 DEF authorize
<1> QED
  BY <1>1, <1>2

-----------------------------------------------------------------------------
(* Type correctness *)

\* What a call in flight has written so far: nobody else writes about its action,
\* and it has no call in flight when the daemon is not up.
FlightInv ==
  /\ daemon # "up" => request = Idle
  /\ request.phase # "idle" => request.action \in Actions
  /\ request.phase = "request" => ensureUniqueAttempt(request.action)
  /\ request.phase = "decide" => status[request.action] = "requested"
  /\ request.phase = "start" => status[request.action] = "authorized"
  /\ request.phase \in {"effect", "receipt"} => status[request.action] = "executing"
  /\ request.phase = "receipt" => request.result \in Results

\* Nothing is authorized by a capability before it is decided.
UndecidedInv ==
  \A a \in Actions :
    status[a] \in {"none", "requested", "denied", "approval_required"} => grant[a] = 0

\* The type of a call in flight.
Requests ==
  [phase : Phases, action : Actions \cup {NoAction}, hint : Grants \cup {0},
   head : Nat, result : Results \cup {"none"}]

TypeInv == TypeOK /\ FlightInv /\ UndecidedInv

\* A call that proceeds keeps its action and its result.
LEMMA ProceedType ==
  ASSUME request \in Requests, head' \in Nat, NEW next \in Phases, Proceed(next)
  PROVE  /\ request' \in Requests /\ request'.phase = next
         /\ request'.action = request.action /\ request'.result = request.result
BY DEF Proceed, Requests

\* The state in which a run has just been created is well typed.
LEMMA TypeInit == Init => TypeInv
<1> SUFFICES ASSUME Init PROVE TypeInv
  OBVIOUS
<1>1. active \in BOOLEAN
  BY DEF Init
<1>2. request \in Requests /\ request.phase = "idle"
  BY DEF Init, Requests, Idle, Phases
<1>3. status \in [Actions -> Pending \cup Closed \cup {"none"}] /\ grant \in [Actions -> Grants \cup {0}]
  BY DEF Init
<1>4. applied \in [Actions -> Nat] /\ head \in Nat /\ expires \in Nat /\ crashes \in Nat /\ now \in Nat
  BY DEF Init
<1>5. \A a \in Actions : status[a] = "none" /\ grant[a] = 0
  BY DEF Init
<1>6. TypeOK
  BY <1>1, <1>2, <1>3, <1>4, <1>5 DEF TypeOK, Requests, Init, Results
<1>7. FlightInv /\ UndecidedInv
  BY <1>2, <1>5 DEF FlightInv, UndecidedInv, Init
<1> QED
  BY <1>6, <1>7 DEF TypeInv

\* Every step keeps the type and what is known of the call in flight.
LEMMA TypeNext == TypeInv /\ [Next]_vars => TypeInv'
<1> SUFFICES ASSUME TypeInv, [Next]_vars PROVE TypeInv'
  OBVIOUS
<1> USE DEF TypeInv, TypeOK, FlightInv, UndecidedInv
<1>1. ASSUME NEW a \in Actions, NEW hint \in Grants \cup {0}, executeAction(a, hint)
      PROVE  TypeInv'
  BY <1>1 DEF executeAction, ensureUniqueAttempt, ledger, Idle, Phases
<1>2. CASE RequestAction
  <2>1. request' \in Requests /\ request'.phase = "decide" /\ request'.action = request.action
    <3>1. request \in Requests /\ head' \in Nat /\ "decide" \in Phases /\ Proceed("decide")
      BY <1>2 DEF RequestAction, append, Requests, Phases
    <3> QED
      BY <3>1, ProceedType
  <2>2. status[request.action] = "none" \/ request.action \notin Actions
    BY <1>2 DEF RequestAction, ensureUniqueAttempt
  <2> QED
    BY <1>2, <2>1, <2>2 DEF RequestAction, append, Requests, Pending, Closed, Results, Idle
<1>3. CASE DecideAction
  <2> DEFINE d == authorize(request.action, request.hint)
  <2>1. \/ d.status \in {"denied", "approval_required"} /\ d.grant = 0
        \/ d.status = "authorized" /\ d.grant \in Grants
    BY <1>3, Decision DEF DecideAction
  <2>2. /\ request.phase = "decide" /\ append(request.action, d.status)
        /\ grant' = [grant EXCEPT ![request.action] = d.grant]
        /\ IF d.status = "authorized" THEN Proceed("start") ELSE request' = Idle
        /\ UNCHANGED <<applied, daemon, crashes, now>>
    BY <1>3 DEF DecideAction
  <2> HIDE DEF d
  <2>3. 0 \notin Grants
    BY ActionBrokerAssumption
  <2>4. CASE d.status = "authorized"
    <3>1. request' \in Requests /\ request'.phase = "start" /\ request'.action = request.action
      <4>1. request \in Requests /\ head' \in Nat /\ "start" \in Phases /\ Proceed("start")
        BY <2>2, <2>4 DEF append, Requests, Phases
      <4> QED
        BY <4>1, ProceedType
    <3> QED
      BY <2>1, <2>2, <2>3, <2>4, <3>1 DEF append, Requests, Pending, Closed, Results, Idle
  <2>5. CASE d.status # "authorized"
    BY <2>1, <2>2, <2>3, <2>5
    DEF append, Idle, Phases, Pending, Closed, Results
  <2> QED
    BY <2>4, <2>5
<1>4. CASE StartAction
  <2>1. request' \in Requests /\ request'.phase = "effect" /\ request'.action = request.action
    <3>1. request \in Requests /\ head' \in Nat /\ "effect" \in Phases /\ Proceed("effect")
      BY <1>4 DEF StartAction, append, Requests, Phases
    <3> QED
      BY <3>1, ProceedType
  <2> QED
    BY <1>4, <2>1 DEF StartAction, append, Requests, Pending, Closed, Results, Idle
<1>5. ASSUME NEW result \in Results, RunDriver(result)
      PROVE  TypeInv'
  <2>1. /\ request' \in Requests /\ request'.phase = "receipt"
        /\ request'.action = request.action /\ request'.result = result
    BY <1>5 DEF RunDriver, Requests, Phases
  <2>2. applied' \in [Actions -> Nat]
    BY <1>5 DEF RunDriver
  <2> QED
    BY <1>5, <2>1, <2>2 DEF RunDriver, ledger, Requests, Idle
<1>6. CASE RecordResult
  BY <1>6 DEF RecordResult, append, Idle, Phases, Pending, Closed, Results
<1>7. CASE Abandon
  BY <1>7 DEF Abandon, ledger, Idle, Phases
<1>8. CASE compileCapabilities
  BY <1>8, ActionBrokerAssumption DEF compileCapabilities, Idle, ensureUniqueAttempt
<1>9. ASSUME NEW to \in {"waiting", "running", "terminal"}, appendEvent(to)
      PROVE  TypeInv'
  BY <1>9 DEF appendEvent, Idle, ensureUniqueAttempt
<1>10. CASE AppendPairedExecutionEvent
  BY <1>10 DEF AppendPairedExecutionEvent, ensureUniqueAttempt
<1>11. CASE Tick
  BY <1>11 DEF Tick, ledger, ensureUniqueAttempt
<1>12. CASE Crash
  BY <1>12 DEF Crash, ledger, Idle, Phases
<1>13. CASE Restart
  <2>1. active' \in BOOLEAN /\ runState' \in {"waiting", "running", "terminal"} /\ head' \in Nat
    <3>1. CASE active
      <4>1. runState' = "waiting" /\ active' = FALSE /\ head' = head + 1
        BY <1>13, <3>1 DEF Restart
      <4>2. active' \in BOOLEAN
        BY <4>1
      <4>3. head' \in Nat
        BY <4>1
      <4> QED
        BY <4>1, <4>2, <4>3
    <3>2. CASE ~active
      BY <1>13, <3>2 DEF Restart
    <3> QED
      BY <3>1, <3>2
  <2> QED
    BY <1>13, <2>1 DEF Restart, Idle, ensureUniqueAttempt
<1>14. ASSUME NEW a \in Actions, Recover(a)
       PROVE  TypeInv'
  BY <1>14 DEF Recover, interruptedActions, Idle, Pending, Closed, Results
<1>15. CASE Listen
  BY <1>15 DEF Listen, Recovered, ledger, Idle, ensureUniqueAttempt
<1>16. CASE UNCHANGED vars
  BY <1>16 DEF vars, ledger, ensureUniqueAttempt
<1> QED
  BY <1>1, <1>2, <1>3, <1>4, <1>5, <1>6, <1>7, <1>8, <1>9, <1>10, <1>11, <1>12, <1>13,
     <1>14, <1>15, <1>16
  DEF Next, Recovery

\* Every variable of a run's actions stays in its type, and whatever is executed
\* was authorized by a capability (Execute and Recover, with crashes between their
\* appends).
THEOREM ActionTypeCorrect == Spec => []TypeOK
<1>1. Spec => []TypeInv
  BY TypeInit, TypeNext, PTL DEF Spec
<1> QED
  BY <1>1, PTL DEF TypeInv

-----------------------------------------------------------------------------
(* At most once *)

\* One idempotency key is used by one requested action.
OneAttempt ==
  \A a, b \in Actions :
    status[a] # "none" /\ status[b] # "none" /\ KeyOf[a] = KeyOf[b] => a = b

\* The call in flight has not run its driver yet, or knows what it did.
EffectKnown ==
  /\ request.phase = "effect" => applied[request.action] = 0
  /\ request.phase = "receipt" =>
       applied[request.action] = IF request.result = "failed" THEN 0 ELSE 1

OnceInv ==
  /\ OneAttempt /\ EffectKnown /\ HonestLedger
  /\ \A a \in Actions : applied[a] =< 1

\* Nothing was requested and nothing took effect when the run is created.
LEMMA OnceInit == Init => OnceInv
BY DEF Init, OnceInv, OneAttempt, EffectKnown, HonestLedger, Idle

\* Every step keeps OnceInv.
LEMMA OnceNext == TypeInv /\ OnceInv /\ [Next]_vars => OnceInv'
<1> SUFFICES ASSUME TypeInv, OnceInv, [Next]_vars PROVE OnceInv'
  OBVIOUS
<1> DEFINE c == request.action
<1>t. /\ status \in [Actions -> Pending \cup Closed \cup {"none"}]
      /\ applied \in [Actions -> Nat] /\ request \in Requests
      /\ request.phase # "idle" => request.action \in Actions
  BY DEF TypeInv, TypeOK, FlightInv, Requests
<1> USE DEF OnceInv, OneAttempt, EffectKnown, HonestLedger
<1>1. ASSUME NEW a \in Actions, NEW hint \in Grants \cup {0}, executeAction(a, hint)
      PROVE  OnceInv'
  BY <1>1 DEF executeAction, ledger
<1>2. CASE RequestAction
  <2>1. /\ status' = [status EXCEPT ![c] = "requested"]
        /\ request'.phase = "decide" /\ applied' = applied /\ c \in Actions
    BY <1>2, <1>t DEF RequestAction, append, Proceed, Requests
  <2>2. \A b \in Actions : status[b] # "none" => b # c /\ KeyOf[b] # KeyOf[c]
    BY <1>2 DEF RequestAction, TypeInv, FlightInv, ensureUniqueAttempt
  <2> HIDE DEF c
  <2> QED
    BY <2>1, <2>2, <1>t
<1>3. CASE DecideAction
  <2> DEFINE d == authorize(request.action, request.hint)
  <2>1. d.status \in {"denied", "approval_required", "authorized"}
    BY <1>3, Decision, <1>t DEF DecideAction, Requests
  <2>2. /\ status' = [status EXCEPT ![c] = d.status]
        /\ request'.phase \in {"start", "idle"} /\ applied' = applied
        /\ c \in Actions /\ status[c] = "requested"
    <3>1. request.phase = "decide" /\ c \in Actions /\ status[c] = "requested"
      BY <1>3, <1>t DEF DecideAction, TypeInv, FlightInv
    <3>2. request'.phase \in {"start", "idle"}
      <4>1. Proceed("start") \/ request' = Idle
        BY <1>3 DEF DecideAction
      <4>2. CASE Proceed("start")
        BY <4>2, <1>t DEF Proceed, Requests
      <4>3. CASE request' = Idle
        BY <4>3 DEF Idle
      <4> QED
        BY <4>1, <4>2, <4>3
    <3> QED
      BY <1>3, <3>1, <3>2 DEF DecideAction, append
  <2> HIDE DEF c, d
  <2> QED
    BY <2>1, <2>2, <1>t
<1>4. CASE StartAction
  <2>1. /\ status' = [status EXCEPT ![c] = "executing"]
        /\ request'.phase = "effect" /\ request'.action = c /\ applied' = applied
        /\ c \in Actions /\ status[c] = "authorized"
    BY <1>4, <1>t DEF StartAction, append, Proceed, Requests, TypeInv, FlightInv
  <2> HIDE DEF c
  <2> QED
    BY <2>1, <1>t
<1>5. ASSUME NEW result \in Results, RunDriver(result)
      PROVE  OnceInv'
  <2>1. /\ applied[c] = 0
        /\ applied' = [applied EXCEPT ![c] = IF result = "failed" THEN 0 ELSE 1]
        /\ request'.phase = "receipt" /\ request'.action = c /\ request'.result = result
        /\ status' = status /\ c \in Actions /\ status[c] = "executing"
    <3>1. request.phase = "effect" /\ c \in Actions /\ status[c] = "executing" /\ applied[c] = 0
      BY <1>5, <1>t DEF RunDriver, TypeInv, FlightInv
    <3>2. request'.phase = "receipt" /\ request'.action = c /\ request'.result = result
      BY <1>5, <1>t DEF RunDriver, Requests
    <3>3. applied' = [applied EXCEPT ![c] = IF result = "failed" THEN 0 ELSE 1]
      BY <1>5, <1>t, <3>1 DEF RunDriver
    <3> QED
      BY <1>5, <3>1, <3>2, <3>3 DEF RunDriver, ledger
  <2> HIDE DEF c
  <2> QED
    BY <2>1, <1>t
<1>6. CASE RecordResult
  <2>1. /\ status' = [status EXCEPT ![c] = request.result]
        /\ request'.phase = "idle" /\ applied' = applied
        /\ c \in Actions /\ status[c] = "executing" /\ request.result \in Results
        /\ applied[c] = IF request.result = "failed" THEN 0 ELSE 1
    BY <1>6, <1>t DEF RecordResult, append, Idle, Requests, TypeInv, FlightInv
  <2> HIDE DEF c
  <2> QED
    BY <2>1, <1>t DEF Results
<1>7. CASE Abandon \/ Crash
  BY <1>7 DEF Abandon, Crash, ledger, Idle
<1>8. CASE compileCapabilities \/ AppendPairedExecutionEvent \/ Tick \/ Restart \/ Listen
  BY <1>8
  DEF compileCapabilities, AppendPairedExecutionEvent, Tick, Restart, Listen, ledger
<1>9. ASSUME NEW to \in {"waiting", "running", "terminal"}, appendEvent(to)
      PROVE  OnceInv'
  BY <1>9 DEF appendEvent
<1>10. ASSUME NEW a \in Actions, Recover(a)
       PROVE  OnceInv'
  <2>1. /\ status' = [status EXCEPT ![a] = IF grant[a] = 0 THEN "denied" ELSE "unknown"]
        /\ applied' = applied /\ request' = request /\ request = Idle
        /\ status[a] \in Pending
    BY <1>10 DEF Recover, interruptedActions, TypeInv, FlightInv
  <2>2. grant[a] = 0 => status[a] = "requested"
    BY <2>1 DEF TypeInv, TypeOK, Pending
  <2> QED
    BY <2>1, <2>2, <1>t DEF Idle, Pending
<1>11. CASE UNCHANGED vars
  BY <1>11 DEF vars, ledger
<1> QED
  BY <1>1, <1>2, <1>3, <1>4, <1>5, <1>6, <1>7, <1>8, <1>9, <1>10, <1>11 DEF Next, Recovery

\* What is requested under one idempotency key takes effect at most once, and the
\* ledger never denies an effect: whatever calls of Execute fail between two
\* appends, and whatever Recover finds.
THEOREM AtMostOnceCorrect == Spec => [](AtMostOnce /\ HonestLedger)
<1>1. TypeInv /\ OnceInv => AtMostOnce /\ HonestLedger
  BY DEF TypeInv, TypeOK, OnceInv, OneAttempt, HonestLedger, AtMostOnce
<1>2. Spec => [](TypeInv /\ OnceInv)
  BY TypeInit, TypeNext, OnceInit, OnceNext, PTL DEF Spec
<1> QED
  BY <1>1, <1>2, PTL

-----------------------------------------------------------------------------
(* The limit of a capability *)

UsesInv == \A g \in Grants : UsesOf(g) =< MaxToolCalls

\* The actions authorized by a grant are finitely many.
LEMMA UsesFinite ==
  ASSUME NEW g
  PROVE  IsFiniteSet({a \in Actions : grant[a] = g}) /\ UsesOf(g) \in Nat
BY ActionBrokerAssumption, FS_Subset, FS_CardinalityType DEF UsesOf

\* Only a decision changes the grants, and it adds one use to a grant with a use
\* left.
LEMMA UsesNext == TypeInv /\ UsesInv /\ [Next]_vars => UsesInv'
<1> SUFFICES ASSUME TypeInv, UsesInv, [Next]_vars, NEW g \in Grants
             PROVE  UsesOf(g)' =< MaxToolCalls
  BY DEF UsesInv
<1> DEFINE U == {a \in Actions : grant[a] = g}
<1>1. CASE DecideAction
  <2> DEFINE c == request.action
             d == authorize(request.action, request.hint)
  <2>1. /\ \/ d.grant = 0
           \/ d.grant \in Grants /\ ~(UsesOf(d.grant) >= MaxToolCalls)
        /\ c \in Actions /\ grant[c] = 0 /\ grant \in [Actions -> Grants \cup {0}]
        /\ grant' = [grant EXCEPT ![c] = d.grant]
    BY <1>1, Decision DEF DecideAction, TypeInv, TypeOK, FlightInv, UndecidedInv
  <2>2. 0 \notin Grants /\ MaxToolCalls \in Nat
    BY ActionBrokerAssumption
  <2>3. CASE d.grant = g
    <3>1. {a \in Actions : grant'[a] = g} = U \cup {c} /\ c \notin U
      BY <2>1, <2>2, <2>3
    <3>2. Cardinality(U \cup {c}) = Cardinality(U) + 1
      <4>1. IsFiniteSet(U)
        BY UsesFinite
      <4> HIDE DEF U
      <4> QED
        BY <3>1, <4>1, FS_AddElement
    <3>3. UsesOf(g) \in Nat /\ UsesOf(g) = Cardinality(U)
      BY UsesFinite DEF UsesOf
    <3>4. UsesOf(g)' = UsesOf(g) + 1
      BY <3>1, <3>2, <3>3 DEF UsesOf
    <3>5. ~(UsesOf(g) >= MaxToolCalls)
      BY <2>1, <2>2, <2>3
    <3> QED
      BY <3>3, <3>4, <3>5, <2>2
  <2>4. CASE d.grant # g
    <3>1. {a \in Actions : grant'[a] = g} = U
      BY <2>1, <2>2, <2>4
    <3> QED
      BY <3>1 DEF UsesOf, UsesInv
  <2> QED
    BY <2>3, <2>4
<1>2. CASE ~DecideAction
  <2>1. grant' = grant
    BY <1>2
    DEF Next, Recovery, vars, ledger, executeAction, RequestAction, StartAction, RunDriver,
        RecordResult, Abandon, compileCapabilities, appendEvent, AppendPairedExecutionEvent,
        Tick, Crash, Restart, Recover, Listen
  <2> QED
    BY <2>1 DEF UsesOf, UsesInv
<1> QED
  BY <1>1, <1>2

\* No capability is ever used for more effects than the contract's limit, counting
\* actions that were interrupted before or after their effect (GrantsFromEvents).
THEOREM UsesCorrect == Spec => []UsesWithinLimit
<1>1. Init => UsesInv
  <2> SUFFICES ASSUME Init, NEW g \in Grants PROVE UsesOf(g) =< MaxToolCalls
    BY DEF UsesInv
  <2>1. {a \in Actions : grant[a] = g} = {}
    BY ActionBrokerAssumption DEF Init
  <2> QED
    BY <2>1, FS_EmptySet, ActionBrokerAssumption DEF UsesOf
<1>2. UsesInv => UsesWithinLimit
  <2> SUFFICES ASSUME UsesInv, NEW g \in Grants
               PROVE  Cardinality({a \in Actions : grant[a] = g /\ applied[a] > 0}) =< MaxToolCalls
    BY DEF UsesWithinLimit
  <2> DEFINE U == {a \in Actions : grant[a] = g}
             V == {a \in Actions : grant[a] = g /\ applied[a] > 0}
  <2>1. IsFiniteSet(U) /\ UsesOf(g) = Cardinality(U) /\ UsesOf(g) \in Nat
    BY UsesFinite DEF UsesOf
  <2>2. V \subseteq U
    OBVIOUS
  <2> HIDE DEF U, V
  <2>3. IsFiniteSet(V) /\ Cardinality(V) =< Cardinality(U)
    BY <2>1, <2>2, FS_Subset
  <2>4. Cardinality(V) \in Nat
    BY <2>3, FS_CardinalityType
  <2>5. Cardinality(V) =< MaxToolCalls
    BY <2>1, <2>3, <2>4, ActionBrokerAssumption DEF UsesInv
  <2> QED
    BY <2>5 DEF V
<1>3. Spec => []UsesInv
  BY <1>1, TypeInit, TypeNext, UsesNext, PTL DEF Spec
<1> QED
  BY <1>2, <1>3, PTL

\* The ledger never says that an action which took effect was refused or failed,
\* nor that one which did not was completed.
THEOREM LedgerHonest == Spec => []HonestLedger
BY AtMostOnceCorrect, PTL

-----------------------------------------------------------------------------
(* ModelBroker *)

\* The types of the variables.
Usage == [in : Nat, out : Nat]
Kinds == {"started", "torn"} \cup Terminal
Events == [seq : Nat, call : Calls, kind : Kinds, usage : Usage, max : Nat]
Held == {"reserved", "started", "sent", "answered", "finished"}
CallPlaces == Held \cup {"idle", "refused", "done"}
CallRecord == [at : CallPlaces, in : Nat, out : Nat, usage : Usage, phase : Terminal]
RecorderRecord == [sequence : Nat, pending : SUBSET Calls]
BudgetRecord ==
  [requests : Nat, in : 0..MaxInt64, out : 0..MaxInt64, reservedIn : Nat, reservedOut : Nat]

RecordsInv ==
  /\ receipts \in Seq(Events) /\ call \in [Calls -> CallRecord] /\ cost \in [Calls -> Usage]
  /\ recorder \in RecorderRecord /\ budget \in BudgetRecord
  /\ broker \in {"none", "up"}

\* A call under way has reserved all it can cost, and what is said of it in the
\* end is no less than it did cost.
CallOK(x, spent) ==
  /\ x.usage.in <= MaxTotalInputTokens + 1
  /\ x.at \in {"idle", "reserved", "started"} => spent = NoUsage
  /\ x.at \in Held =>
       /\ x.in \in 1..MaxTotalInputTokens
       /\ spent.in <= x.in /\ spent.out <= x.out
  /\ x.at = "answered" =>
       x.usage \in {NoUsage, spent, [in |-> MaxTotalInputTokens + 1, out |-> 1]}
  /\ x.at = "finished" =>
       spent.in <= x.usage.in /\ spent.out <= OutputCharge(x.usage, x.out)

CallsInv == \A c \in Calls : CallOK(call[c], cost[c])

\* What the calls under way have reserved, and what the others have cost.
HeldIn == [c \in Calls |-> IF call[c].at \in Held THEN call[c].in ELSE 0]
HeldOut == [c \in Calls |-> IF call[c].at \in Held THEN call[c].out ELSE 0]
PaidIn == [c \in Calls |-> IF call[c].at \in Held THEN 0 ELSE cost[c].in]
PaidOut == [c \in Calls |-> IF call[c].at \in Held THEN 0 ELSE cost[c].out]
Total(f) == SumFunctionOnSet(f, Calls)

\* A budget knows what is reserved and has charged what was paid; together they
\* are within the limit, although what was charged may exceed it.
Balanced(reserved, charged, held, paid, limit) ==
  /\ reserved = held
  /\ held + paid <= limit
  /\ broker = "up" => paid <= charged

AccountInv ==
  /\ Balanced(budget.reservedIn, budget.in, Total(HeldIn), Total(PaidIn), MaxTotalInputTokens)
  /\ Balanced(budget.reservedOut, budget.out, Total(HeldOut), Total(PaidOut),
              MaxTotalOutputTokens)

\* Every call that was let through was counted.
Admitted == {c \in Calls : call[c].at \in Held \cup {"done"}}
RequestsInv ==
  /\ budget.requests <= MaxRequests /\ Cardinality(Sent) <= MaxRequests
  /\ broker = "up" => Sent \subseteq Admitted /\ Cardinality(Admitted) <= budget.requests

\* A call has one receipt of its start and at most one of its end, which
\* charges at least the output it cost.
OneEach(l) ==
  /\ \A i, j \in DOMAIN l : l[i].kind = "started" /\ l[j].kind = "started"
                              /\ l[i].call = l[j].call => i = j
  /\ \A i, j \in DOMAIN l : l[i].kind \in Terminal /\ l[j].kind \in Terminal
                              /\ l[i].call = l[j].call => i = j
  /\ EndedIn(l) \subseteq StartedIn(l)
EventOK(e, spent) ==
  /\ e.kind = "started" => e.usage = NoUsage /\ spent.out <= e.max
  /\ e.kind \in Terminal => spent.out <= OutputCharge(e.usage, e.max)

ReceiptOK(c, x, l) ==
  /\ x.at \in {"idle", "reserved"} => c \notin StartedIn(l)
  /\ x.at \in {"started", "sent", "answered"} =>
       /\ c \in StartedIn(l) /\ c \notin EndedIn(l)
       /\ \A i \in DOMAIN l : l[i].kind = "started" /\ l[i].call = c => l[i].max = x.out

ReceiptsInv ==
  /\ OneEach(receipts)
  /\ \A i \in DOMAIN receipts : EventOK(receipts[i], cost[receipts[i].call])
  /\ \A c \in Calls : ReceiptOK(c, call[c], receipts)
  /\ Sent \subseteq StartedIn(receipts)

\* A broker is started once, on an empty ledger, and when the ledger is summed
\* up no call is under way.
PhaseInv ==
  /\ phase = "prepared" =>
       /\ receipts = <<>> /\ broker = "none" /\ budget = NewBudget
       /\ \A c \in Calls : call[c].at = "idle"
  /\ phase \in {"finalize", "settled", "unverifiable"} => \A c \in Calls : call[c].at \notin Held
  /\ summary # NoSummary => phase = "settled"
  /\ SummaryComplete

ModelInv ==
  RecordsInv /\ CallsInv /\ AccountInv /\ RequestsInv /\ ReceiptsInv /\ PhaseInv

-----------------------------------------------------------------------------
(* One call takes a step *)

\* The limits are numbers, and those of the tokens fit a counter.
LEMMA BudgetFacts ==
  /\ IsFiniteSet(Calls)
  /\ MaxRequests \in Nat /\ MaxTotalInputTokens \in Nat /\ MaxTotalOutputTokens \in Nat
  /\ MaxInt64 \in Nat /\ MaxTotalInputTokens > 0
  /\ MaxTotalInputTokens <= MaxInt64 /\ MaxTotalOutputTokens <= MaxInt64
  /\ \A size \in Sizes : size.in \in Nat \ {0} /\ size.out \in Nat \ {0}
BY BudgetAssumption

\* Totals are numbers.
LEMMA Totals ==
  ASSUME RecordsInv
  PROVE  /\ HeldIn \in [Calls -> Nat] /\ HeldOut \in [Calls -> Nat]
         /\ PaidIn \in [Calls -> Nat] /\ PaidOut \in [Calls -> Nat]
         /\ Total(HeldIn) \in Nat /\ Total(HeldOut) \in Nat
         /\ Total(PaidIn) \in Nat /\ Total(PaidOut) \in Nat
<1>1. /\ HeldIn \in [Calls -> Nat] /\ HeldOut \in [Calls -> Nat]
      /\ PaidIn \in [Calls -> Nat] /\ PaidOut \in [Calls -> Nat]
  BY DEF RecordsInv, CallRecord, Usage, HeldIn, HeldOut, PaidIn, PaidOut
<1>2. ASSUME NEW f \in [Calls -> Nat]
      PROVE  Total(f) \in Nat
  BY BudgetFacts, SumStep DEF Total
<1> QED
  BY <1>1, <1>2

\* Only call c changes.
Only(c) ==
  /\ call' \in [Calls -> CallRecord] /\ cost' \in [Calls -> Usage]
  /\ \A d \in Calls \ {c} : call'[d] = call[d] /\ cost'[d] = cost[d]

\* The other calls stay as they were.
LEMMA OnlyCalls ==
  ASSUME CallsInv, NEW c \in Calls, Only(c), CallOK(call'[c], cost'[c])
  PROVE  CallsInv'
BY DEF CallsInv, Only

\* A total changes by what the call changes.
LEMMA OnlyTotals ==
  ASSUME RecordsInv, NEW c \in Calls, Only(c)
  PROVE  /\ \E rest \in Nat : /\ Total(HeldIn) = HeldIn[c] + rest
                              /\ Total(HeldIn') = HeldIn'[c] + rest
         /\ \E rest \in Nat : /\ Total(HeldOut) = HeldOut[c] + rest
                              /\ Total(HeldOut') = HeldOut'[c] + rest
         /\ \E rest \in Nat : /\ Total(PaidIn) = PaidIn[c] + rest
                              /\ Total(PaidIn') = PaidIn'[c] + rest
         /\ \E rest \in Nat : /\ Total(PaidOut) = PaidOut[c] + rest
                              /\ Total(PaidOut') = PaidOut'[c] + rest
<1>1. /\ HeldIn \in [Calls -> Nat] /\ HeldOut \in [Calls -> Nat]
      /\ PaidIn \in [Calls -> Nat] /\ PaidOut \in [Calls -> Nat]
  BY Totals
<1>2. /\ HeldIn' \in [Calls -> Nat] /\ HeldOut' \in [Calls -> Nat]
      /\ PaidIn' \in [Calls -> Nat] /\ PaidOut' \in [Calls -> Nat]
  BY DEF Only, CallRecord, Usage, HeldIn, HeldOut, PaidIn, PaidOut
<1>3. \A d \in Calls \ {c} : /\ HeldIn'[d] = HeldIn[d] /\ HeldOut'[d] = HeldOut[d]
                             /\ PaidIn'[d] = PaidIn[d] /\ PaidOut'[d] = PaidOut[d]
  BY DEF Only, HeldIn, HeldOut, PaidIn, PaidOut
<1>4. ASSUME NEW f \in [Calls -> Nat], NEW h \in [Calls -> Nat],
             \A d \in Calls \ {c} : h[d] = f[d]
      PROVE  \E rest \in Nat : Total(f) = f[c] + rest /\ Total(h) = h[c] + rest
  BY <1>4, BudgetFacts, SumReplaced DEF Total
<1> QED
  BY <1>1, <1>2, <1>3, <1>4

\* A call that goes on holding what it holds changes no account.
LEMMA KeepAccount ==
  ASSUME RecordsInv, AccountInv, NEW c \in Calls, Only(c),
         call[c].at \in Held, call'[c].at \in Held,
         call'[c].in = call[c].in, call'[c].out = call[c].out,
         budget' = budget, broker' = broker
  PROVE  AccountInv'
<1>1. HeldIn' = HeldIn /\ HeldOut' = HeldOut /\ PaidIn' = PaidIn /\ PaidOut' = PaidOut
  BY DEF Only, HeldIn, HeldOut, PaidIn, PaidOut
<1> QED
  BY <1>1 DEF AccountInv, Balanced

\* A call that is not under way, and cost nothing, changes none either.
LEMMA RefusedAccount ==
  ASSUME RecordsInv, AccountInv, NEW c \in Calls, Only(c),
         call[c].at \notin Held, call'[c].at \notin Held, cost'[c] = cost[c],
         budget' = budget, broker' = broker
  PROVE  AccountInv'
<1>1. HeldIn' = HeldIn /\ HeldOut' = HeldOut /\ PaidIn' = PaidIn /\ PaidOut' = PaidOut
  BY DEF Only, HeldIn, HeldOut, PaidIn, PaidOut
<1> QED
  BY <1>1 DEF AccountInv, Balanced

\* releaseReservation does not go below zero, and need not.
LEMMA MaxWithZero ==
  ASSUME NEW n \in Nat
  PROVE  Max({n, 0}) = n
BY DEF Max

\* Saturation loses nothing that is within the limits.
LEMMA Saturates ==
  ASSUME NEW m \in 0..MaxInt64, NEW n \in Nat
  PROVE  /\ saturatingAdd(m, n) \in 0..MaxInt64
         /\ \A k \in 0..MaxInt64 : k <= m + n => k <= saturatingAdd(m, n)
BY BudgetFacts DEF saturatingAdd

\* The handler of a call ends: its reservation is given back, and what the
\* call cost is charged.
LEMMA ReleaseAccount ==
  ASSUME RecordsInv, AccountInv, NEW c \in Calls, Only(c), NEW usage \in Usage,
         call[c].at \in Held, call'[c].at \notin Held, cost'[c] = cost[c],
         cost[c].in <= usage.in, cost[c].out <= OutputCharge(usage, call[c].out),
         cost[c].in <= call[c].in, cost[c].out <= call[c].out,
         budget' = releaseReservation(c, usage), broker' = broker
  PROVE  AccountInv' /\ budget' \in BudgetRecord /\ budget'.requests = budget.requests
<1> DEFINE x == call[c]
           k == cost[c]
           charge == OutputCharge(usage, call[c].out)
<1>1. /\ x.in \in Nat /\ x.out \in Nat /\ k.in \in Nat /\ k.out \in Nat
      /\ usage.in \in Nat /\ charge \in Nat
  BY DEF RecordsInv, CallRecord, Usage, OutputCharge
<1>2. /\ HeldIn[c] = x.in /\ HeldOut[c] = x.out /\ PaidIn[c] = 0 /\ PaidOut[c] = 0
      /\ HeldIn'[c] = 0 /\ HeldOut'[c] = 0 /\ PaidIn'[c] = k.in /\ PaidOut'[c] = k.out
  BY DEF HeldIn, HeldOut, PaidIn, PaidOut
<1>3. /\ \E rest \in Nat : Total(HeldIn) = x.in + rest /\ Total(HeldIn') = rest
      /\ \E rest \in Nat : Total(HeldOut) = x.out + rest /\ Total(HeldOut') = rest
      /\ \E rest \in Nat : Total(PaidIn) = rest /\ Total(PaidIn') = k.in + rest
      /\ \E rest \in Nat : Total(PaidOut) = rest /\ Total(PaidOut') = k.out + rest
  <2> HIDE DEF x, k
  <2> QED
    BY <1>1, <1>2, OnlyTotals
<1>4. /\ budget.reservedIn \in Nat /\ budget.reservedOut \in Nat
      /\ budget.in \in 0..MaxInt64 /\ budget.out \in 0..MaxInt64 /\ budget.requests \in Nat
  BY DEF RecordsInv, BudgetRecord
<1>5. budget' = [requests |-> budget.requests,
                 in |-> saturatingAdd(budget.in, usage.in),
                 out |-> saturatingAdd(budget.out, charge),
                 reservedIn |-> Max({budget.reservedIn - x.in, 0}),
                 reservedOut |-> Max({budget.reservedOut - x.out, 0})]
  BY DEF releaseReservation, RecordsInv, BudgetRecord
<1> HIDE DEF x, k, charge
<1>6. /\ budget.reservedIn - x.in = Total(HeldIn') /\ Total(HeldIn') \in Nat
      /\ budget.reservedOut - x.out = Total(HeldOut') /\ Total(HeldOut') \in Nat
  BY <1>1, <1>3, <1>4 DEF AccountInv, Balanced
<1>7. /\ budget'.reservedIn = Total(HeldIn') /\ budget'.reservedOut = Total(HeldOut')
      /\ budget'.in = saturatingAdd(budget.in, usage.in)
      /\ budget'.out = saturatingAdd(budget.out, charge)
      /\ budget'.requests = budget.requests
  BY <1>5, <1>6, MaxWithZero
<1>8. budget' \in BudgetRecord
  <2>1. saturatingAdd(budget.in, usage.in) \in 0..MaxInt64
        /\ saturatingAdd(budget.out, charge) \in 0..MaxInt64
    BY <1>1, <1>4, Saturates
  <2> QED
    BY <1>4, <1>5, <1>6, <2>1, MaxWithZero DEF BudgetRecord
<1>9. /\ Total(HeldIn') + Total(PaidIn') <= MaxTotalInputTokens
      /\ Total(HeldOut') + Total(PaidOut') <= MaxTotalOutputTokens
  <2>1. k.in <= x.in /\ k.out <= x.out
    BY DEF k, x
  <2> QED
    BY <1>1, <1>3, <2>1, BudgetFacts DEF AccountInv, Balanced
<1>10. broker = "up" => /\ Total(PaidIn') <= budget'.in
                        /\ Total(PaidOut') <= budget'.out
  <2> SUFFICES ASSUME broker = "up"
               PROVE  Total(PaidIn') <= budget'.in /\ Total(PaidOut') <= budget'.out
    OBVIOUS
  <2>1. k.in <= usage.in /\ k.out <= charge
    BY DEF k, charge
  <2>2. Total(PaidIn') \in 0..MaxInt64 /\ Total(PaidOut') \in 0..MaxInt64
    BY <1>1, <1>3, <1>6, <1>9, BudgetFacts
  <2>3. Total(PaidIn') <= budget.in + usage.in /\ Total(PaidOut') <= budget.out + charge
    BY <1>1, <1>3, <1>4, <2>1 DEF AccountInv, Balanced
  <2> QED
    BY <1>1, <1>4, <1>7, <2>2, <2>3, Saturates
<1> QED
  BY <1>7, <1>8, <1>9, <1>10 DEF AccountInv, Balanced

\* A call that is admitted reserves within what is left.
LEMMA BeginAccount ==
  ASSUME RecordsInv, AccountInv, NEW c \in Calls, Only(c), NEW in \in Nat, NEW out \in Nat,
         broker = "up", broker' = broker, reserve(in, out),
         call[c].at \notin Held, cost[c] = NoUsage, cost' = cost,
         call'[c].at \in Held, call'[c].in = in, call'[c].out = out,
         budget' = [budget EXCEPT !.requests = @ + 1, !.reservedIn = @ + in,
                                  !.reservedOut = @ + out]
  PROVE  AccountInv' /\ budget' \in BudgetRecord /\ budget'.requests = budget.requests + 1
<1>1. /\ HeldIn[c] = 0 /\ HeldOut[c] = 0 /\ PaidIn[c] = 0 /\ PaidOut[c] = 0
      /\ HeldIn'[c] = in /\ HeldOut'[c] = out /\ PaidIn'[c] = 0 /\ PaidOut'[c] = 0
  BY DEF HeldIn, HeldOut, PaidIn, PaidOut, NoUsage
<1>2. /\ \E rest \in Nat : Total(HeldIn) = rest /\ Total(HeldIn') = in + rest
      /\ \E rest \in Nat : Total(HeldOut) = rest /\ Total(HeldOut') = out + rest
      /\ \E rest \in Nat : Total(PaidIn) = rest /\ Total(PaidIn') = rest
      /\ \E rest \in Nat : Total(PaidOut) = rest /\ Total(PaidOut') = rest
  BY <1>1, OnlyTotals
<1>3. /\ budget.reservedIn \in Nat /\ budget.reservedOut \in Nat
      /\ budget.in \in Nat /\ budget.out \in Nat /\ budget.requests \in Nat
  BY BudgetFacts DEF RecordsInv, BudgetRecord
<1>4. /\ budget'.reservedIn = budget.reservedIn + in
      /\ budget'.reservedOut = budget.reservedOut + out
      /\ budget'.in = budget.in /\ budget'.out = budget.out
      /\ budget'.requests = budget.requests + 1
      /\ budget' \in BudgetRecord
  <2>1. budget' = [requests |-> budget.requests + 1, in |-> budget.in, out |-> budget.out,
                   reservedIn |-> budget.reservedIn + in,
                   reservedOut |-> budget.reservedOut + out]
    BY DEF RecordsInv, BudgetRecord
  <2>2. budget.in \in 0..MaxInt64 /\ budget.out \in 0..MaxInt64
    BY DEF RecordsInv, BudgetRecord
  <2> QED
    BY <1>3, <2>1, <2>2 DEF BudgetRecord
<1>5. /\ budget.in + budget.reservedIn + in <= MaxTotalInputTokens
      /\ budget.out + budget.reservedOut + out <= MaxTotalOutputTokens
  BY <1>3, BudgetFacts DEF reserve, wouldExceedBudget
<1> QED
  BY <1>2, <1>3, <1>4, <1>5, BudgetFacts DEF AccountInv, Balanced

-----------------------------------------------------------------------------
(* The ledger *)

\* An event is added at the end.
LEMMA Appending ==
  ASSUME NEW l \in Seq(Events), NEW e \in Events
  PROVE  LET k == Append(l, e) IN
         /\ k \in Seq(Events) /\ DOMAIN l = 1..Len(l) /\ DOMAIN k = 1..(Len(l) + 1)
         /\ Len(l) \in Nat /\ k[Len(l) + 1] = e /\ \A i \in 1..Len(l) : k[i] = l[i]
OBVIOUS

\* An event starts its call, ends it, or is torn.
LEMMA AppendingSets ==
  ASSUME NEW l \in Seq(Events), NEW e \in Events
  PROVE  /\ e.kind = "started" => /\ StartedIn(Append(l, e)) = StartedIn(l) \cup {e.call}
                                  /\ EndedIn(Append(l, e)) = EndedIn(l)
         /\ e.kind \in Terminal => /\ StartedIn(Append(l, e)) = StartedIn(l)
                                   /\ EndedIn(Append(l, e)) = EndedIn(l) \cup {e.call}
         /\ e.kind = "torn" => /\ StartedIn(Append(l, e)) = StartedIn(l)
                               /\ EndedIn(Append(l, e)) = EndedIn(l)
<1> DEFINE k == Append(l, e)
           n == Len(l) + 1
<1>1. /\ DOMAIN l = 1..Len(l) /\ DOMAIN k = 1..n /\ Len(l) \in Nat
      /\ k[n] = e /\ \A i \in 1..Len(l) : k[i] = l[i]
  BY Appending
<1>2. DOMAIN k = DOMAIN l \cup {n} /\ n \notin DOMAIN l
  BY <1>1
<1>3. \A i \in DOMAIN l : k[i] = l[i]
  BY <1>1
<1> HIDE DEF k, n
<1>4. ASSUME NEW c
      PROVE  /\ c \in StartedIn(k) <=> c \in StartedIn(l) \/ (e.kind = "started" /\ c = e.call)
             /\ c \in EndedIn(k) <=> c \in EndedIn(l) \/ (e.kind \in Terminal /\ c = e.call)
  BY <1>1, <1>2, <1>3 DEF StartedIn, EndedIn
<1>5. "started" \notin Terminal /\ "torn" \notin Terminal
  BY DEF Terminal
<1>6. ASSUME e.kind = "started"
      PROVE  StartedIn(k) = StartedIn(l) \cup {e.call} /\ EndedIn(k) = EndedIn(l)
  BY <1>4, <1>5, <1>6
<1>7. ASSUME e.kind \in Terminal
      PROVE  StartedIn(k) = StartedIn(l) /\ EndedIn(k) = EndedIn(l) \cup {e.call}
  BY <1>4, <1>5, <1>7
<1>8. ASSUME e.kind = "torn"
      PROVE  StartedIn(k) = StartedIn(l) /\ EndedIn(k) = EndedIn(l)
  BY <1>4, <1>5, <1>8
<1> QED
  BY <1>6, <1>7, <1>8 DEF k

\* One receipt of each kind per call, still.
LEMMA AppendingOne ==
  ASSUME NEW l \in Seq(Events), NEW e \in Events, OneEach(l),
         e.kind = "started" => e.call \notin StartedIn(l),
         e.kind \in Terminal => e.call \in StartedIn(l) /\ e.call \notin EndedIn(l)
  PROVE  OneEach(Append(l, e))
<1> DEFINE k == Append(l, e)
           n == Len(l) + 1
<1>1. /\ DOMAIN l = 1..Len(l) /\ DOMAIN k = 1..n /\ Len(l) \in Nat
      /\ k[n] = e /\ \A i \in 1..Len(l) : k[i] = l[i]
  BY Appending
<1>2. DOMAIN k = DOMAIN l \cup {n}
  BY <1>1
<1>3. \A i \in DOMAIN l : k[i] = l[i]
  BY <1>1
<1>4. EndedIn(k) \subseteq StartedIn(k)
  <2>1. e.kind \in {"started", "torn"} \cup Terminal
    BY DEF Events, Kinds
  <2> QED
    BY <2>1, AppendingSets DEF OneEach
<1> HIDE DEF k, n
<1>5. /\ e.kind = "started" => \A i \in DOMAIN l : ~(l[i].kind = "started" /\ l[i].call = e.call)
      /\ e.kind \in Terminal => \A i \in DOMAIN l : ~(l[i].kind \in Terminal /\ l[i].call = e.call)
  BY DEF StartedIn, EndedIn
<1>6. \A i, j \in DOMAIN k : k[i].kind = "started" /\ k[j].kind = "started"
                               /\ k[i].call = k[j].call => i = j
  BY <1>1, <1>2, <1>3, <1>5 DEF OneEach
<1>7. \A i, j \in DOMAIN k : k[i].kind \in Terminal /\ k[j].kind \in Terminal
                               /\ k[i].call = k[j].call => i = j
  BY <1>1, <1>2, <1>3, <1>5 DEF OneEach
<1> QED
  BY <1>4, <1>6, <1>7 DEF OneEach, k

\* What a call writes leaves the others alone.
LEMMA AppendingOthers ==
  ASSUME NEW l \in Seq(Events), NEW e \in Events, NEW d \in Calls, d # e.call,
         NEW x, ReceiptOK(d, x, l)
  PROVE  ReceiptOK(d, x, Append(l, e))
<1> DEFINE k == Append(l, e)
           n == Len(l) + 1
<1>1. /\ DOMAIN l = 1..Len(l) /\ DOMAIN k = 1..n /\ Len(l) \in Nat
      /\ k[n] = e /\ \A i \in 1..Len(l) : k[i] = l[i]
  BY Appending
<1>2. /\ d \in StartedIn(k) <=> d \in StartedIn(l)
      /\ d \in EndedIn(k) <=> d \in EndedIn(l)
  <2>1. e.kind \in {"started", "torn"} \cup Terminal
    BY DEF Events, Kinds
  <2> QED
    BY <2>1, AppendingSets
<1>3. \A i \in DOMAIN k : k[i].call = d => i \in DOMAIN l /\ k[i] = l[i]
  BY <1>1
<1> HIDE DEF k, n
<1> QED
  BY <1>2, <1>3 DEF ReceiptOK, k

\* A write about a call keeps the ledger good, whether it succeeds or fails.
LEMMA AppendingReceipts ==
  ASSUME RecordsInv, ReceiptsInv, NEW c \in Calls, Only(c), cost' = cost,
         NEW e \in Events, e.call = c, receipts' = Append(receipts, e),
         e.kind = "started" => c \notin StartedIn(receipts),
         e.kind \in Terminal => c \in StartedIn(receipts) /\ c \notin EndedIn(receipts),
         EventOK(e, cost[c]), ReceiptOK(c, call'[c], receipts')
  PROVE  receipts' \in Seq(Events) /\ ReceiptsInv'
<1>1. receipts \in Seq(Events)
  BY DEF RecordsInv
<1>2. /\ receipts' \in Seq(Events)
      /\ DOMAIN receipts' = 1..(Len(receipts) + 1) /\ Len(receipts) \in Nat
      /\ DOMAIN receipts = 1..Len(receipts)
      /\ receipts'[Len(receipts) + 1] = e
      /\ \A i \in 1..Len(receipts) : receipts'[i] = receipts[i]
  BY <1>1, Appending
<1>3. OneEach(receipts')
  BY <1>1, AppendingOne DEF ReceiptsInv
<1>4. \A i \in DOMAIN receipts' : EventOK(receipts'[i], cost'[receipts'[i].call])
  BY <1>2 DEF ReceiptsInv
<1>5. \A d \in Calls : ReceiptOK(d, call'[d], receipts')
  BY <1>1, AppendingOthers DEF ReceiptsInv, Only
<1>6. Sent' \subseteq StartedIn(receipts')
  <2>1. e.kind \in {"started", "torn"} \cup Terminal
    BY DEF Events, Kinds
  <2>2. StartedIn(receipts) \subseteq StartedIn(receipts')
    BY <1>1, <2>1, AppendingSets
  <2> QED
    BY <2>2 DEF ReceiptsInv, Sent
<1> QED
  BY <1>2, <1>3, <1>4, <1>5, <1>6 DEF ReceiptsInv

\* A call that writes nothing keeps it good too.
LEMMA KeepReceipts ==
  ASSUME RecordsInv, ReceiptsInv, NEW c \in Calls, Only(c), cost' = cost,
         receipts' = receipts, ReceiptOK(c, call'[c], receipts)
  PROVE  receipts' \in Seq(Events) /\ ReceiptsInv'
BY DEF RecordsInv, ReceiptsInv, Only, Sent

\* While a call is under way nothing has been summed up.
LEMMA UnderWay ==
  ASSUME PhaseInv, NEW c \in Calls, call[c].at \in Held \/ phase \in {"running", "adrift"}
  PROVE  /\ phase \notin {"prepared", "finalize", "settled", "unverifiable"}
         /\ summary = NoSummary
         /\ phase' = phase /\ summary' = summary => PhaseInv'
BY DEF PhaseInv, Held, SummaryComplete

-----------------------------------------------------------------------------
(* The steps of a call *)

\* A call that is let through, or not.
LEMMA BeginCallInv ==
  ASSUME ModelInv, NEW c \in Calls, NEW size \in Sizes, BeginCall(c, size.in, size.out)
  PROVE  ModelInv'
<1> DEFINE in == size.in
           out == size.out
           x == IF reserve(in, out)
                THEN [NoCall EXCEPT !.at = "reserved", !.in = in, !.out = out]
                ELSE [NoCall EXCEPT !.at = "refused"]
<1>1. in \in Nat \ {0} /\ out \in Nat \ {0}
  BY BudgetFacts
<1>2. /\ RecordsInv /\ CallsInv /\ AccountInv /\ RequestsInv /\ ReceiptsInv /\ PhaseInv
      /\ broker = "up" /\ call[c].at = "idle" /\ phase \in {"running", "adrift"}
      /\ receipts' = receipts /\ recorder' = recorder /\ cost' = cost /\ broker' = broker
      /\ phase' = phase /\ summary' = summary
  BY DEF ModelInv, BeginCall, Serving
<1>3. call' = [call EXCEPT ![c] = x]
  BY DEF BeginCall, Return
<1>4. /\ x \in CallRecord /\ x.usage = NoUsage /\ NoUsage \in Usage
      /\ reserve(in, out) => x.at = "reserved" /\ x.in = in /\ x.out = out
      /\ ~reserve(in, out) => x.at = "refused"
  BY <1>1 DEF CallRecord, CallPlaces, Held, NoCall, NoUsage, Usage, Terminal
<1> HIDE DEF x
<1>5. Only(c) /\ call'[c] = x
  BY <1>2, <1>3, <1>4 DEF Only, RecordsInv
<1>6. cost[c] = NoUsage
  BY <1>2 DEF CallsInv, CallOK
<1>7. AccountInv' /\ budget' \in BudgetRecord
      /\ (reserve(in, out) => budget'.requests = budget.requests + 1)
      /\ (~reserve(in, out) => budget' = budget)
  <2>1. CASE reserve(in, out)
    <3>1. budget' = [budget EXCEPT !.requests = @ + 1, !.reservedIn = @ + in,
                                   !.reservedOut = @ + out]
      BY <2>1 DEF BeginCall
    <3>2. call[c].at \notin Held /\ call'[c].at \in Held
      BY <1>2, <1>4, <1>5, <2>1 DEF Held
    <3> QED
      BY <1>1, <1>2, <1>4, <1>5, <1>6, <2>1, <3>1, <3>2, BeginAccount
  <2>2. CASE ~reserve(in, out)
    <3>1. budget' = budget
      BY <2>2 DEF BeginCall
    <3>2. call[c].at \notin Held /\ call'[c].at \notin Held
      BY <1>2, <1>4, <1>5, <2>2 DEF Held
    <3> QED
      BY <1>2, <1>5, <2>2, <3>1, <3>2, RefusedAccount DEF RecordsInv
  <2> QED
    BY <2>1, <2>2
<1>8. CallsInv'
  <2>1. reserve(in, out) => in <= MaxTotalInputTokens
    <3>1. budget.in \in Nat /\ budget.reservedIn \in Nat
      BY <1>2, BudgetFacts DEF RecordsInv, BudgetRecord
    <3> QED
      BY <1>1, <3>1, BudgetFacts DEF reserve, wouldExceedBudget
  <2>2. CallOK(call'[c], cost'[c])
    BY <1>1, <1>2, <1>4, <1>5, <1>6, <2>1, BudgetFacts DEF CallOK, NoUsage, Held
  <2> QED
    BY <1>2, <1>5, <2>2, OnlyCalls
<1>9. RequestsInv'
  <2>1. Admitted' \subseteq Admitted \cup {c} /\ Admitted \subseteq Admitted'
    BY <1>2, <1>5 DEF Admitted, Only, Held
  <2>2. ~reserve(in, out) => Admitted' \subseteq Admitted
    BY <1>2, <1>4, <1>5 DEF Admitted, Only, Held
  <2>3. IsFiniteSet(Admitted) /\ Cardinality(Admitted) \in Nat
    BY BudgetFacts, FS_Subset, FS_CardinalityType DEF Admitted
  <2>4. /\ IsFiniteSet(Admitted \cup {c}) /\ Cardinality(Admitted \cup {c}) \in Nat
        /\ Cardinality(Admitted \cup {c}) <= Cardinality(Admitted) + 1
    BY <2>3, FS_AddElement
  <2>5. /\ Cardinality(Admitted') \in Nat /\ Cardinality(Admitted') <= Cardinality(Admitted) + 1
        /\ ~reserve(in, out) => Cardinality(Admitted') <= Cardinality(Admitted)
    <3>1. Admitted' \in SUBSET (Admitted \cup {c})
      BY <2>1
    <3>2. IsFiniteSet(Admitted') /\ Cardinality(Admitted') <= Cardinality(Admitted \cup {c})
      BY <2>4, <3>1, FS_Subset
    <3>3. Cardinality(Admitted') \in Nat
      BY <3>2, FS_CardinalityType
    <3>4. ~reserve(in, out) => Cardinality(Admitted') <= Cardinality(Admitted)
      BY <2>2, <2>3, FS_Subset
    <3> QED
      BY <2>3, <2>4, <3>2, <3>3, <3>4
  <2>6. budget.requests \in Nat /\ (reserve(in, out) => budget.requests < MaxRequests)
    BY <1>2 DEF RecordsInv, BudgetRecord, reserve
  <2>7. Sent' = Sent
    BY <1>2 DEF Sent
  <2> QED
    BY <1>2, <1>7, <2>1, <2>3, <2>5, <2>6, <2>7, BudgetFacts DEF RequestsInv
<1>10. ReceiptsInv' /\ receipts' \in Seq(Events)
  <2>1. ReceiptOK(c, call'[c], receipts)
    BY <1>2, <1>4, <1>5 DEF ReceiptsInv, ReceiptOK
  <2> QED
    BY <1>2, <1>5, <2>1, KeepReceipts
<1>11. PhaseInv'
  BY <1>2, UnderWay
<1> QED
  BY <1>2, <1>5, <1>7, <1>8, <1>9, <1>10, <1>11 DEF ModelInv, RecordsInv, Only

\* A call that was let through is counted once.
LEMMA KeepRequests ==
  ASSUME RecordsInv, RequestsInv, broker = "up", broker' = broker,
         budget'.requests = budget.requests,
         Sent' \subseteq Admitted', Admitted' \subseteq Admitted
  PROVE  RequestsInv'
<1>1. IsFiniteSet(Admitted) /\ Cardinality(Admitted) \in Nat
  BY BudgetFacts, FS_Subset, FS_CardinalityType DEF Admitted
<1>2. /\ IsFiniteSet(Admitted') /\ Cardinality(Admitted') <= Cardinality(Admitted)
      /\ Cardinality(Admitted') \in Nat
  BY <1>1, FS_Subset, FS_CardinalityType
<1>3. Cardinality(Sent') <= Cardinality(Admitted') /\ Cardinality(Sent') \in Nat
  BY <1>2, FS_Subset, FS_CardinalityType
<1>4. budget.requests \in Nat
  BY DEF RecordsInv, BudgetRecord
<1> QED
  BY <1>1, <1>2, <1>3, <1>4, BudgetFacts DEF RequestsInv

\* What a call writes is an event of its own.
LEMMA EventType ==
  ASSUME RecordsInv, NEW c \in Calls, NEW kind \in Kinds, NEW usage \in Usage
  PROVE  LET e == Event(recorder.sequence + 1, c, kind, usage) IN
         /\ e \in Events /\ e.seq = recorder.sequence + 1 /\ e.call = c /\ e.kind = kind
         /\ e.usage = usage /\ e.max = call[c].out
         /\ [e EXCEPT !.kind = "torn"] \in Events
         /\ [e EXCEPT !.kind = "torn"].kind = "torn" /\ [e EXCEPT !.kind = "torn"].call = c
<1>1. recorder.sequence \in Nat /\ call[c].out \in Nat
  BY DEF RecordsInv, RecorderRecord, CallRecord
<1> QED
  BY <1>1 DEF Event, Events, Kinds

\* The receipt of the start is on disk, or the call is refused.
LEMMA RecordStartInv ==
  ASSUME ModelInv, NEW c \in Calls, RecordStart(c)
  PROVE  ModelInv'
<1> DEFINE e == Event(recorder.sequence + 1, c, "started", NoUsage)
           torn == [e EXCEPT !.kind = "torn"]
           refused == [NoCall EXCEPT !.at = "refused"]
<1>1. /\ RecordsInv /\ CallsInv /\ AccountInv /\ RequestsInv /\ ReceiptsInv /\ PhaseInv
      /\ broker = "up" /\ call[c].at = "reserved" /\ cost' = cost /\ broker' = broker
      /\ phase' = phase /\ summary' = summary
  BY DEF ModelInv, RecordStart, Serving
<1>2. NoUsage \in Usage /\ NoUsage.in = 0 /\ NoUsage.out = 0
  BY DEF Usage, NoUsage
<1>3. /\ e \in Events /\ e.seq = recorder.sequence + 1 /\ e.call = c /\ e.kind = "started"
      /\ e.usage = NoUsage /\ e.max = call[c].out
      /\ torn \in Events /\ torn.kind = "torn" /\ torn.call = c
  BY <1>1, <1>2, EventType DEF Kinds
<1>4. \/ /\ receipts' = Append(receipts, e) /\ call' = [call EXCEPT ![c].at = "started"]
         /\ recorder' = [sequence |-> e.seq, pending |-> recorder.pending \cup {c}]
         /\ budget' = budget
      \/ /\ receipts' \in {receipts, Append(receipts, e), Append(receipts, torn)}
         /\ call' = [call EXCEPT ![c] = refused]
         /\ budget' = releaseReservation(c, NoUsage) /\ recorder' = recorder
  BY DEF RecordStart, Appended, AppendFails, Move, Return
<1> HIDE DEF e, torn
<1>5. /\ cost[c] = NoUsage /\ c \notin StartedIn(receipts) /\ c \notin EndedIn(receipts)
      /\ call[c] \in CallRecord /\ call[c].out \in Nat /\ call[c].in \in Nat
      /\ receipts \in Seq(Events)
  BY <1>1 DEF CallsInv, CallOK, ReceiptsInv, ReceiptOK, OneEach, RecordsInv, CallRecord
<1>6. EventOK(e, cost[c]) /\ EventOK(torn, cost[c])
  BY <1>2, <1>3, <1>5 DEF EventOK, Terminal
<1>7. "started" \notin Terminal /\ "torn" \notin Terminal
  BY DEF Terminal
<1>8. PhaseInv'
  BY <1>1, UnderWay DEF Held
<1>9. CASE /\ receipts' = Append(receipts, e) /\ call' = [call EXCEPT ![c].at = "started"]
           /\ recorder' = [sequence |-> e.seq, pending |-> recorder.pending \cup {c}]
           /\ budget' = budget
  <2>1. /\ Only(c) /\ call'[c].at = "started" /\ call'[c].in = call[c].in
        /\ call'[c].out = call[c].out /\ call'[c].usage = call[c].usage
    BY <1>1, <1>5, <1>9 DEF Only, RecordsInv, CallRecord, CallPlaces, Held
  <2>2. AccountInv'
    BY <1>1, <1>9, <2>1, KeepAccount DEF Held
  <2>3. CallsInv'
    <3>1. CallOK(call'[c], cost'[c])
      BY <1>1, <1>5, <2>1 DEF CallsInv, CallOK, Held
    <3> QED
      BY <1>1, <2>1, <3>1, OnlyCalls
  <2>4. RequestsInv'
    <3>1. Admitted' = Admitted /\ Sent' = Sent
      BY <1>1, <2>1 DEF Admitted, Sent, Only, Held
    <3> QED
      BY <1>1, <1>9, <3>1, KeepRequests DEF RequestsInv
  <2>5. ReceiptOK(c, call'[c], receipts')
    <3>1. c \in StartedIn(receipts') /\ c \notin EndedIn(receipts')
      BY <1>3, <1>5, <1>9, AppendingSets
    <3>2. /\ DOMAIN receipts' = 1..(Len(receipts) + 1) /\ Len(receipts) \in Nat
          /\ DOMAIN receipts = 1..Len(receipts)
          /\ receipts'[Len(receipts) + 1] = e
          /\ \A i \in 1..Len(receipts) : receipts'[i] = receipts[i]
      BY <1>3, <1>5, <1>9, Appending
    <3>3. \A i \in DOMAIN receipts : ~(receipts[i].kind = "started" /\ receipts[i].call = c)
      BY <1>5 DEF StartedIn
    <3>4. \A i \in DOMAIN receipts' :
            receipts'[i].kind = "started" /\ receipts'[i].call = c => receipts'[i] = e
      BY <3>2, <3>3
    <3> QED
      BY <1>3, <2>1, <3>1, <3>4 DEF ReceiptOK
  <2>6. receipts' \in Seq(Events) /\ ReceiptsInv'
    BY <1>1, <1>3, <1>5, <1>6, <1>7, <1>9, <2>1, <2>5, AppendingReceipts
  <2>7. recorder' \in RecorderRecord
    BY <1>1, <1>3, <1>9 DEF RecordsInv, RecorderRecord
  <2> QED
    BY <1>1, <1>8, <1>9, <2>1, <2>2, <2>3, <2>4, <2>6, <2>7 DEF ModelInv, RecordsInv, Only
<1>10. CASE /\ receipts' \in {receipts, Append(receipts, e), Append(receipts, torn)}
            /\ call' = [call EXCEPT ![c] = refused]
            /\ budget' = releaseReservation(c, NoUsage) /\ recorder' = recorder
  <2>1. refused \in CallRecord /\ refused.at = "refused" /\ refused.usage = NoUsage
    BY <1>2 DEF NoCall, CallRecord, CallPlaces, Held, Terminal
  <2> HIDE DEF refused
  <2>2. Only(c) /\ call'[c] = refused
    BY <1>1, <1>10, <2>1 DEF Only, RecordsInv
  <2>3. call[c].at \in Held /\ call'[c].at \notin Held
    BY <1>1, <2>1, <2>2 DEF Held
  <2>4. cost[c].out <= OutputCharge(NoUsage, call[c].out)
    BY <1>2, <1>5 DEF OutputCharge
  <2>5. AccountInv' /\ budget' \in BudgetRecord /\ budget'.requests = budget.requests
    BY <1>1, <1>2, <1>5, <1>10, <2>2, <2>3, <2>4, ReleaseAccount
  <2>6. CallsInv'
    <3>1. CallOK(call'[c], cost'[c])
      BY <1>1, <1>2, <1>5, <2>1, <2>2, BudgetFacts DEF CallOK, Held
    <3> QED
      BY <1>1, <2>2, <3>1, OnlyCalls
  <2>7. RequestsInv'
    <3>1. Admitted' = Admitted \ {c}
      BY <2>1, <2>2 DEF Admitted, Only, Held
    <3>2. Sent' = Sent /\ c \notin Sent
      BY <1>1, <1>5 DEF Sent
    <3> QED
      BY <1>1, <2>5, <3>1, <3>2, KeepRequests DEF RequestsInv
  <2>8. \A l : ReceiptOK(c, call'[c], l)
    BY <2>1, <2>2 DEF ReceiptOK
  <2>9. receipts' \in Seq(Events) /\ ReceiptsInv'
    <3>1. CASE receipts' = receipts
      BY <1>1, <2>2, <2>8, <3>1, KeepReceipts
    <3>2. CASE receipts' = Append(receipts, e)
      BY <1>1, <1>3, <1>5, <1>6, <1>7, <2>2, <2>8, <3>2, AppendingReceipts
    <3>3. CASE receipts' = Append(receipts, torn)
      BY <1>1, <1>3, <1>5, <1>6, <1>7, <2>2, <2>8, <3>3, AppendingReceipts
    <3> QED
      BY <1>10, <3>1, <3>2, <3>3
  <2> QED
    BY <1>1, <1>8, <1>10, <2>2, <2>5, <2>6, <2>7, <2>9 DEF ModelInv, RecordsInv, Only
<1> QED
  BY <1>4, <1>9, <1>10

\* The provider spends no more than was reserved, on a call whose start is
\* recorded.
LEMMA SendToProviderInv ==
  ASSUME ModelInv, NEW c \in Calls, SendToProvider(c)
  PROVE  ModelInv'
<1>1. /\ RecordsInv /\ CallsInv /\ AccountInv /\ RequestsInv /\ ReceiptsInv /\ PhaseInv
      /\ broker = "up" /\ call[c].at = "started" /\ call' = [call EXCEPT ![c].at = "sent"]
      /\ receipts' = receipts /\ recorder' = recorder /\ budget' = budget /\ broker' = broker
      /\ phase' = phase /\ summary' = summary
  BY DEF ModelInv, SendToProvider, Serving, Move
<1>2. PICK used \in {[in |-> call[c].in, out |-> call[c].out], [in |-> 1, out |-> 0]} :
        cost' = [cost EXCEPT ![c] = used]
  BY DEF SendToProvider
<1>3. /\ call[c] \in CallRecord /\ call[c].out \in Nat /\ call[c].in \in Nat /\ call[c].in >= 1
      /\ call[c].in <= MaxTotalInputTokens /\ call[c].usage.in <= MaxTotalInputTokens + 1
      /\ c \in StartedIn(receipts) /\ c \notin EndedIn(receipts)
      /\ \A i \in DOMAIN receipts :
           receipts[i].kind = "started" /\ receipts[i].call = c => receipts[i].max = call[c].out
  BY <1>1, BudgetFacts DEF CallsInv, CallOK, Held, ReceiptsInv, ReceiptOK, RecordsInv, CallRecord
<1>4. used \in Usage /\ used.in <= call[c].in /\ used.out <= call[c].out
  BY <1>3 DEF Usage
<1>5. /\ Only(c) /\ call'[c].at = "sent" /\ call'[c].in = call[c].in
      /\ call'[c].out = call[c].out /\ call'[c].usage = call[c].usage /\ cost'[c] = used
  BY <1>1, <1>2, <1>3, <1>4 DEF Only, RecordsInv, CallRecord, CallPlaces, Held
<1>6. AccountInv'
  BY <1>1, <1>5, KeepAccount DEF Held
<1>7. CallsInv'
  <2>1. CallOK(call'[c], cost'[c])
    BY <1>3, <1>4, <1>5, BudgetFacts DEF CallOK, Held
  <2> QED
    BY <1>1, <1>5, <2>1, OnlyCalls
<1>8. Sent' \subseteq Sent \cup {c}
  BY <1>5 DEF Only, Sent
<1>9. RequestsInv'
  <2>1. Admitted' = Admitted /\ c \in Admitted
    BY <1>1, <1>5 DEF Admitted, Only, Held
  <2> QED
    BY <1>1, <1>8, <2>1, KeepRequests DEF RequestsInv
<1>10. ReceiptsInv'
  <2>1. ASSUME NEW i \in DOMAIN receipts
        PROVE  EventOK(receipts[i], cost'[receipts[i].call])
    <3>1. CASE receipts[i].call = c
      <4>1. receipts[i].kind \notin Terminal
        BY <1>3, <3>1 DEF EndedIn
      <4> QED
        BY <1>1, <1>3, <1>4, <1>5, <3>1, <4>1 DEF EventOK, ReceiptsInv
    <3>2. CASE receipts[i].call # c
      <4>0. receipts[i] \in Events
        BY <1>1 DEF RecordsInv
      <4>1. receipts[i].call \in Calls
        BY <4>0 DEF Events
      <4> QED
        BY <1>1, <1>5, <3>2, <4>1 DEF ReceiptsInv, Only
    <3> QED
      BY <3>1, <3>2
  <2>2. ReceiptOK(c, call'[c], receipts)
    BY <1>3, <1>5 DEF ReceiptOK
  <2>3. \A d \in Calls : ReceiptOK(d, call'[d], receipts)
    BY <1>1, <1>5, <2>2 DEF ReceiptsInv, Only
  <2> QED
    BY <1>1, <1>3, <1>8, <2>1, <2>3 DEF ReceiptsInv
<1>11. PhaseInv'
  BY <1>1, UnderWay DEF Held
<1> QED
  BY <1>1, <1>5, <1>6, <1>7, <1>9, <1>10, <1>11 DEF ModelInv, RecordsInv, Only

\* What is reported may be missing or nonsense.
LEMMA AnswerInv ==
  ASSUME ModelInv, NEW c \in Calls, NEW kind \in Terminal, NEW usage \in Reports(c),
         Answer(c, kind, usage)
  PROVE  ModelInv'
<1>1. /\ RecordsInv /\ CallsInv /\ AccountInv /\ RequestsInv /\ ReceiptsInv /\ PhaseInv
      /\ broker = "up" /\ call[c].at \in {"started", "sent"}
      /\ call' = [call EXCEPT ![c].at = "answered", ![c].phase = kind, ![c].usage = usage]
      /\ receipts' = receipts /\ recorder' = recorder /\ budget' = budget /\ broker' = broker
      /\ cost' = cost /\ phase' = phase /\ summary' = summary
  BY DEF ModelInv, Answer, Serving
<1>2. /\ call[c] \in CallRecord /\ call[c].out \in Nat /\ call[c].in \in Nat
      /\ cost[c] \in Usage /\ cost[c].in <= call[c].in /\ cost[c].out <= call[c].out
      /\ call[c].in \in 1..MaxTotalInputTokens
      /\ c \in StartedIn(receipts) /\ c \notin EndedIn(receipts)
      /\ \A i \in DOMAIN receipts :
           receipts[i].kind = "started" /\ receipts[i].call = c => receipts[i].max = call[c].out
  BY <1>1 DEF CallsInv, CallOK, Held, ReceiptsInv, ReceiptOK, RecordsInv, CallRecord
<1>3. usage \in Usage /\ usage.in <= MaxTotalInputTokens + 1
      /\ usage \in {NoUsage, cost[c], [in |-> MaxTotalInputTokens + 1, out |-> 1]}
  BY <1>2, BudgetFacts DEF Reports, Usage, NoUsage
<1>4. /\ Only(c) /\ call'[c].at = "answered" /\ call'[c].in = call[c].in
      /\ call'[c].out = call[c].out /\ call'[c].usage = usage
  BY <1>1, <1>2, <1>3 DEF Only, RecordsInv, CallRecord, CallPlaces, Held
<1>5. AccountInv'
  BY <1>1, <1>4, KeepAccount DEF Held
<1>6. CallsInv'
  <2>1. CallOK(call'[c], cost'[c])
    BY <1>1, <1>2, <1>3, <1>4, BudgetFacts DEF CallOK, Held
  <2> QED
    BY <1>1, <1>4, <2>1, OnlyCalls
<1>7. RequestsInv'
  <2>1. Admitted' = Admitted /\ Sent' = Sent
    BY <1>1, <1>4 DEF Admitted, Sent, Only, Held
  <2> QED
    BY <1>1, <2>1, KeepRequests DEF RequestsInv
<1>8. ReceiptsInv'
  <2>1. ReceiptOK(c, call'[c], receipts)
    BY <1>2, <1>4 DEF ReceiptOK
  <2> QED
    BY <1>1, <1>4, <2>1, KeepReceipts
<1>9. PhaseInv'
  BY <1>1, UnderWay DEF Held
<1> QED
  BY <1>1, <1>4, <1>5, <1>6, <1>7, <1>8, <1>9 DEF ModelInv, RecordsInv, Only

\* Usage that cannot be right is replaced by an estimate that is high enough.
LEMMA RecordFinishInv ==
  ASSUME ModelInv, NEW c \in Calls, RecordFinish(c)
  PROVE  ModelInv'
<1> DEFINE usage == IF Unusable(c) THEN Estimate(c) ELSE call[c].usage
           kind == IF Unusable(c) /\ call[c].phase = "completed" THEN "unknown" ELSE call[c].phase
           e == Event(recorder.sequence + 1, c, kind, usage)
           torn == [e EXCEPT !.kind = "torn"]
<1>1. /\ RecordsInv /\ CallsInv /\ AccountInv /\ RequestsInv /\ ReceiptsInv /\ PhaseInv
      /\ broker = "up" /\ call[c].at = "answered"
      /\ call' = [call EXCEPT ![c].at = "finished", ![c].usage = usage, ![c].phase = kind]
      /\ budget' = budget /\ broker' = broker
      /\ cost' = cost /\ phase' = phase /\ summary' = summary
  BY DEF ModelInv, RecordFinish, Serving
<1>2. /\ call[c] \in CallRecord /\ call[c].out \in Nat /\ call[c].in \in Nat
      /\ call[c].phase \in Terminal /\ call[c].usage \in Usage
      /\ cost[c] \in Usage /\ cost[c].in <= call[c].in /\ cost[c].out <= call[c].out
      /\ call[c].in \in 1..MaxTotalInputTokens
      /\ call[c].usage \in {NoUsage, cost[c], [in |-> MaxTotalInputTokens + 1, out |-> 1]}
      /\ c \in StartedIn(receipts) /\ c \notin EndedIn(receipts)
  BY <1>1 DEF CallsInv, CallOK, Held, ReceiptsInv, ReceiptOK, RecordsInv, CallRecord
<1>3. /\ usage \in Usage /\ kind \in Terminal /\ usage.in <= MaxTotalInputTokens + 1
      /\ cost[c].in <= usage.in /\ cost[c].out <= OutputCharge(usage, call[c].out)
  <2>1. CASE Unusable(c)
    BY <1>2, <2>1, BudgetFacts DEF Estimate, Usage, OutputCharge, Terminal
  <2>2. CASE ~Unusable(c)
    <3>1. call[c].usage # NoUsage /\ call[c].usage # [in |-> MaxTotalInputTokens + 1, out |-> 1]
      BY <2>2, BudgetFacts DEF Unusable, NoUsage
    <3> QED
      BY <1>2, <2>2, <3>1, BudgetFacts DEF Usage, OutputCharge
  <2> QED
    BY <2>1, <2>2
<1>4. \/ /\ receipts' = Append(receipts, e)
         /\ recorder' = [sequence |-> e.seq, pending |-> recorder.pending \ {c}]
      \/ receipts' \in {receipts, Append(receipts, e), Append(receipts, torn)}
         /\ recorder' = recorder
  BY DEF RecordFinish, Appended, AppendFails
<1> HIDE DEF usage, kind
<1>5. /\ e \in Events /\ e.seq = recorder.sequence + 1 /\ e.call = c /\ e.kind = kind
      /\ e.usage = usage /\ e.max = call[c].out
      /\ torn \in Events /\ torn.kind = "torn" /\ torn.call = c
  BY <1>1, <1>3, EventType DEF Kinds
<1> HIDE DEF e, torn
<1>6. "started" \notin Terminal /\ "torn" \notin Terminal
  BY DEF Terminal
<1>7. EventOK(e, cost[c]) /\ EventOK(torn, cost[c])
  BY <1>3, <1>5, <1>6 DEF EventOK
<1>8. /\ Only(c) /\ call'[c].at = "finished" /\ call'[c].in = call[c].in
      /\ call'[c].out = call[c].out /\ call'[c].usage = usage
  BY <1>1, <1>2, <1>3 DEF Only, RecordsInv, CallRecord, CallPlaces, Held
<1>9. AccountInv'
  BY <1>1, <1>8, KeepAccount DEF Held
<1>10. CallsInv'
  <2>1. CallOK(call'[c], cost'[c])
    BY <1>1, <1>2, <1>3, <1>8 DEF CallOK, Held
  <2> QED
    BY <1>1, <1>8, <2>1, OnlyCalls
<1>11. RequestsInv'
  <2>1. Admitted' = Admitted /\ Sent' = Sent
    BY <1>1, <1>8 DEF Admitted, Sent, Only, Held
  <2> QED
    BY <1>1, <2>1, KeepRequests DEF RequestsInv
<1>12. receipts' \in Seq(Events) /\ ReceiptsInv'
  <2>1. \A l : ReceiptOK(c, call'[c], l)
    BY <1>8 DEF ReceiptOK
  <2>2. CASE receipts' = receipts
    BY <1>1, <1>8, <2>1, <2>2, KeepReceipts
  <2>3. CASE receipts' = Append(receipts, e)
    BY <1>1, <1>2, <1>3, <1>5, <1>6, <1>7, <1>8, <2>1, <2>3, AppendingReceipts
  <2>4. CASE receipts' = Append(receipts, torn)
    BY <1>1, <1>5, <1>6, <1>7, <1>8, <2>1, <2>4, AppendingReceipts
  <2> QED
    BY <1>4, <2>2, <2>3, <2>4
<1>13. recorder' \in RecorderRecord
  BY <1>1, <1>4, <1>5 DEF RecordsInv, RecorderRecord
<1>14. PhaseInv'
  BY <1>1, UnderWay DEF Held
<1> QED
  BY <1>1, <1>8, <1>9, <1>10, <1>11, <1>12, <1>13, <1>14 DEF ModelInv, RecordsInv, Only

\* What a call has reserved is exchanged for what it is charged.
LEMMA ReleaseInv ==
  ASSUME ModelInv, NEW c \in Calls, Release(c)
  PROVE  ModelInv'
<1> DEFINE done == [NoCall EXCEPT !.at = "done"]
<1>1. /\ RecordsInv /\ CallsInv /\ AccountInv /\ RequestsInv /\ ReceiptsInv /\ PhaseInv
      /\ broker = "up" /\ call[c].at = "finished" /\ call' = [call EXCEPT ![c] = done]
      /\ budget' = releaseReservation(c, call[c].usage)
      /\ receipts' = receipts /\ recorder' = recorder /\ cost' = cost /\ broker' = broker
      /\ phase' = phase /\ summary' = summary
  BY DEF ModelInv, Release, Serving, Return
<1>2. done \in CallRecord /\ done.at = "done" /\ done.usage = NoUsage /\ NoUsage.in = 0
  BY DEF NoCall, NoUsage, Usage, CallRecord, CallPlaces, Held, Terminal
<1> HIDE DEF done
<1>3. Only(c) /\ call'[c] = done
  BY <1>1, <1>2 DEF Only, RecordsInv
<1>4. /\ call[c].at \in Held /\ call'[c].at \notin Held /\ call[c].usage \in Usage
      /\ cost[c].in <= call[c].usage.in /\ cost[c].out <= OutputCharge(call[c].usage, call[c].out)
      /\ cost[c].in <= call[c].in /\ cost[c].out <= call[c].out
  BY <1>1, <1>2, <1>3 DEF Held, CallsInv, CallOK, RecordsInv, CallRecord
<1>5. AccountInv' /\ budget' \in BudgetRecord /\ budget'.requests = budget.requests
  BY <1>1, <1>3, <1>4, ReleaseAccount
<1>6. CallsInv'
  <2>1. CallOK(call'[c], cost'[c])
    BY <1>2, <1>3, BudgetFacts DEF CallOK, Held
  <2> QED
    BY <1>1, <1>3, <2>1, OnlyCalls
<1>7. RequestsInv'
  <2>1. Admitted' = Admitted /\ Sent' = Sent
    BY <1>1, <1>2, <1>3 DEF Admitted, Sent, Only, Held
  <2> QED
    BY <1>1, <1>5, <2>1, KeepRequests DEF RequestsInv
<1>8. receipts' \in Seq(Events) /\ ReceiptsInv'
  <2>1. ReceiptOK(c, call'[c], receipts)
    BY <1>2, <1>3 DEF ReceiptOK
  <2> QED
    BY <1>1, <1>3, <2>1, KeepReceipts
<1>9. PhaseInv'
  BY <1>1, UnderWay DEF Held
<1> QED
  BY <1>1, <1>3, <1>5, <1>6, <1>7, <1>8, <1>9 DEF ModelInv, RecordsInv, Only

-----------------------------------------------------------------------------
(* The broker and the daemon *)

\* Nothing adds up to nothing.
LEMMA NoTotal ==
  ASSUME NEW f \in [Calls -> Nat], \A c \in Calls : f[c] = 0
  PROVE  Total(f) = 0
<1>1. {} \in SUBSET Calls /\ \A c \in Calls \ {} : f[c] = 0
  OBVIOUS
<1>2. SumFunctionOnSet(f, Calls) = SumFunctionOnSet(f, {})
  BY <1>1, BudgetFacts, SumSupport
<1>3. SumFunctionOnSet(f, {}) = 0
  BY BudgetFacts, SumStep
<1> QED
  BY <1>2, <1>3 DEF Total

CostIn == [c \in Calls |-> cost[c].in]
CostOut == [c \in Calls |-> cost[c].out]

\* What all calls have cost is covered by what is held and what was paid.
LEMMA CostCovered ==
  ASSUME RecordsInv, CallsInv
  PROVE  /\ CostIn \in [Calls -> Nat] /\ CostOut \in [Calls -> Nat]
         /\ Total(CostIn) \in Nat /\ Total(CostIn) <= Total(HeldIn) + Total(PaidIn)
         /\ Total(CostOut) \in Nat /\ Total(CostOut) <= Total(HeldOut) + Total(PaidOut)
<1>1. CostIn \in [Calls -> Nat] /\ CostOut \in [Calls -> Nat]
  BY DEF RecordsInv, Usage, CostIn, CostOut
<1>2. /\ HeldIn \in [Calls -> Nat] /\ HeldOut \in [Calls -> Nat]
      /\ PaidIn \in [Calls -> Nat] /\ PaidOut \in [Calls -> Nat]
  BY Totals
<1>3. \A c \in Calls : /\ CostIn[c] <= HeldIn[c] + PaidIn[c]
                       /\ CostOut[c] <= HeldOut[c] + PaidOut[c]
  BY DEF RecordsInv, CallRecord, Usage, CallsInv, CallOK, CostIn, CostOut, HeldIn, HeldOut,
         PaidIn, PaidOut
<1>4. ASSUME NEW f \in [Calls -> Nat], NEW g \in [Calls -> Nat], NEW h \in [Calls -> Nat],
             \A c \in Calls : f[c] <= g[c] + h[c]
      PROVE  Total(f) \in Nat /\ Total(f) <= Total(g) + Total(h)
  <2> DEFINE k == [c \in Calls |-> g[c] + h[c]]
  <2>1. k \in [Calls -> Nat] /\ \A c \in Calls : k[c] = g[c] + h[c] /\ f[c] <= k[c]
    BY <1>4
  <2> HIDE DEF k
  <2>2. SumFunctionOnSet(k, Calls) = SumFunctionOnSet(g, Calls) + SumFunctionOnSet(h, Calls)
    BY <2>1, BudgetFacts, SumAdded
  <2>3. SumFunctionOnSet(f, Calls) <= SumFunctionOnSet(k, Calls)
    BY <2>1, BudgetFacts, SumMonotone
  <2>4. SumFunctionOnSet(f, Calls) \in Nat
    BY BudgetFacts, SumStep
  <2> QED
    BY <2>2, <2>3, <2>4 DEF Total
<1> QED
  BY <1>1, <1>2, <1>3, <1>4

\* With the broker go its reservations; what the calls cost stays.
LEMMA GoneInv ==
  ASSUME ModelInv, Gone, receipts' = receipts, cost' = cost
  PROVE  /\ RecordsInv' /\ CallsInv' /\ AccountInv' /\ RequestsInv' /\ ReceiptsInv'
         /\ \A c \in Calls : call'[c].at = "refused"
<1> DEFINE refused == [NoCall EXCEPT !.at = "refused"]
<1>1. /\ RecordsInv /\ CallsInv /\ AccountInv /\ RequestsInv /\ ReceiptsInv
      /\ broker' = "none" /\ recorder' = NewRecorder /\ budget' = NewBudget
      /\ call' = [c \in Calls |-> refused]
  BY DEF ModelInv, Gone
<1>2. /\ refused \in CallRecord /\ refused.at = "refused" /\ refused.usage = NoUsage
      /\ NoUsage.in = 0
  BY DEF NoCall, NoUsage, Usage, CallRecord, CallPlaces, Held, Terminal
<1> HIDE DEF refused
<1>3. \A c \in Calls : call'[c] = refused
  BY <1>1
<1>4. RecordsInv'
  <2>1. NewRecorder \in RecorderRecord
    BY DEF NewRecorder, RecorderRecord
  <2>2. NewBudget \in BudgetRecord
    BY BudgetFacts DEF NewBudget, BudgetRecord
  <2>3. call' \in [Calls -> CallRecord]
    BY <1>1, <1>2
  <2> QED
    BY <1>1, <2>1, <2>2, <2>3 DEF RecordsInv
<1>5. CallsInv'
  BY <1>2, <1>3, BudgetFacts DEF CallsInv, CallOK, Held
<1>6. AccountInv'
  <2>1. /\ HeldIn' \in [Calls -> Nat] /\ \A c \in Calls : HeldIn'[c] = 0
        /\ HeldOut' \in [Calls -> Nat] /\ \A c \in Calls : HeldOut'[c] = 0
    BY <1>2, <1>3 DEF HeldIn, HeldOut, Held
  <2>2. PaidIn' = CostIn /\ PaidOut' = CostOut
    BY <1>2, <1>3 DEF PaidIn, PaidOut, CostIn, CostOut, Held
  <2>3. Total(HeldIn') = 0 /\ Total(HeldOut') = 0
    BY <2>1, NoTotal
  <2>4. /\ Total(HeldIn) \in Nat /\ Total(HeldOut) \in Nat
        /\ Total(PaidIn) \in Nat /\ Total(PaidOut) \in Nat
    BY <1>1, Totals
  <2>5. /\ Total(CostIn) \in Nat /\ Total(CostIn) <= MaxTotalInputTokens
        /\ Total(CostOut) \in Nat /\ Total(CostOut) <= MaxTotalOutputTokens
    BY <1>1, <2>4, CostCovered, BudgetFacts DEF AccountInv, Balanced
  <2>6. NewBudget.reservedIn = 0 /\ NewBudget.reservedOut = 0
    BY DEF NewBudget
  <2> QED
    BY <1>1, <2>2, <2>3, <2>5, <2>6 DEF AccountInv, Balanced
<1>7. RequestsInv'
  <2>1. NewBudget.requests = 0
    BY DEF NewBudget
  <2> QED
    BY <1>1, <2>1, BudgetFacts DEF RequestsInv, Sent
<1>8. ReceiptsInv'
  BY <1>1, <1>2, <1>3 DEF ReceiptsInv, ReceiptOK, Sent
<1> QED
  BY <1>2, <1>3, <1>4, <1>5, <1>6, <1>7, <1>8

\* Nothing but the phase changes.
LEMMA PhaseOnly ==
  ASSUME ModelInv, PhaseInv',
         UNCHANGED <<receipts, recorder, budget, call, cost, broker>>
  PROVE  ModelInv'
BY DEF ModelInv, RecordsInv, CallsInv, AccountInv, Balanced, HeldIn, HeldOut,
       PaidIn, PaidOut, RequestsInv, Sent, Admitted, ReceiptsInv

\* The broker dies.
LEMMA BrokerDiesInv ==
  ASSUME ModelInv, BrokerDies
  PROVE  ModelInv'
<1>1. /\ phase \in {"running", "adrift"} /\ Gone /\ receipts' = receipts /\ cost' = cost
      /\ phase' = phase /\ summary' = summary
  BY DEF BrokerDies
<1>2. PhaseInv'
  BY <1>1 DEF ModelInv, PhaseInv, SummaryComplete
<1> QED
  BY <1>1, <1>2, GoneInv DEF ModelInv

\* The broker is removed.
LEMMA RemoveModelBrokerInv ==
  ASSUME ModelInv, RemoveModelBroker
  PROVE  ModelInv'
<1>1. /\ phase \in {"remove", "adrift", "crashed"} /\ receipts' = receipts /\ cost' = cost
      /\ summary' = summary
      /\ \/ Gone /\ phase' = "finalize"
         \/ /\ phase' = "crashed" /\ broker' = broker /\ recorder' = recorder
            /\ budget' = budget /\ call' = call
  BY DEF RemoveModelBroker
<1>2. summary = NoSummary
  BY <1>1 DEF ModelInv, PhaseInv
<1>3. CASE Gone /\ phase' = "finalize"
  <2>1. PhaseInv'
    BY <1>1, <1>2, <1>3, GoneInv DEF PhaseInv, SummaryComplete, Held
  <2> QED
    BY <1>1, <1>3, <2>1, GoneInv DEF ModelInv
<1>4. CASE /\ phase' = "crashed" /\ broker' = broker /\ recorder' = recorder
           /\ budget' = budget /\ call' = call
  <2>1. PhaseInv'
    BY <1>1, <1>2, <1>4 DEF PhaseInv, SummaryComplete
  <2> QED
    BY <1>1, <1>4, <2>1, PhaseOnly
<1> QED
  BY <1>1, <1>3, <1>4

\* The agent ends; the broker goes on.
LEMMA AgentEndsInv ==
  ASSUME ModelInv, AgentEnds
  PROVE  ModelInv'
<1>1. PhaseInv'
  BY DEF ModelInv, AgentEnds, PhaseInv, SummaryComplete
<1> QED
  BY <1>1, PhaseOnly DEF AgentEnds

\* The daemon crashes; the broker and its calls go on.
LEMMA DaemonCrashesInv ==
  ASSUME ModelInv, DaemonCrashes
  PROVE  ModelInv'
<1>1. PhaseInv'
  BY DEF ModelInv, DaemonCrashes, PhaseInv, SummaryComplete
<1> QED
  BY <1>1, PhaseOnly DEF DaemonCrashes

-----------------------------------------------------------------------------
(* Closing the ledger *)

\* SetToSeq lists every element once.
LEMMA Listed ==
  ASSUME NEW S, IsFiniteSet(S)
  PROVE  LET s == SetToSeq(S) IN
         /\ Cardinality(S) \in Nat /\ s \in [1..Cardinality(S) -> S] /\ Len(s) = Cardinality(S)
         /\ \A i, j \in 1..Cardinality(S) : s[i] = s[j] => i = j
         /\ \A x \in S : \E i \in 1..Cardinality(S) : s[i] = x
<1> DEFINE n == Cardinality(S)
           s == SetToSeq(S)
<1>1. n \in Nat /\ \E f \in [1..n -> S] : IsInjective(f)
  <2>1. n \in Nat /\ ExistsBijection(1..n, S)
    BY FS_CardinalityType
  <2>2. PICK f \in Bijection(1..n, S) : TRUE
    BY <2>1 DEF ExistsBijection
  <2>3. f \in [1..n -> S] /\ \A a, b \in 1..n : f[a] = f[b] => a = b
    BY <2>2 DEF Bijection, Injection, IsInjective
  <2> QED
    BY <2>1, <2>3 DEF IsInjective
<1>2. s \in [1..n -> S] /\ IsInjective(s)
  BY <1>1 DEF SetToSeq
<1> HIDE DEF s, n
<1>3. \A i, j \in 1..n : s[i] = s[j] => i = j
  BY <1>2 DEF IsInjective
<1>4. s \in Surjection(1..n, S)
  <2>1. s \in Injection(1..n, S)
    BY <1>2, <1>3 DEF Injection
  <2>2. Cardinality(1..n) = n
    BY <1>1, FS_Interval
  <2> QED
    BY <1>1, <2>1, <2>2, FS_Injection DEF n
<1>5. \A x \in S : \E i \in 1..n : s[i] = x
  BY <1>4 DEF Surjection
<1>6. s \in Seq(S) /\ Len(s) = n
  BY <1>1, <1>2
<1> QED
  BY <1>1, <1>2, <1>3, <1>5, <1>6 DEF s, n

\* The calls that have started and not ended.
Open(l) == StartedIn(l) \ EndedIn(l)

\* What Close adds: one event per open call, with what its start said.
LEMMA Closing ==
  ASSUME NEW l \in Seq(Events)
  PROVE  LET k == Close(l) IN
         /\ k \in Seq(Events) /\ DOMAIN l \subseteq DOMAIN k
         /\ \A i \in DOMAIN l : k[i] = l[i]
         /\ \A i \in DOMAIN k \ DOMAIN l :
              /\ k[i].kind = "unknown" /\ k[i].call \in Open(l)
              /\ \E j \in DOMAIN l : /\ l[j].kind = "started" /\ l[j].call = k[i].call
                                     /\ k[i].usage = l[j].usage /\ k[i].max = l[j].max
         /\ \A i, j \in DOMAIN k \ DOMAIN l : k[i].call = k[j].call => i = j
         /\ \A c \in Open(l) : \E i \in DOMAIN k \ DOMAIN l : k[i].call = c
         /\ Open(l) = {} => k = l
<1> DEFINE s == SetToSeq(Open(l))
           n == Cardinality(Open(l))
           m == Len(l)
           t == [i \in 1..n |-> [StartOf(l, s[i]) EXCEPT !.seq = m + i, !.kind = "unknown"]]
           k == l \o t
<1>1. IsFiniteSet(Open(l))
  <2>1. \A i \in DOMAIN l : l[i].call \in Calls
    <3>1. \A i \in DOMAIN l : l[i] \in Events
      OBVIOUS
    <3> QED
      BY <3>1 DEF Events
  <2>2. Open(l) \in SUBSET Calls
    BY <2>1 DEF Open, StartedIn
  <2> QED
    BY <2>2, BudgetFacts, FS_Subset
<1>2. /\ n \in Nat /\ s \in [1..n -> Open(l)] /\ Len(s) = n
      /\ \A i, j \in 1..n : s[i] = s[j] => i = j
      /\ \A x \in Open(l) : \E i \in 1..n : s[i] = x
  BY <1>1, Listed
<1>3. Close(l) = k
  BY <1>2 DEF Close, Open
<1> HIDE DEF s, n
<1>4. ASSUME NEW c \in Open(l)
      PROVE  \E j \in DOMAIN l : l[j].call = c /\ l[j].kind = "started" /\ StartOf(l, c) = l[j]
  <2>1. \E j \in DOMAIN l : l[j].call = c /\ l[j].kind = "started"
    BY <1>4 DEF Open, StartedIn
  <2> DEFINE j == CHOOSE i \in DOMAIN l : l[i].call = c /\ l[i].kind = "started"
  <2>2. j \in DOMAIN l /\ l[j].call = c /\ l[j].kind = "started"
    BY <2>1
  <2>3. StartOf(l, c) = l[j]
    BY DEF StartOf
  <2> QED
    BY <2>2, <2>3
<1>5. m \in Nat /\ DOMAIN l = 1..m
  OBVIOUS
<1>6. ASSUME NEW i \in 1..n
      PROVE  /\ t[i] \in Events /\ t[i].kind = "unknown" /\ t[i].call = s[i] /\ s[i] \in Open(l)
             /\ \E j \in DOMAIN l : /\ l[j].kind = "started" /\ l[j].call = t[i].call
                                    /\ t[i].usage = l[j].usage /\ t[i].max = l[j].max
  <2>1. s[i] \in Open(l)
    BY <1>2
  <2>2. PICK j \in DOMAIN l : /\ l[j].call = s[i] /\ l[j].kind = "started"
                              /\ StartOf(l, s[i]) = l[j]
    BY <1>4, <2>1
  <2>3. l[j] \in Events
    OBVIOUS
  <2>4. t[i] = [l[j] EXCEPT !.seq = m + i, !.kind = "unknown"]
    BY <2>2
  <2>5. t[i] = [seq |-> m + i, call |-> l[j].call, kind |-> "unknown", usage |-> l[j].usage,
                max |-> l[j].max]
    BY <2>3, <2>4 DEF Events
  <2> HIDE DEF t
  <2>6. m + i \in Nat
    BY <1>2, <1>5
  <2>7. t[i] \in Events
    BY <2>3, <2>5, <2>6 DEF Events, Kinds, Terminal
  <2> QED
    BY <2>1, <2>2, <2>5, <2>7
<1>7. t \in Seq(Events) /\ Len(t) = n /\ DOMAIN t = 1..n
  <2>1. t \in [1..n -> Events]
    BY <1>6
  <2> HIDE DEF t, k, m
  <2> QED
    BY <1>2, <2>1
<1> HIDE DEF t, m
<1>8. /\ k \in Seq(Events) /\ DOMAIN k = 1..(m + n)
      /\ \A i \in 1..m : k[i] = l[i]
      /\ \A i \in 1..(m + n) : i > m => i - m \in 1..n /\ k[i] = t[i - m]
      /\ \A i \in 1..n : m + i \in 1..(m + n) /\ ~(m + i \in 1..m) /\ k[m + i] = t[i]
  BY <1>2, <1>5, <1>7 DEF m
<1> HIDE DEF k
<1>9. \A i \in DOMAIN k \ DOMAIN l : i \in Nat /\ i - m \in 1..n /\ k[i] = t[i - m]
  BY <1>2, <1>5, <1>8
<1>10. DOMAIN l \subseteq DOMAIN k /\ \A i \in DOMAIN l : k[i] = l[i]
  BY <1>2, <1>5, <1>8
<1>11. \A i \in DOMAIN k \ DOMAIN l :
          /\ k[i].kind = "unknown" /\ k[i].call \in Open(l)
          /\ \E j \in DOMAIN l : /\ l[j].kind = "started" /\ l[j].call = k[i].call
                                 /\ k[i].usage = l[j].usage /\ k[i].max = l[j].max
  BY <1>6, <1>9
<1>12. ASSUME NEW i \in DOMAIN k \ DOMAIN l, NEW j \in DOMAIN k \ DOMAIN l,
              k[i].call = k[j].call
       PROVE  i = j
  <2>1. /\ i \in Nat /\ i - m \in 1..n /\ k[i] = t[i - m]
        /\ j \in Nat /\ j - m \in 1..n /\ k[j] = t[j - m]
    BY <1>9
  <2>2. s[i - m] = s[j - m]
    BY <1>6, <1>12, <2>1
  <2>3. i - m = j - m
    BY <1>2, <2>1, <2>2
  <2> QED
    BY <1>5, <2>1, <2>3
<1>13. ASSUME NEW c \in Open(l)
       PROVE  \E i \in DOMAIN k \ DOMAIN l : k[i].call = c
  <2>1. PICK i \in 1..n : s[i] = c
    BY <1>2
  <2>2. m + i \in DOMAIN k \ DOMAIN l /\ k[m + i] = t[i]
    BY <1>5, <1>8
  <2> QED
    BY <1>6, <2>1, <2>2
<1>14. Open(l) = {} => k = l
  <2> SUFFICES ASSUME Open(l) = {}
               PROVE  k = l
    OBVIOUS
  <2>1. n = 0
    BY FS_EmptySet DEF n
  <2>2. DOMAIN k = DOMAIN l /\ k \in Seq(Events)
    BY <1>5, <1>8, <2>1
  <2>3. Len(k) = Len(l) /\ \A i \in 1..Len(l) : k[i] = l[i]
    BY <1>5, <1>8, <2>2 DEF m
  <2> QED
    BY <2>2, <2>3
<1> QED
  BY <1>3, <1>8, <1>10, <1>11, <1>12, <1>13, <1>14

\* A closed ledger has one start and one end of every call that was started.
LEMMA ClosedLedger ==
  ASSUME NEW l \in Seq(Events), OneEach(l),
         \A i \in DOMAIN l : EventOK(l[i], cost[l[i].call]), RecordsInv
  PROVE  LET k == Close(l) IN
         /\ k \in Seq(Events) /\ OneEach(k)
         /\ StartedIn(k) = StartedIn(l) /\ EndedIn(k) = StartedIn(l)
         /\ \A i \in DOMAIN k : EventOK(k[i], cost[k[i].call])
<1> DEFINE k == Close(l)
           New == DOMAIN k \ DOMAIN l
<1>1. /\ k \in Seq(Events) /\ DOMAIN l \subseteq DOMAIN k
      /\ \A i \in DOMAIN l : k[i] = l[i]
      /\ \A i \in New :
           /\ k[i].kind = "unknown" /\ k[i].call \in Open(l)
           /\ \E j \in DOMAIN l : /\ l[j].kind = "started" /\ l[j].call = k[i].call
                                  /\ k[i].usage = l[j].usage /\ k[i].max = l[j].max
      /\ \A i, j \in New : k[i].call = k[j].call => i = j
      /\ \A c \in Open(l) : \E i \in New : k[i].call = c
  BY Closing
<1>2. \A i \in DOMAIN k : i \in DOMAIN l \/ i \in New
  OBVIOUS
<1>3. \A i \in New : i \in DOMAIN k /\ i \notin DOMAIN l
  OBVIOUS
<1> HIDE DEF k, New
<1>4. "unknown" \in Terminal /\ "unknown" # "started" /\ "started" \notin Terminal
  BY DEF Terminal
<1>5. StartedIn(k) = StartedIn(l)
  <2>1. \A c : c \in StartedIn(k) <=> c \in StartedIn(l)
    BY <1>1, <1>2, <1>3, <1>4 DEF StartedIn
  <2> QED
    BY <2>1
<1>6. ASSUME NEW c
      PROVE  c \in EndedIn(k) <=> c \in EndedIn(l) \/ c \in Open(l)
  BY <1>1, <1>2, <1>3, <1>4 DEF EndedIn
<1>7. EndedIn(k) = StartedIn(l)
  <2>1. \A c : c \in EndedIn(k) <=> c \in StartedIn(l)
    BY <1>6 DEF OneEach, Open
  <2> QED
    BY <2>1
<1>8. \A i, j \in DOMAIN k : k[i].kind = "started" /\ k[j].kind = "started"
                               /\ k[i].call = k[j].call => i = j
  BY <1>1, <1>2, <1>4 DEF OneEach
<1>9. \A i, j \in DOMAIN k : k[i].kind \in Terminal /\ k[j].kind \in Terminal
                               /\ k[i].call = k[j].call => i = j
  <2>1. \A i \in DOMAIN l : l[i].kind \in Terminal => l[i].call \notin Open(l)
    BY DEF EndedIn, Open
  <2> QED
    BY <1>1, <1>2, <2>1 DEF OneEach
<1>10. ASSUME NEW i \in DOMAIN k
       PROVE  EventOK(k[i], cost[k[i].call])
  <2>1. CASE i \in DOMAIN l
    BY <1>1, <2>1
  <2>2. CASE i \in New
    <3>1. PICK j \in DOMAIN l : /\ l[j].kind = "started" /\ l[j].call = k[i].call
                                /\ k[i].usage = l[j].usage /\ k[i].max = l[j].max
      BY <1>1, <2>2
    <3>2. k[i].usage = NoUsage /\ cost[k[i].call].out <= k[i].max
      BY <3>1 DEF EventOK
    <3> QED
      BY <1>1, <2>2, <3>2, <1>4 DEF EventOK, OutputCharge, NoUsage
  <2> QED
    BY <1>2, <2>1, <2>2
<1> QED
  BY <1>1, <1>5, <1>7, <1>8, <1>9, <1>10 DEF OneEach, k

\* Events that are about different calls are as many as their calls.
LEMMA CountOnce ==
  ASSUME NEW l \in Seq(Events), NEW kinds,
         \A i, j \in DOMAIN l : l[i].kind \in kinds /\ l[j].kind \in kinds
                                  /\ l[i].call = l[j].call => i = j
  PROVE  LET about == {l[i].call : i \in {j \in DOMAIN l : l[j].kind \in kinds}} IN
         /\ Count(l, kinds) \in Nat /\ IsFiniteSet(about) /\ Cardinality(about) = Count(l, kinds)
<1> DEFINE I == {i \in DOMAIN l : l[i].kind \in kinds}
           about == {l[i].call : i \in I}
           f == [i \in I |-> l[i].call]
<1>1. IsFiniteSet(I) /\ Cardinality(I) \in Nat
  <2>1. Len(l) \in Nat /\ DOMAIN l = 1..Len(l)
    OBVIOUS
  <2>2. IsFiniteSet(DOMAIN l)
    BY <2>1, FS_Interval
  <2> QED
    BY <2>2, FS_Subset, FS_CardinalityType
<1>2. f \in Bijection(I, about)
  <2>1. f \in [I -> about]
    OBVIOUS
  <2>2. \A i, j \in I : f[i] = f[j] => i = j
    OBVIOUS
  <2>3. \A x \in about : \E i \in I : f[i] = x
    OBVIOUS
  <2> HIDE DEF f, I, about
  <2> QED
    BY <2>1, <2>2, <2>3 DEF Bijection, Injection, Surjection, IsInjective
<1>3. ExistsBijection(I, about)
  BY <1>2 DEF ExistsBijection
<1>4. IsFiniteSet(about) /\ Cardinality(about) = Cardinality(I)
  <2> HIDE DEF I, about, f
  <2> QED
    BY <1>1, <1>3, FS_Bijection
<1> QED
  BY <1>1, <1>4 DEF Count

\* Every outcome is counted once.
LEMMA CountOutcomes ==
  ASSUME NEW l \in Seq(Events)
  PROVE  /\ Count(l, Terminal) = Count(l, {"completed"}) + Count(l, {"failed"})
                                   + Count(l, {"unknown"})
         /\ Count(l, {"completed"}) \in Nat /\ Count(l, {"failed"}) \in Nat
         /\ Count(l, {"unknown"}) \in Nat
<1> DEFINE I(kinds) == {i \in DOMAIN l : l[i].kind \in kinds}
           C == I({"completed"})
           F == I({"failed"})
           U == I({"unknown"})
<1>1. IsFiniteSet(DOMAIN l)
  <2>1. Len(l) \in Nat /\ DOMAIN l = 1..Len(l)
    OBVIOUS
  <2> QED
    BY <2>1, FS_Interval
<1>2. C \in SUBSET DOMAIN l /\ F \in SUBSET DOMAIN l /\ U \in SUBSET DOMAIN l
  OBVIOUS
<1>3. C \cap F = {} /\ (C \cup F) \cap U = {} /\ I(Terminal) = (C \cup F) \cup U
  BY DEF Terminal
<1>4. /\ Count(l, Terminal) = Cardinality(I(Terminal)) /\ Count(l, {"completed"}) = Cardinality(C)
      /\ Count(l, {"failed"}) = Cardinality(F) /\ Count(l, {"unknown"}) = Cardinality(U)
  BY DEF Count
<1> HIDE DEF C, F, U, I
<1>5. /\ IsFiniteSet(C) /\ IsFiniteSet(F) /\ IsFiniteSet(U)
      /\ Cardinality(C) \in Nat /\ Cardinality(F) \in Nat /\ Cardinality(U) \in Nat
  BY <1>1, <1>2, FS_Subset, FS_CardinalityType
<1>6. IsFiniteSet(C \cup F) /\ Cardinality(C \cup F) = Cardinality(C) + Cardinality(F)
  <2>1. /\ IsFiniteSet(C \cup F)
        /\ Cardinality(C \cup F) = Cardinality(C) + Cardinality(F) - Cardinality(C \cap F)
    BY <1>5, FS_Union
  <2>2. Cardinality(C \cap F) = 0
    BY <1>3, FS_EmptySet
  <2> QED
    BY <1>5, <2>1, <2>2
<1>7. Cardinality((C \cup F) \cup U) = Cardinality(C \cup F) + Cardinality(U)
  <2>1. Cardinality((C \cup F) \cup U)
          = Cardinality(C \cup F) + Cardinality(U) - Cardinality((C \cup F) \cap U)
    BY <1>5, <1>6, FS_Union
  <2>2. Cardinality((C \cup F) \cap U) = 0
    BY <1>3, FS_EmptySet
  <2> QED
    BY <1>5, <1>6, <2>1, <2>2
<1> QED
  BY <1>3, <1>4, <1>5, <1>6, <1>7

\* What a closed ledger charges for the output is not less than it cost.
LEMMA OutputCharged ==
  ASSUME NEW l \in Seq(Events), RecordsInv, CallsInv, AccountInv,
         \A i \in DOMAIN l : EventOK(l[i], cost[l[i].call]), Sent \subseteq EndedIn(l)
  PROVE  OutputOf(l) >= SpentOut
<1> DEFINE charge == [i \in DOMAIN l |-> IF l[i].kind \in Terminal
                                         THEN OutputCharge(l[i].usage, l[i].max) ELSE 0]
           at == [c \in Sent |-> CHOOSE i \in DOMAIN l : l[i].kind \in Terminal /\ l[i].call = c]
<1>1. IsFiniteSet(DOMAIN l) /\ DOMAIN l \in SUBSET DOMAIN l
  <2>1. Len(l) \in Nat /\ DOMAIN l = 1..Len(l)
    OBVIOUS
  <2>2. IsFiniteSet(DOMAIN l)
    BY <2>1, FS_Interval
  <2> QED
    BY <2>2
<1>2. charge \in [DOMAIN l -> Nat]
  <2>1. \A i \in DOMAIN l : l[i] \in Events
    OBVIOUS
  <2>2. \A i \in DOMAIN l : OutputCharge(l[i].usage, l[i].max) \in Nat
    BY <2>1 DEF Events, Usage, OutputCharge
  <2> QED
    BY <2>2
<1>3. ASSUME NEW c \in Sent
      PROVE  /\ at[c] \in DOMAIN l /\ l[at[c]].kind \in Terminal /\ l[at[c]].call = c
             /\ CostOut[c] <= charge[at[c]]
  <2>1. \E i \in DOMAIN l : l[i].kind \in Terminal /\ l[i].call = c
    BY DEF EndedIn
  <2>2. at[c] \in DOMAIN l /\ l[at[c]].kind \in Terminal /\ l[at[c]].call = c
    BY <2>1
  <2>3. c \in Calls
    BY DEF Sent
  <2> HIDE DEF at
  <2> QED
    BY <2>2, <2>3 DEF EventOK, CostOut
<1>4. at \in [Sent -> DOMAIN l] /\ \A x, y \in Sent : at[x] = at[y] => x = y
  <2>1. at = [c \in Sent |-> at[c]]
    OBVIOUS
  <2> HIDE DEF at
  <2> QED
    BY <1>3, <2>1
<1>5. OutputOf(l) = Saturated(SumFunctionOnSet(charge, DOMAIN l))
  BY DEF OutputOf, SumFunction
<1> HIDE DEF charge, at
<1>6. /\ CostOut \in [Calls -> Nat] /\ Sent \in SUBSET Calls
      /\ \A c \in Calls \ Sent : CostOut[c] = 0
  BY CostCovered DEF Sent, CostOut, NoUsage
<1>7. SumFunctionOnSet(CostOut, Sent) <= SumFunctionOnSet(charge, DOMAIN l)
  BY <1>1, <1>2, <1>3, <1>4, <1>6, BudgetFacts, SumInjected
<1>8. SpentOut = Total(CostOut) /\ SpentOut = SumFunctionOnSet(CostOut, Sent)
  <2>1. SumFunctionOnSet(CostOut, Calls) = SumFunctionOnSet(CostOut, Sent)
    BY <1>6, BudgetFacts, SumSupport
  <2>2. DOMAIN CostOut = Calls /\ SpentOut = SumFunction(CostOut)
    BY DEF CostOut, SpentOut
  <2> QED
    BY <2>1, <2>2 DEF Total, SumFunction
<1>9. SpentOut \in Nat /\ SpentOut <= MaxInt64
  <2>1. /\ Total(CostOut) \in Nat /\ Total(CostOut) <= Total(HeldOut) + Total(PaidOut)
        /\ Total(HeldOut) \in Nat /\ Total(PaidOut) \in Nat
    BY CostCovered, Totals
  <2> QED
    BY <1>8, <2>1, BudgetFacts DEF AccountInv, Balanced
<1>10. SumFunctionOnSet(charge, DOMAIN l) \in Nat
  BY <1>1, <1>2, SumStep
<1> QED
  BY <1>5, <1>7, <1>8, <1>9, <1>10, BudgetFacts DEF Saturated

\* The summary counts every call and every outcome.
LEMMA FinalizeLedgerInv ==
  ASSUME ModelInv, FinalizeLedger
  PROVE  ModelInv'
<1>1. /\ RecordsInv /\ CallsInv /\ AccountInv /\ RequestsInv /\ ReceiptsInv /\ PhaseInv
      /\ phase = "finalize" /\ recorder' = recorder /\ budget' = budget /\ call' = call
      /\ cost' = cost /\ broker' = broker
  BY DEF ModelInv, FinalizeLedger
<1>2. (\A c \in Calls : call[c].at \notin Held) /\ summary = NoSummary
  BY <1>1 DEF PhaseInv
<1>3. CASE Verifies(receipts)
  <2> DEFINE l == Close(receipts)
  <2>1. /\ receipts' = l /\ phase' = "settled"
        /\ summary' = [calls |-> Count(l, {"started"}), in |-> InputOf(l), out |-> OutputOf(l),
                       completed |-> Count(l, {"completed"}), failed |-> Count(l, {"failed"}),
                       unknown |-> Count(l, {"unknown"})]
    BY <1>3 DEF FinalizeLedger
  <2>2. /\ l \in Seq(Events) /\ OneEach(l)
        /\ StartedIn(l) = StartedIn(receipts) /\ EndedIn(l) = StartedIn(receipts)
        /\ \A i \in DOMAIN l : EventOK(l[i], cost[l[i].call])
    BY <1>1, ClosedLedger DEF RecordsInv, ReceiptsInv
  <2> HIDE DEF l
  <2>3. Sent \subseteq StartedIn(l) /\ Sent \subseteq EndedIn(l)
    BY <1>1, <2>2 DEF ReceiptsInv
  <2>4. /\ Count(l, {"started"}) = Cardinality(StartedIn(l)) /\ Count(l, {"started"}) \in Nat
        /\ Count(l, Terminal) = Cardinality(EndedIn(l)) /\ IsFiniteSet(StartedIn(l))
    <3>1. /\ Count(l, {"started"}) \in Nat
          /\ IsFiniteSet({l[i].call : i \in {j \in DOMAIN l : l[j].kind \in {"started"}}})
          /\ Cardinality({l[i].call : i \in {j \in DOMAIN l : l[j].kind \in {"started"}}})
               = Count(l, {"started"})
      <4>1. \A i, j \in DOMAIN l : l[i].kind \in {"started"} /\ l[j].kind \in {"started"}
                                     /\ l[i].call = l[j].call => i = j
        BY <2>2 DEF OneEach
      <4> QED
        BY <2>2, <4>1, CountOnce
    <3>2. Cardinality({l[i].call : i \in {j \in DOMAIN l : l[j].kind \in Terminal}})
            = Count(l, Terminal)
      <4>1. \A i, j \in DOMAIN l : l[i].kind \in Terminal /\ l[j].kind \in Terminal
                                     /\ l[i].call = l[j].call => i = j
        BY <2>2 DEF OneEach
      <4> QED
        BY <2>2, <4>1, CountOnce
    <3>3. {j \in DOMAIN l : l[j].kind \in {"started"}} = {j \in DOMAIN l : l[j].kind = "started"}
      OBVIOUS
    <3> QED
      BY <3>1, <3>2, <3>3 DEF StartedIn, EndedIn
  <2>5. Cardinality(Sent) <= Cardinality(StartedIn(l))
    BY <2>3, <2>4, FS_Subset
  <2>6. OutputOf(l) >= SpentOut
    BY <1>1, <2>2, <2>3, OutputCharged
  <2>7. SummaryComplete'
    <3>1. Sent' = Sent /\ SpentOut' = SpentOut
      BY <1>1 DEF Sent, SpentOut
    <3>2. /\ summary'.calls = Count(l, {"started"}) /\ summary'.out = OutputOf(l)
          /\ summary'.completed + summary'.failed + summary'.unknown = Count(l, Terminal)
      BY <2>1, <2>2, CountOutcomes
    <3>3. Cardinality(Sent) \in Nat
      BY <2>3, <2>4, FS_Subset, FS_CardinalityType
    <3> QED
      BY <2>2, <2>4, <2>5, <2>6, <3>1, <3>2, <3>3 DEF SummaryComplete
  <2>8. PhaseInv'
    BY <1>1, <1>2, <2>1, <2>7 DEF PhaseInv
  <2>9. ReceiptsInv'
    <3>1. \A c \in Calls : ReceiptOK(c, call[c], l)
      BY <1>1, <1>2, <2>2 DEF ReceiptsInv, ReceiptOK, Held
    <3> QED
      BY <1>1, <2>1, <2>2, <2>3, <3>1 DEF ReceiptsInv, Sent
  <2> QED
    BY <1>1, <2>1, <2>2, <2>8, <2>9 DEF ModelInv, RecordsInv, CallsInv, AccountInv, Balanced,
        HeldIn, HeldOut, PaidIn, PaidOut, RequestsInv, Sent, Admitted
<1>4. CASE ~Verifies(receipts)
  <2>1. phase' = "unverifiable" /\ receipts' = receipts /\ summary' = summary
    BY <1>4 DEF FinalizeLedger
  <2>2. PhaseInv'
    BY <1>1, <1>2, <2>1 DEF PhaseInv, SummaryComplete
  <2> QED
    BY <1>1, <2>1, <2>2, PhaseOnly
<1> QED
  BY <1>3, <1>4

\* Before the broker is started nothing is held, paid or counted.
LEMMA Prepared ==
  ASSUME ModelInv, phase = "prepared"
  PROVE  /\ receipts = <<>> /\ budget = NewBudget /\ summary = NoSummary
         /\ Total(HeldIn) = 0 /\ Total(HeldOut) = 0 /\ Total(PaidIn) = 0 /\ Total(PaidOut) = 0
         /\ Sent = {} /\ Admitted = {} /\ \A c \in Calls : call[c].at = "idle"
<1>1. /\ receipts = <<>> /\ budget = NewBudget /\ summary = NoSummary
      /\ \A c \in Calls : call[c].at = "idle" /\ cost[c] = NoUsage
  BY DEF ModelInv, PhaseInv, CallsInv, CallOK
<1>2. /\ HeldIn \in [Calls -> Nat] /\ HeldOut \in [Calls -> Nat]
      /\ PaidIn \in [Calls -> Nat] /\ PaidOut \in [Calls -> Nat]
  BY Totals DEF ModelInv
<1>3. \A c \in Calls : HeldIn[c] = 0 /\ HeldOut[c] = 0 /\ PaidIn[c] = 0 /\ PaidOut[c] = 0
  BY <1>1 DEF HeldIn, HeldOut, PaidIn, PaidOut, Held, NoUsage
<1>4. /\ Total(HeldIn) = 0 /\ Total(HeldOut) = 0 /\ Total(PaidIn) = 0 /\ Total(PaidOut) = 0
  BY <1>2, <1>3, NoTotal
<1>5. Sent = {} /\ Admitted = {}
  BY <1>1 DEF Sent, Admitted, Held
<1> QED
  BY <1>1, <1>4, <1>5

\* The broker starts on an empty ledger.
LEMMA StartModelBrokerInv ==
  ASSUME ModelInv, StartModelBroker
  PROVE  ModelInv'
<1> DEFINE l == Close(receipts)
<1>1. /\ RecordsInv /\ CallsInv /\ AccountInv /\ RequestsInv /\ ReceiptsInv /\ PhaseInv
      /\ phase = "prepared" /\ phase' = "running" /\ broker' = "up" /\ call' = call
      /\ cost' = cost /\ summary' = summary /\ receipts' = l
      /\ recorder' = [sequence |-> Len(l), pending |-> {}]
      /\ budget' = [NewBudget EXCEPT !.requests = Count(l, {"started"}),
                      !.in = IF Count(l, {"unknown"}) > 0 THEN MaxTotalInputTokens ELSE InputOf(l),
                      !.out = OutputOf(l)]
  BY DEF ModelInv, StartModelBroker
<1>2. /\ receipts = <<>> /\ budget = NewBudget /\ summary = NoSummary
      /\ Total(HeldIn) = 0 /\ Total(HeldOut) = 0 /\ Total(PaidIn) = 0 /\ Total(PaidOut) = 0
      /\ Sent = {} /\ Admitted = {} /\ \A c \in Calls : call[c].at = "idle"
  BY <1>1, Prepared
<1>3. l = receipts
  <2>1. DOMAIN receipts = {} /\ receipts \in Seq(Events)
    BY <1>2
  <2>2. Open(receipts) = {}
    BY <2>1 DEF Open, StartedIn
  <2> QED
    BY <2>1, <2>2, Closing
<1> HIDE DEF l
<1>4. l = <<>> /\ DOMAIN l = {} /\ Len(l) = 0
  BY <1>2, <1>3
<1>5. Count(l, {"started"}) = 0 /\ Count(l, {"unknown"}) = 0
  <2>1. ASSUME NEW kinds
        PROVE  {i \in DOMAIN l : l[i].kind \in kinds} = {}
    BY <1>4
  <2> QED
    BY <2>1, FS_EmptySet DEF Count
<1>6. InputOf(l) \in 0..MaxInt64 /\ OutputOf(l) \in 0..MaxInt64
  <2>1. ASSUME NEW f, DOMAIN f = {}, f \in [{} -> Nat]
        PROVE  Saturated(SumFunction(f)) \in 0..MaxInt64
    <3>1. SumFunctionOnSet(f, {}) = 0
      BY <2>1, SumStep, FS_EmptySet
    <3> QED
      BY <2>1, <3>1, BudgetFacts DEF SumFunction, Saturated
  <2> DEFINE in == [i \in DOMAIN l |-> IF l[i].kind \in Terminal THEN l[i].usage.in ELSE 0]
             out == [i \in DOMAIN l |-> IF l[i].kind \in Terminal
                                        THEN OutputCharge(l[i].usage, l[i].max) ELSE 0]
  <2>2. DOMAIN in = {} /\ in \in [{} -> Nat] /\ DOMAIN out = {} /\ out \in [{} -> Nat]
    BY <1>4
  <2>3. InputOf(l) = Saturated(SumFunction(in)) /\ OutputOf(l) = Saturated(SumFunction(out))
    BY DEF InputOf, OutputOf
  <2> HIDE DEF in, out
  <2> QED
    BY <2>1, <2>2, <2>3
<1>7. budget' = [requests |-> 0, in |-> InputOf(l), out |-> OutputOf(l), reservedIn |-> 0,
                 reservedOut |-> 0]
  <2>1. ~(Count(l, {"unknown"}) > 0)
    BY <1>5
  <2>2. budget' = [NewBudget EXCEPT !.requests = 0, !.in = InputOf(l), !.out = OutputOf(l)]
    BY <1>1, <1>5, <2>1
  <2> QED
    BY <2>2 DEF NewBudget
<1>8. budget' \in BudgetRecord /\ recorder' \in RecorderRecord
  BY <1>1, <1>4, <1>6, <1>7 DEF BudgetRecord, RecorderRecord
<1>9. AccountInv'
  <2>1. HeldIn' = HeldIn /\ HeldOut' = HeldOut /\ PaidIn' = PaidIn /\ PaidOut' = PaidOut
    BY <1>1 DEF HeldIn, HeldOut, PaidIn, PaidOut
  <2>2. /\ budget'.reservedIn = 0 /\ budget'.reservedOut = 0
        /\ budget'.in \in Nat /\ budget'.out \in Nat
    BY <1>6, <1>7
  <2> QED
    BY <1>2, <2>1, <2>2, BudgetFacts DEF AccountInv, Balanced
<1>10. RequestsInv'
  <2>1. Sent' = {} /\ Admitted' = {} /\ Cardinality({}) = 0
    BY <1>1, <1>2, FS_EmptySet DEF Sent, Admitted
  <2> QED
    BY <1>7, <2>1, BudgetFacts DEF RequestsInv
<1>11. PhaseInv'
  BY <1>1, <1>2 DEF PhaseInv, SummaryComplete
<1> QED
  BY <1>1, <1>3, <1>8, <1>9, <1>10, <1>11
  DEF ModelInv, RecordsInv, CallsInv, ReceiptsInv, Sent

\* A broker that is left behind has not admitted a call.
LEMMA StartFailsInv ==
  ASSUME ModelInv, StartFails
  PROVE  ModelInv'
<1>1. /\ RecordsInv /\ CallsInv /\ AccountInv /\ RequestsInv /\ ReceiptsInv /\ PhaseInv
      /\ phase = "prepared" /\ phase' = "finalize" /\ broker' \in {"none", "up"}
      /\ UNCHANGED <<receipts, recorder, budget, call, cost, summary>>
  BY DEF ModelInv, StartFails
<1>2. /\ receipts = <<>> /\ budget = NewBudget /\ summary = NoSummary
      /\ Total(HeldIn) = 0 /\ Total(HeldOut) = 0 /\ Total(PaidIn) = 0 /\ Total(PaidOut) = 0
      /\ Sent = {} /\ Admitted = {} /\ \A c \in Calls : call[c].at = "idle"
  BY <1>1, Prepared
<1>3. AccountInv'
  <2>1. HeldIn' = HeldIn /\ HeldOut' = HeldOut /\ PaidIn' = PaidIn /\ PaidOut' = PaidOut
    BY <1>1 DEF HeldIn, HeldOut, PaidIn, PaidOut
  <2>2. /\ NewBudget.reservedIn = 0 /\ NewBudget.reservedOut = 0
        /\ NewBudget.in = 0 /\ NewBudget.out = 0
    BY DEF NewBudget
  <2> QED
    BY <1>1, <1>2, <2>1, <2>2, BudgetFacts DEF AccountInv, Balanced
<1>4. RequestsInv'
  <2>1. Sent' = {} /\ Admitted' = {} /\ Cardinality({}) = 0 /\ NewBudget.requests = 0
    BY <1>1, <1>2, FS_EmptySet DEF Sent, Admitted, NewBudget
  <2> QED
    BY <1>1, <1>2, <2>1, BudgetFacts DEF RequestsInv
<1>5. PhaseInv'
  BY <1>1, <1>2 DEF PhaseInv, SummaryComplete, Held
<1> QED
  BY <1>1, <1>3, <1>4, <1>5 DEF ModelInv, RecordsInv, CallsInv, ReceiptsInv, Sent

-----------------------------------------------------------------------------
(* The theorems *)

\* The invariant holds before anything is started.
LEMMA ModelInit == InitModel => ModelInv
<1> SUFFICES ASSUME InitModel
             PROVE  ModelInv
  OBVIOUS
<1>1. RecordsInv
  <2>1. NoCall \in CallRecord /\ NoUsage \in Usage
    BY DEF NoCall, NoUsage, Usage, CallRecord, CallPlaces, Held, Terminal
  <2>2. NewRecorder \in RecorderRecord
    BY DEF NewRecorder, RecorderRecord
  <2>3. NewBudget \in BudgetRecord
    BY BudgetFacts DEF NewBudget, BudgetRecord
  <2>4. receipts \in Seq(Events)
    BY DEF InitModel
  <2> QED
    BY <2>1, <2>2, <2>3, <2>4 DEF InitModel, RecordsInv
<1>2. \A c \in Calls : /\ call[c].at = "idle" /\ call[c].usage = NoUsage /\ cost[c] = NoUsage
                       /\ NoUsage.in = 0 /\ NoUsage.out = 0
  BY DEF InitModel, NoCall, NoUsage
<1>3. CallsInv
  BY <1>2, BudgetFacts DEF CallsInv, CallOK, Held
<1>4. AccountInv
  <2>1. /\ HeldIn \in [Calls -> Nat] /\ HeldOut \in [Calls -> Nat]
        /\ PaidIn \in [Calls -> Nat] /\ PaidOut \in [Calls -> Nat]
    BY <1>1, Totals
  <2>2. \A c \in Calls : HeldIn[c] = 0 /\ HeldOut[c] = 0 /\ PaidIn[c] = 0 /\ PaidOut[c] = 0
    BY <1>2 DEF HeldIn, HeldOut, PaidIn, PaidOut, Held
  <2>3. /\ Total(HeldIn) = 0 /\ Total(HeldOut) = 0 /\ Total(PaidIn) = 0 /\ Total(PaidOut) = 0
    BY <2>1, <2>2, NoTotal
  <2>4. budget.reservedIn = 0 /\ budget.reservedOut = 0 /\ budget.in = 0 /\ budget.out = 0
    BY DEF InitModel, NewBudget
  <2> QED
    BY <2>3, <2>4, BudgetFacts DEF AccountInv, Balanced
<1>5. Sent = {} /\ Admitted = {}
  BY <1>2 DEF Sent, Admitted, Held
<1>6. RequestsInv
  <2>1. budget.requests = 0 /\ Cardinality({}) = 0
    BY FS_EmptySet DEF InitModel, NewBudget
  <2> QED
    BY <1>5, <2>1, BudgetFacts DEF RequestsInv
<1>7. ReceiptsInv
  <2>1. DOMAIN receipts = {}
    BY DEF InitModel
  <2> QED
    BY <1>2, <1>5, <2>1 DEF ReceiptsInv, OneEach, ReceiptOK, StartedIn, EndedIn
<1>8. PhaseInv
  BY <1>2 DEF InitModel, PhaseInv, SummaryComplete
<1> QED
  BY <1>1, <1>3, <1>4, <1>6, <1>7, <1>8 DEF ModelInv

\* Every step keeps the invariant.
LEMMA ModelStep == ModelInv /\ [ModelNext]_modelVars => ModelInv'
<1> SUFFICES ASSUME ModelInv, [ModelNext]_modelVars
             PROVE  ModelInv'
  OBVIOUS
<1>1. ASSUME NEW c \in Calls, CallStep(c)
      PROVE  ModelInv'
  BY <1>1, BeginCallInv, RecordStartInv, SendToProviderInv, AnswerInv, RecordFinishInv,
     ReleaseInv DEF CallStep
<1>2. CASE UNCHANGED modelVars
  <2>1. PhaseInv'
    BY <1>2 DEF ModelInv, modelVars, PhaseInv, SummaryComplete, Sent, SpentOut
  <2> QED
    BY <1>2, <2>1, PhaseOnly DEF modelVars
<1> QED
  BY <1>1, <1>2, StartModelBrokerInv, StartFailsInv, BrokerDiesInv, AgentEndsInv,
     DaemonCrashesInv, RemoveModelBrokerInv, FinalizeLedgerInv DEF ModelNext

\* The inductive invariant that the theorems rest on.
LEMMA ModelInvariant == ModelSpec => []ModelInv
BY ModelInit, ModelStep, PTL DEF ModelSpec

\* What is reserved are the reservations of the calls under way.
LEMMA ReservationsSummed ==
  ASSUME ModelInv
  PROVE  ReservationsAccounted
<1> DEFINE holding == {c \in Calls : call[c].at \in Held}
           in == [c \in Calls |-> call[c].in]
           out == [c \in Calls |-> call[c].out]
<1>1. /\ in \in [Calls -> Nat] /\ out \in [Calls -> Nat]
      /\ HeldIn \in [Calls -> Nat] /\ HeldOut \in [Calls -> Nat]
  BY Totals DEF ModelInv, RecordsInv, CallRecord
<1>2. /\ holding \in SUBSET Calls /\ holding \in SUBSET holding
      /\ \A c \in Calls \ holding : HeldIn[c] = 0 /\ HeldOut[c] = 0
      /\ \A c \in holding : HeldIn[c] = in[c] /\ HeldOut[c] = out[c]
  BY DEF HeldIn, HeldOut
<1>3. budget.reservedIn = SumFunctionOnSet(HeldIn, Calls)
      /\ budget.reservedOut = SumFunctionOnSet(HeldOut, Calls)
  BY DEF ModelInv, AccountInv, Balanced, Total
<1> HIDE DEF holding, in, out
<1>4. ASSUME NEW f \in [Calls -> Nat], NEW h \in [Calls -> Nat],
             \A c \in Calls \ holding : f[c] = 0, \A c \in holding : f[c] = h[c]
      PROVE  SumFunctionOnSet(f, Calls) = SumFunctionOnSet(h, holding)
  <2>1. SumFunctionOnSet(f, Calls) = SumFunctionOnSet(f, holding)
    BY <1>2, <1>4, BudgetFacts, SumSupport
  <2>2. \A c \in holding : f[c] \in Nat /\ f[c] <= h[c] /\ h[c] <= f[c]
    BY <1>2, <1>4
  <2>3. SumFunctionOnSet(f, holding) <= SumFunctionOnSet(h, holding)
    BY <1>2, <2>2, BudgetFacts, SumMonotone
  <2>4. SumFunctionOnSet(h, holding) <= SumFunctionOnSet(f, holding)
    BY <1>2, <2>2, BudgetFacts, SumMonotone
  <2>5. SumFunctionOnSet(h, holding) \in Nat /\ SumFunctionOnSet(f, holding) \in Nat
    BY <1>2, BudgetFacts, SumStep
  <2> QED
    BY <2>1, <2>3, <2>4, <2>5
<1>5. /\ budget.reservedIn = SumFunctionOnSet(in, holding)
      /\ budget.reservedOut = SumFunctionOnSet(out, holding)
  BY <1>1, <1>2, <1>3, <1>4
<1> QED
  BY <1>5 DEF ReservationsAccounted, in, out, holding, Held

\* However calls overlap, fail, go unreported or outlive the broker, the agent
\* costs no more than its budget of requests and tokens, and no failure keeps a
\* reservation or gives back another's.
THEOREM BudgetKept == ModelSpec => []BudgetInv
<1>1. ASSUME ModelInv
      PROVE  BudgetInv
  <2>1. /\ Total(HeldIn) \in Nat /\ Total(HeldOut) \in Nat
        /\ Total(PaidIn) \in Nat /\ Total(PaidOut) \in Nat
    BY <1>1, Totals DEF ModelInv
  <2>2. ModelTypeOK
    <3>1. /\ budget.reservedIn = Total(HeldIn) /\ budget.reservedOut = Total(HeldOut)
          /\ Total(HeldIn) <= MaxTotalInputTokens /\ Total(HeldOut) <= MaxTotalOutputTokens
      BY <1>1, <2>1, BudgetFacts DEF ModelInv, AccountInv, Balanced
    <3>2. budget.in \in 0..MaxInt64 /\ budget.out \in 0..MaxInt64 /\ recorder.pending \subseteq Calls
      BY <1>1 DEF ModelInv, RecordsInv, BudgetRecord, RecorderRecord
    <3>3. ASSUME NEW c \in Calls
          PROVE  /\ call[c].usage.in \in 0..(MaxTotalInputTokens + 1)
                 /\ call[c].phase \in Terminal
      BY <1>1, BudgetFacts DEF ModelInv, RecordsInv, CallRecord, Usage, CallsInv, CallOK
    <3> QED
      BY <2>1, <3>1, <3>2, <3>3, BudgetFacts DEF ModelTypeOK
  <2>3. WithinBudget
    <3>1. DOMAIN CostIn = Calls /\ DOMAIN CostOut = Calls
      BY DEF CostIn, CostOut
    <3>2. SpentIn = Total(CostIn) /\ SpentOut = Total(CostOut)
      BY <3>1 DEF SpentIn, SpentOut, CostIn, CostOut, Total, SumFunction
    <3>3. /\ Total(CostIn) \in Nat /\ Total(CostIn) <= Total(HeldIn) + Total(PaidIn)
          /\ Total(CostOut) \in Nat /\ Total(CostOut) <= Total(HeldOut) + Total(PaidOut)
      BY <1>1, CostCovered DEF ModelInv
    <3>4. SpentIn <= MaxTotalInputTokens /\ SpentOut <= MaxTotalOutputTokens
      BY <1>1, <2>1, <3>2, <3>3, BudgetFacts DEF ModelInv, AccountInv, Balanced
    <3> QED
      BY <1>1, <3>4 DEF WithinBudget, ModelInv, RequestsInv
  <2> QED
    BY <1>1, <2>2, <2>3, ReservationsSummed DEF BudgetInv
<1> QED
  BY <1>1, ModelInvariant, PTL

\* No call reaches the provider without a receipt of its start on disk, and the
\* summary that is charged has every call, one outcome of each and at least the
\* output tokens they cost.
THEOREM ReceiptsKept == ModelSpec => []ReceiptsComplete
<1>1. ModelInv => ReceiptsComplete
  BY DEF ModelInv, ReceiptsInv, PhaseInv, ReceiptsComplete, ReceiptBeforeCall
<1> QED
  BY <1>1, ModelInvariant, PTL

\* Once the ledger was summed up nobody writes to it or spends tokens.
THEOREM SettledFrozen == ModelSpec => SettledLedgerFrozen
<1>1. ASSUME ModelInv, [ModelNext]_modelVars
      PROVE  [summary # NoSummary => UNCHANGED <<receipts, cost, summary>>]_modelVars
  <2> SUFFICES ASSUME summary # NoSummary, ModelNext
               PROVE  UNCHANGED <<receipts, cost, summary>>
    BY <1>1
  <2>1. phase = "settled" /\ \A c \in Calls : call[c].at \notin Held
    BY <1>1 DEF ModelInv, PhaseInv
  <2>2. ASSUME NEW c \in Calls
        PROVE  ~CallStep(c)
    BY <2>1 DEF CallStep, BeginCall, RecordStart, SendToProvider, Answer, RecordFinish,
                Release, Serving, Held
  <2> QED
    BY <2>1, <2>2 DEF ModelNext, StartModelBroker, StartFails, BrokerDies, AgentEnds,
                      DaemonCrashes, RemoveModelBroker, FinalizeLedger
<1> QED
  BY <1>1, ModelInvariant, PTL DEF ModelSpec, SettledLedgerFrozen

=============================================================================
