--------------------------- MODULE TaskRunProofs ---------------------------
(***************************************************************************)
(* Admission and `gatemole tx run`, for any number of clients, requests    *)
(* and workload slots, and whatever goes wrong: what the ledger holds of   *)
(* admissions and what callers were told of it, who holds a lock and a     *)
(* slot, and that an agent succeeds at most once in an attempt.            *)
(***************************************************************************)
EXTENDS TaskRun, FiniteSetTheorems, TLAPS

-----------------------------------------------------------------------------
(* The ledger and the answers *)

\* Rows are those of whole admissions of requests this runtime may admit, and
\* no two of them share a primary key.
RowsInv ==
  /\ request \in [Clients -> Requests]
  /\ \A r \in rows : r.of \in Clients /\ r \in RowsOf(Prepared(r.of))
  /\ \A r \in rows : request[r.of].expects = "this runtime"
  /\ AdmissionWhole

\* The one transaction that is open holds the first rows of an admission
\* whose key was free when it began and cannot have been taken since.
WriterInv ==
  /\ writer \in Clients \cup {NoOne}
  /\ \A c \in Clients : call[c].at = "insert" <=> writer = c
  /\ writer = NoOne => pending = <<>>
  /\ writer # NoOne =>
       /\ ~Admitted(Key(writer))
       /\ pending \in Seq(RowsOf(Prepared(writer))) /\ Len(pending) <= Len(Prepared(writer))
       /\ \A i \in 1..Len(pending) : pending[i] = Prepared(writer)[i] /\ ~Taken(pending[i])

CallRecord ==
  [at : {"idle", "replay", "lookup", "admit", "insert", "answered"},
   answer : {"none", "created", "existing", "conflict", "denied", "failed", "incompatible",
             "mismatch", "lost"},
   result : Clients \cup {NoOne}, known : BOOLEAN]

\* Progress x of a call of c agrees with the ledger: a call under way is for
\* this runtime, one that was admitted before is on its way to the answer of
\* the ledger, and an answer is true.
CallOK(c, x) ==
  /\ x.at \in {"replay", "lookup", "admit", "insert"} => request[c].expects = "this runtime"
  /\ x.known => Admitted(Key(c)) /\ SameRequest(c, Key(c)) /\ x.at \notin {"admit", "insert"}
  /\ x.known /\ x.at = "answered" => x.answer \in {"existing", "lost"}
  /\ x.answer \in {"created", "existing"} =>
       Stored(Key(c)) = {x.result} /\ request[x.result] = request[c]
  /\ x.answer = "conflict" =>
       \E r \in rows : /\ request[r.of] # request[c]
                       /\ \/ r.table = "admission" /\ r.id = Key(c)
                          \/ r.table = "transaction" /\ r.id = request[c].transaction
                          \/ r.table = "run" /\ r.id = request[c].run

LedgerInv ==
  /\ RowsInv /\ WriterInv
  /\ call \in [Clients -> CallRecord] /\ \A c \in Clients : CallOK(c, call[c])

-----------------------------------------------------------------------------
(* Transactions, locks and clients *)

TxRecord ==
  [state : {"created", "running", "staged", "validating", "blocked", "revise_required",
            "validation_failed", "pending_approval", "completed_no_effect", "aborted"},
   attempt : 1..MaxAttempts, bound : BOOLEAN,
   exec : {"none", "running", "unsuccessful", "succeeded"}, wins : Nat]

Resumable == {"created", "running", "staged", "validation_failed", "revise_required"}

\* An attempt whose latest execution did not succeed has had no success.
TxOK(t) ==
  /\ t.wins <= 1
  /\ t.exec # "succeeded" => t.wins = 0
  /\ t.state \in {"validation_failed", "revise_required"} => t.attempt < MaxAttempts

TxInv == tx \in [Transactions -> TxRecord] /\ \A k \in Transactions : TxOK(tx[k])

Handler == {Idle} \cup [at : {"prepare", "running"}, by : Clients \cup {NoOne}]

\* A handler that holds the lock keeps the transaction as it found it, and
\* whoever waits for it waits for this transaction.
LockOK(k) ==
  serving[k] # Idle =>
    /\ up /\ tx[k].state = "running"
    /\ serving[k].at = "running" => tx[k].exec = "running"
    /\ serving[k].at = "prepare" => tx[k].exec \notin {"running", "succeeded"}
    /\ serving[k].by # NoOne => At(serving[k].by, "agent") /\ TxOf(serving[k].by) = k

LockInv == serving \in [Transactions -> Handler] /\ \A k \in Transactions : LockOK(k)

Busy == {k \in Transactions : serving[k] # Idle}

SlotInv == IsFiniteSet(Busy) /\ SlotsAccounted

Places == {"idle", "preflight", "admit", "get", "start", "worktree", "execute", "run", "spawn",
           "agent", "child", "stage", "validate", "exited"}

Seen == [state : Resumable, attempt : 1..MaxAttempts, bound : BOOLEAN,
         exec : {"none", "running", "unsuccessful", "succeeded"}, wins : Nat]

ClientRecord ==
  [pc : Places, view : {NoOne} \cup Seen, current : BOOLEAN, code : {0, 1}]

\* A client whose sequence is current has seen the transaction as it is, and
\* goes to run an agent only where it has seen none run or succeed.
ClientOK(c, x) ==
  /\ x.current => x.view = tx[TxOf(c)]
  /\ x.pc \in {"run", "spawn"} => x.view.exec \notin {"running", "succeeded"}

ClientInv == client \in [Clients -> ClientRecord] /\ \A c \in Clients : ClientOK(c, client[c])

RunInv == TxInv /\ LockInv /\ SlotInv /\ ClientInv

-----------------------------------------------------------------------------
(* Which task a command drives *)

Driving(c) == client[c].pc \notin {"idle", "exited", "preflight", "admit"}

DriveInv ==
  \A c \in Clients :
    /\ Driving(c) => Admitted(Key(c)) /\ SameRequest(c, Key(c))
    /\ View(c) # NoOne => Driving(c)

TaskInv == LedgerInv /\ RunInv /\ DriveInv

-----------------------------------------------------------------------------
(* Lemmas on the ledger *)

\* The rows of an admission.
LEMMA PreparedIs ==
  ASSUME NEW c
  PROVE  /\ Len(Prepared(c)) = 5 /\ DOMAIN Prepared(c) = 1..5
         /\ Prepared(c)[1] = [table |-> "contract", id |-> c, of |-> c]
         /\ Prepared(c)[2] = [table |-> "task", id |-> request[c].transaction, of |-> c]
         /\ Prepared(c)[3] = [table |-> "run", id |-> request[c].run, of |-> c]
         /\ Prepared(c)[4] = [table |-> "transaction", id |-> request[c].transaction, of |-> c]
         /\ Prepared(c)[5] = [table |-> "admission", id |-> Key(c), of |-> c]
  BY DEF Prepared

LEMMA RowsOfPrepared ==
  ASSUME NEW c
  PROVE  RowsOf(Prepared(c)) =
           {[table |-> "contract", id |-> c, of |-> c],
            [table |-> "task", id |-> request[c].transaction, of |-> c],
            [table |-> "run", id |-> request[c].run, of |-> c],
            [table |-> "transaction", id |-> request[c].transaction, of |-> c],
            [table |-> "admission", id |-> Key(c), of |-> c]}
<1> DEFINE P == Prepared(c)
<1>1. 1..5 = {1, 2, 3, 4, 5}
  OBVIOUS
<1>2. RowsOf(P) = {P[i] : i \in {1, 2, 3, 4, 5}}
  BY <1>1, PreparedIs DEF RowsOf
<1>3. RowsOf(P) = {P[1], P[2], P[3], P[4], P[5]}
  BY <1>2
<1> QED
  BY <1>3, PreparedIs

\* At most one admission is stored under a key, and it is of that key.
LEMMA StoredOnce ==
  ASSUME RowsInv, NEW k, Admitted(k)
  PROVE  /\ Stored(k) = {StoredResult(k)} /\ StoredResult(k) \in Clients
         /\ Key(StoredResult(k)) = k
         /\ [table |-> "admission", id |-> k, of |-> StoredResult(k)] \in rows
         /\ request[StoredResult(k)].expects = "this runtime"
<1> DEFINE x == StoredResult(k)
<1>1. x \in Stored(k)
  BY DEF Admitted, StoredResult
<1>2. PICK r \in rows : r.table = "admission" /\ r.id = k /\ r.of = x
  BY <1>1 DEF Stored
<1>3. r = [table |-> "admission", id |-> Key(x), of |-> x] /\ x \in Clients
  <2>1. r \in RowsOf(Prepared(x)) /\ x \in Clients
    BY <1>2 DEF RowsInv
  <2>2. r \in {[table |-> "contract", id |-> x, of |-> x],
               [table |-> "task", id |-> request[x].transaction, of |-> x],
               [table |-> "run", id |-> request[x].run, of |-> x],
               [table |-> "transaction", id |-> request[x].transaction, of |-> x],
               [table |-> "admission", id |-> Key(x), of |-> x]}
    BY <2>1, RowsOfPrepared
  <2> HIDE DEF x
  <2> QED
    BY <1>2, <2>1, <2>2
<1>4. \A y \in Stored(k) : y = x
  BY <1>2 DEF Stored, RowsInv, AdmissionWhole
<1>5. k = Key(x) /\ request[x].expects = "this runtime"
  <2> HIDE DEF x
  <2>1. request[r.of].expects = "this runtime"
    BY DEF RowsInv
  <2>2. r.id = Key(x)
    BY <1>3
  <2> QED
    BY <1>2, <2>1, <2>2
<1>6. Stored(k) = {x}
  BY <1>1, <1>4
<1>7. [table |-> "admission", id |-> k, of |-> x] \in rows
  BY <1>2, <1>3, <1>5
<1> QED
  BY <1>2, <1>3, <1>5, <1>6, <1>7

\* The ledger and what is in it are as they were.
LEMMA SameLedger ==
  ASSUME UNCHANGED <<request, rows>>
  PROVE  /\ RowsInv' <=> RowsInv
         /\ \A c : Prepared(c)' = Prepared(c) /\ Key(c)' = Key(c)
         /\ \A k : Stored(k)' = Stored(k) /\ (Admitted(k)' <=> Admitted(k))
         /\ \A c, x : CallOK(c, x)' <=> CallOK(c, x)
         /\ \A row : Taken(row)' <=> Taken(row)
<1>1. \A c : Prepared(c)' = Prepared(c) /\ Key(c)' = Key(c)
  BY DEF Prepared, Key
<1>2. \A k : Stored(k)' = Stored(k) /\ (Admitted(k)' <=> Admitted(k))
  BY DEF Stored, Admitted
<1>4. \A c, x : CallOK(c, x)' <=> CallOK(c, x)
  BY DEF CallOK, Admitted, SameRequest, StoredResult, Stored, Key
<1>5. RowsInv' <=> RowsInv
  BY <1>1 DEF RowsInv, AdmissionWhole, RowsOf
<1> QED
  BY <1>1, <1>2, <1>4, <1>5 DEF Taken

\* Nothing of admissions changed.
LEMMA LedgerFrame ==
  ASSUME LedgerInv, UNCHANGED <<request, rows, writer, pending, call>>
  PROVE  LedgerInv'
<1>1. WriterInv'
  BY SameLedger DEF LedgerInv, WriterInv
<1> QED
  BY <1>1, SameLedger DEF LedgerInv

\* Calls that agree with the ledger do so after a step that leaves it alone.
LEMMA CallsSame ==
  ASSUME UNCHANGED <<request, rows>>, \A d \in Clients : CallOK(d, call'[d])
  PROVE  \A d \in Clients : CallOK(d, call[d])'
<1> TAKE d \in Clients
<1>1. CallOK(d, call[d])' <=> CallOK(d, call'[d])
  BY SameLedger DEF CallOK
<1> QED
  BY <1>1

\* Only the progress of the call of c changed, outside of a transaction.
LEMMA CallChanges ==
  ASSUME LedgerInv, UNCHANGED <<request, rows, writer, pending>>, NEW c \in Clients,
         NEW x \in CallRecord, call' = [call EXCEPT ![c] = x], call[c].at # "insert",
         x.at # "insert", CallOK(c, x)
  PROVE  LedgerInv'
<1>1. call' \in [Clients -> CallRecord] /\ \A d \in Clients : CallOK(d, call'[d])
  BY DEF LedgerInv
<1>2. \A d \in Clients : call'[d].at = "insert" <=> call[d].at = "insert"
  BY DEF LedgerInv
<1>3. WriterInv'
  BY <1>2, SameLedger DEF LedgerInv, WriterInv
<1>4. \A d \in Clients : CallOK(d, call[d])'
  BY <1>1, CallsSame
<1> QED
  BY <1>1, <1>3, <1>4, SameLedger DEF LedgerInv

Answers == {"none", "created", "existing", "conflict", "denied", "failed", "incompatible",
            "mismatch", "lost"}

\* What an answer makes of a call.
LEMMA AnswerIs ==
  ASSUME LedgerInv, NEW c \in Clients, NEW answer \in Answers, NEW result \in Clients \cup {NoOne},
         Answer(c, answer, result)
  PROVE  /\ call' = [call EXCEPT ![c] = call'[c]] /\ call'[c] \in CallRecord
         /\ call'[c].at = "answered" /\ call'[c].answer = answer /\ call'[c].result = result
         /\ call'[c].known = call[c].known
<1>1. call[c] \in CallRecord /\ call \in [Clients -> CallRecord]
  BY DEF LedgerInv
<1>2. call' = [call EXCEPT ![c] = [call[c] EXCEPT !.at = "answered", !.answer = answer,
                                                  !.result = result]]
  BY <1>1 DEF Answer
<1>3. call'[c] = [call[c] EXCEPT !.at = "answered", !.answer = answer, !.result = result]
  BY <1>1, <1>2
<1> QED
  BY <1>1, <1>2, <1>3 DEF CallRecord, Answers

\* An answer that agrees with the ledger, outside of a transaction.
LEMMA AnswerKeeps ==
  ASSUME LedgerInv, UNCHANGED <<request, rows, writer, pending>>, NEW c \in Clients,
         call[c].at # "insert", NEW answer \in Answers, NEW result \in Clients \cup {NoOne},
         Answer(c, answer, result),
         call[c].known => answer \in {"existing", "lost"},
         answer \in {"created", "existing"} =>
           Stored(Key(c)) = {result} /\ request[result] = request[c],
         answer = "conflict" =>
           \E r \in rows : /\ request[r.of] # request[c]
                           /\ \/ r.table = "admission" /\ r.id = Key(c)
                              \/ r.table = "transaction" /\ r.id = request[c].transaction
                              \/ r.table = "run" /\ r.id = request[c].run
  PROVE  LedgerInv'
<1> DEFINE x == call'[c]
<1>1. /\ call' = [call EXCEPT ![c] = x] /\ x \in CallRecord
      /\ x.at = "answered" /\ x.answer = answer /\ x.result = result
      /\ x.known = call[c].known
  BY AnswerIs
<1>2. CallOK(c, call[c])
  BY DEF LedgerInv
<1> HIDE DEF x
<1>3. CallOK(c, x)
  BY <1>1, <1>2 DEF CallOK
<1> QED
  BY <1>1, <1>3, CallChanges

\* A key that is found bound answers the call truly.
LEMMA Replayed ==
  ASSUME LedgerInv, UNCHANGED <<request, rows, writer, pending>>, NEW c \in Clients,
         call[c].at # "insert", Admitted(Key(c)), Replay(c)
  PROVE  LedgerInv'
<1>1. RowsInv /\ CallOK(c, call[c])
  BY DEF LedgerInv
<1>2. CASE SameRequest(c, Key(c))
  BY <1>1, <1>2, StoredOnce, AnswerKeeps DEF Replay, Answers, SameRequest
<1>3. CASE ~SameRequest(c, Key(c))
  <2>1. ~call[c].known
    BY <1>1, <1>3 DEF CallOK
  <2>2. \E r \in rows : request[r.of] # request[c] /\ r.table = "admission" /\ r.id = Key(c)
    <3>1. [table |-> "admission", id |-> Key(c), of |-> StoredResult(Key(c))] \in rows
      BY <1>1, StoredOnce
    <3>2. request[StoredResult(Key(c))] # request[c]
      BY <1>3 DEF SameRequest
    <3> QED
      BY <3>1, <3>2
  <2> QED
    BY <1>3, <2>1, <2>2, AnswerKeeps DEF Replay, Answers
<1> QED
  BY <1>2, <1>3

-----------------------------------------------------------------------------
(* The actions of an admission *)

\* The call goes on to another step outside of a transaction.
LEMMA GoesOn ==
  ASSUME LedgerInv, UNCHANGED <<request, rows, writer, pending>>, NEW c \in Clients,
         call[c].at = "lookup", ~call[c].known, call' = [call EXCEPT ![c].at = "admit"]
  PROVE  LedgerInv'
<1> DEFINE x == [call[c] EXCEPT !.at = "admit"]
<1>1. x \in CallRecord /\ x.at # "insert"
  BY DEF CallRecord, LedgerInv
<1>2. CallOK(c, x)
  <2>1. /\ x.at = "admit" /\ ~x.known /\ x.answer = call[c].answer
        /\ x.result = call[c].result
    BY DEF LedgerInv, CallRecord
  <2> HIDE DEF x
  <2>2. CallOK(c, call[c])
    BY DEF LedgerInv
  <2> QED
    BY <2>1, <2>2 DEF CallOK
<1>3. call' = [call EXCEPT ![c] = x]
  BY DEF LedgerInv
<1> HIDE DEF x
<1> QED
  BY <1>1, <1>2, <1>3, CallChanges

\* The request is received: the ledger may know it already.
LEMMA ReceiveKeeps ==
  ASSUME LedgerInv, NEW c \in Clients, ReceiveAdmission(c)
  PROVE  LedgerInv'
<1> DEFINE other == request[c].expects # "this runtime"
           x == call'[c]
<1>0. PICK known \in BOOLEAN : known = (Admitted(Key(c)) /\ SameRequest(c, Key(c)))
  OBVIOUS
<1>1. PICK at \in {"answered", "replay", "lookup"}, answer \in {"mismatch", "none"} :
        /\ call' = [call EXCEPT ![c] =
             [NoCall EXCEPT !.at = at, !.answer = answer, !.known = known]]
        /\ other <=> at = "answered"
  BY <1>0 DEF ReceiveAdmission
<1>2. known => ~other
  BY <1>0, StoredOnce DEF SameRequest, LedgerInv
<1>3. /\ call' = [call EXCEPT ![c] = x]
      /\ x = [at |-> at, answer |-> answer, result |-> NoOne, known |-> known]
  BY <1>1 DEF NoCall, LedgerInv
<1> HIDE DEF x
<1>5. x \in CallRecord /\ x.at # "insert" /\ call[c].at # "insert"
  BY <1>3 DEF CallRecord, ReceiveAdmission
<1>6. x.at = at /\ x.answer \in {"mismatch", "none"} /\ x.known = known
  BY <1>3
<1>7. CallOK(c, x)
  BY <1>0, <1>1, <1>2, <1>6 DEF CallOK
<1> QED
  BY <1>3, <1>5, <1>7, CallChanges DEF ReceiveAdmission

\* An old request is answered from the ledger, or not at all.
LEMMA LegacyKeeps ==
  ASSUME LedgerInv, NEW c \in Clients, replayLegacyTaskAdmission(c)
  PROVE  LedgerInv'
<1>1. CASE Admitted(Key(c))
  BY <1>1, Replayed DEF replayLegacyTaskAdmission
<1>2. CASE ~Admitted(Key(c))
  <2>1. ~call[c].known
    BY <1>2 DEF LedgerInv, CallOK
  <2> QED
    BY <1>2, <2>1, AnswerKeeps DEF replayLegacyTaskAdmission, Answers
<1> QED
  BY <1>1, <1>2

\* The key is looked up before the policy is asked.
LEMMA GetKeeps ==
  ASSUME LedgerInv, NEW c \in Clients, GetTaskAdmission(c)
  PROVE  LedgerInv'
<1>1. CASE Admitted(Key(c))
  BY <1>1, Replayed DEF GetTaskAdmission
<1>2. CASE ~Admitted(Key(c))
  <2>1. ~call[c].known
    BY <1>2 DEF LedgerInv, CallOK
  <2>2. CASE ~allowed
    BY <1>2, <2>1, <2>2, AnswerKeeps DEF GetTaskAdmission, Answers
  <2>3. CASE allowed
    BY <1>2, <2>1, <2>3, GoesOn DEF GetTaskAdmission
  <2> QED
    BY <2>2, <2>3
<1> QED
  BY <1>1, <1>2

\* The transaction begins, or finds the key bound in the meantime.
LEMMA BeginKeeps ==
  ASSUME LedgerInv, NEW c \in Clients, BeginAdmitTask(c)
  PROVE  LedgerInv'
<1>1. CASE Admitted(Key(c))
  BY <1>1, Replayed DEF BeginAdmitTask
<1>2. CASE ~Admitted(Key(c))
  <2>1. /\ UNCHANGED <<request, rows, pending>> /\ writer' = c /\ pending = <<>>
        /\ call' = [call EXCEPT ![c].at = "insert"]
    BY <1>2 DEF BeginAdmitTask, LedgerInv, WriterInv
  <2>2. ~call[c].known /\ CallOK(c, call[c]) /\ call[c].at = "admit"
    BY <1>2 DEF LedgerInv, CallOK, BeginAdmitTask
  <2> DEFINE x == [call[c] EXCEPT !.at = "insert"]
  <2>3. /\ x \in CallRecord /\ x.at = "insert" /\ ~x.known
        /\ x.answer = call[c].answer /\ x.result = call[c].result
    BY <2>2 DEF LedgerInv, CallRecord
  <2>4. call' = [call EXCEPT ![c] = x]
    BY <2>1 DEF LedgerInv
  <2> HIDE DEF x
  <2>5. CallOK(c, x)
    BY <2>2, <2>3 DEF CallOK
  <2>6. call' \in [Clients -> CallRecord] /\ \A d \in Clients : CallOK(d, call'[d])
    BY <2>3, <2>4, <2>5 DEF LedgerInv
  <2>7. \A d \in Clients : CallOK(d, call[d])'
    BY <2>1, <2>6, CallsSame
  <2>8. \A d \in Clients : call'[d].at = "insert" <=> c = d
    BY <2>3, <2>4, AssignmentsAssumption DEF LedgerInv, WriterInv, BeginAdmitTask
  <2>9. WriterInv'
    <3>1. pending' = <<>> /\ Len(pending') = 0 /\ pending' \in Seq(RowsOf(Prepared(c)))
      BY <2>1
    <3>2. ~Admitted(Key(writer))'
      BY <1>2, <2>1, SameLedger DEF Key
    <3>3. Len(Prepared(writer))' = 5 /\ RowsOf(Prepared(writer))' = RowsOf(Prepared(c))
      BY <2>1, PreparedIs DEF Prepared, Key, RowsOf
    <3>4. \A i \in 1..Len(pending') :
            pending'[i] = Prepared(writer)'[i] /\ ~Taken(pending[i])'
      BY <3>1
    <3>5. writer' # NoOne /\ writer' \in Clients
      BY <2>1, AssignmentsAssumption
    <3> QED
      BY <2>1, <2>8, <3>1, <3>2, <3>3, <3>4, <3>5 DEF WriterInv
  <2> QED
    BY <2>1, <2>6, <2>7, <2>9, SameLedger DEF LedgerInv
<1> QED
  BY <1>1, <1>2

\* A transaction that is rolled back leaves the ledger as it was.
LEMMA AbandonKeeps ==
  ASSUME LedgerInv, NEW c \in Clients, writer = c, UNCHANGED request,
         NEW answer \in {"conflict", "failed"}, Abandon(c, answer),
         answer = "conflict" =>
           \E r \in rows : /\ request[r.of] # request[c]
                           /\ \/ r.table = "admission" /\ r.id = Key(c)
                              \/ r.table = "transaction" /\ r.id = request[c].transaction
                              \/ r.table = "run" /\ r.id = request[c].run
  PROVE  LedgerInv'
<1>1. UNCHANGED <<request, rows>> /\ writer' = NoOne /\ pending' = <<>>
  BY DEF Abandon, Rollback
<1> DEFINE x == call'[c]
<1>2. /\ call' = [call EXCEPT ![c] = x] /\ x \in CallRecord
      /\ x.at = "answered" /\ x.answer = answer /\ x.result = NoOne
      /\ x.known = call[c].known
  BY AnswerIs DEF Abandon, Answers
<1>3. CallOK(c, call[c]) /\ call[c].at = "insert"
  BY DEF LedgerInv, WriterInv
<1> HIDE DEF x
<1>4. CallOK(c, x)
  BY <1>2, <1>3 DEF CallOK
<1>5. call' \in [Clients -> CallRecord] /\ \A d \in Clients : CallOK(d, call'[d])
  BY <1>2, <1>4 DEF LedgerInv
<1>6. \A d \in Clients : CallOK(d, call[d])'
  BY <1>1, <1>5, CallsSame
<1>7. \A d \in Clients : call'[d].at # "insert"
  BY <1>2 DEF LedgerInv, WriterInv
<1>8. WriterInv'
  BY <1>1, <1>7, AssignmentsAssumption DEF WriterInv
<1> QED
  BY <1>1, <1>5, <1>6, <1>8, SameLedger DEF LedgerInv

\* A row whose primary key is in use is of another request: an admission of
\* the same request would have bound the key.
LEMMA TakenByAnother ==
  ASSUME RowsInv, NEW c \in Clients, ~Admitted(Key(c)), NEW i \in 1..5, Taken(Prepared(c)[i])
  PROVE  \E r \in rows : /\ request[r.of] # request[c]
                         /\ \/ r.table = "admission" /\ r.id = Key(c)
                            \/ r.table = "transaction" /\ r.id = request[c].transaction
                            \/ r.table = "run" /\ r.id = request[c].run
<1> DEFINE row == Prepared(c)[i]
<1>1. PICK r \in rows : r.table = row.table /\ r.id = row.id /\ row.table # "contract"
  BY DEF Taken
<1> DEFINE x == r.of
<1>2. /\ [table |-> "transaction", id |-> request[x].transaction, of |-> x] \in rows
      /\ [table |-> "admission", id |-> Key(x), of |-> x] \in rows
  <2>1. \A j \in DOMAIN Prepared(x) : Prepared(x)[j] \in rows
    BY DEF RowsInv, AdmissionWhole
  <2>2. 4 \in DOMAIN Prepared(x) /\ 5 \in DOMAIN Prepared(x)
    <3>1. DOMAIN Prepared(x) = 1..5
      BY PreparedIs
    <3> QED
      BY <3>1
  <2>3. Prepared(x)[4] \in rows /\ Prepared(x)[5] \in rows
    BY <2>1, <2>2
  <2> QED
    BY <2>3, PreparedIs
<1>3. request[x] # request[c]
  <2> SUFFICES ASSUME request[x] = request[c] PROVE FALSE
    OBVIOUS
  <2>1. Key(x) = Key(c)
    BY DEF Key
  <2>2. x \in Stored(Key(c))
    BY <1>2, <2>1 DEF Stored
  <2> QED
    BY <2>2 DEF Admitted
<1>4. r \in {[table |-> "contract", id |-> x, of |-> x],
             [table |-> "task", id |-> request[x].transaction, of |-> x],
             [table |-> "run", id |-> request[x].run, of |-> x],
             [table |-> "transaction", id |-> request[x].transaction, of |-> x],
             [table |-> "admission", id |-> Key(x), of |-> x]}
  BY RowsOfPrepared DEF RowsInv
<1>5. row \in {[table |-> "contract", id |-> c, of |-> c],
               [table |-> "task", id |-> request[c].transaction, of |-> c],
               [table |-> "run", id |-> request[c].run, of |-> c],
               [table |-> "transaction", id |-> request[c].transaction, of |-> c],
               [table |-> "admission", id |-> Key(c), of |-> c]}
  <2>1. row \in RowsOf(Prepared(c))
    BY PreparedIs DEF RowsOf
  <2> QED
    BY <2>1, RowsOfPrepared
<1> HIDE DEF row, x
<1>6. CASE r.table = "task"
  <2>1. request[x].transaction = request[c].transaction
    <3>1. r.id = request[x].transaction
      BY <1>4, <1>6
    <3>2. row.table = "task"
      BY <1>1, <1>6
    <3>3. row.id = request[c].transaction
      BY <1>5, <3>2
    <3> QED
      BY <1>1, <3>1, <3>3
  <2> DEFINE q == [table |-> "transaction", id |-> request[x].transaction, of |-> x]
  <2>2. q \in rows /\ q.table = "transaction" /\ q.id = request[c].transaction /\ q.of = x
    BY <1>2, <2>1
  <2> QED
    BY <1>3, <2>2
<1>7. CASE r.table # "task"
  <2>1. \/ r.table = "admission" /\ r.id = Key(c)
        \/ r.table = "transaction" /\ r.id = request[c].transaction
        \/ r.table = "run" /\ r.id = request[c].run
    BY <1>1, <1>5, <1>7
  <2> QED
    BY <1>3, <2>1 DEF x
<1> QED
  BY <1>6, <1>7

\* What the transaction that is open holds.
LEMMA Inserting ==
  ASSUME LedgerInv, NEW c \in Clients, writer = c
  PROVE  /\ ~Admitted(Key(c)) /\ Len(pending) \in Nat /\ Len(pending) <= 5 /\ Len(Prepared(c)) = 5
         /\ pending \in Seq(RowsOf(Prepared(c)))
         /\ \A i \in 1..Len(pending) : pending[i] = Prepared(c)[i] /\ ~Taken(pending[i])
         /\ \A i \in 1..5 : Prepared(c)[i] \in RowsOf(Prepared(c))
<1>1. Len(Prepared(c)) = 5 /\ DOMAIN Prepared(c) = 1..5
  BY PreparedIs
<1>2. \A i \in 1..5 : Prepared(c)[i] \in RowsOf(Prepared(c))
  BY <1>1 DEF RowsOf
<1>3. /\ ~Admitted(Key(c)) /\ Len(pending) <= Len(Prepared(c))
      /\ pending \in Seq(RowsOf(Prepared(c)))
      /\ \A i \in 1..Len(pending) : pending[i] = Prepared(c)[i] /\ ~Taken(pending[i])
  BY AssignmentsAssumption DEF LedgerInv, WriterInv
<1>4. Len(pending) \in Nat /\ Len(pending) <= 5
  <2>1. Len(pending) \in Nat
    BY <1>3
  <2>2. Len(pending) <= 5
    BY <1>1, <1>3
  <2> QED
    BY <2>1, <2>2
<1> QED
  BY <1>1, <1>2, <1>3, <1>4

\* A row is inserted, or the transaction is rolled back.
LEMMA InsertKeeps ==
  ASSUME LedgerInv, NEW c \in Clients, InsertRow(c)
  PROVE  LedgerInv'
<1> DEFINE n == Len(pending)
           row == Prepared(c)[n + 1]
<1>1. writer = c /\ call[c].at = "insert" /\ UNCHANGED request /\ n < Len(Prepared(c))
  BY DEF InsertRow
<1>2. n + 1 \in 1..5
  BY <1>1, Inserting
<1>3. CASE ~Taken(row) /\ pending' = Append(pending, row) /\ UNCHANGED <<rows, writer, call>>
  <2>1. /\ pending' \in Seq(RowsOf(Prepared(c))) /\ Len(pending') = n + 1
        /\ \A i \in 1..(n + 1) : pending'[i] = IF i = n + 1 THEN row ELSE pending[i]
    <3>1. pending \in Seq(RowsOf(Prepared(c))) /\ row \in RowsOf(Prepared(c))
      BY <1>1, <1>2, Inserting
    <3> HIDE DEF row
    <3> QED
      BY <1>3, <3>1
  <2>2. \A i \in 1..Len(pending') : pending'[i] = Prepared(c)[i] /\ ~Taken(pending'[i])
    <3> TAKE i \in 1..Len(pending')
    <3>1. CASE i = n + 1
      BY <1>3, <2>1, <3>1
    <3>2. CASE i # n + 1
      <4>1. i \in 1..n
        BY <2>1, <3>2, <1>2
      <4>2. pending[i] = Prepared(c)[i] /\ ~Taken(pending[i])
        BY <1>1, <4>1, Inserting
      <4> QED
        BY <2>1, <3>2, <4>2
    <3> QED
      BY <3>1, <3>2
  <2>3. Len(pending') <= 5 /\ ~Admitted(Key(c)) /\ Len(Prepared(c)) = 5
    BY <1>1, <1>2, <2>1, Inserting
  <2>4. writer' = c /\ Prepared(c)' = Prepared(c) /\ ~Admitted(Key(c))' /\ Key(c)' = Key(c)
    BY <1>1, <1>3, <2>3, SameLedger DEF Key, Admitted, Stored
  <2>5. \A y : Taken(y)' <=> Taken(y)
    BY <1>1, <1>3, SameLedger
  <2>6. \A i \in 1..Len(pending') : ~Taken(pending[i])'
    BY <2>2, <1>1, <1>3 DEF Taken
  <2>7. WriterInv'
    <3>1. c # NoOne
      BY AssignmentsAssumption
    <3>2. \A d \in Clients : call'[d].at = "insert" <=> writer' = d
      BY <1>3 DEF LedgerInv, WriterInv
    <3>3. RowsOf(Prepared(writer))' = RowsOf(Prepared(c)) /\ Len(Prepared(writer))' = 5
      BY <2>3, <2>4 DEF RowsOf
    <3>4. Prepared(writer)' = Prepared(c) /\ ~Admitted(Key(writer))'
      BY <2>4 DEF Key
    <3> QED
      BY <2>1, <2>2, <2>3, <2>4, <2>6, <3>1, <3>2, <3>3, <3>4 DEF WriterInv
  <2> QED
    BY <1>1, <1>3, <2>7, SameLedger, CallsSame DEF LedgerInv
<1>4. CASE Taken(row) /\ Abandon(c, "conflict")
  <2>1. RowsInv /\ ~Admitted(Key(c))
    BY <1>1, Inserting DEF LedgerInv
  <2> QED
    BY <1>1, <1>2, <1>4, <2>1, TakenByAnother, AbandonKeeps
<1>5. CASE Abandon(c, "failed")
  BY <1>1, <1>5, AbandonKeeps
<1> QED
  BY <1>3, <1>4, <1>5 DEF InsertRow

\* The rows of an admission are committed together: the ledger grows by one
\* whole admission under a key that was free, and whatever was true of the
\* other calls still is.
LEMMA CommitKeeps ==
  ASSUME LedgerInv, NEW c \in Clients, CommitAdmission(c)
  PROVE  LedgerInv' /\ \A k : Stored(k) # {} => Stored(k)' = Stored(k)
<1>1. /\ writer = c /\ call[c].at = "insert" /\ UNCHANGED request
      /\ Len(pending) = 5
  BY PreparedIs DEF CommitAdmission
<1>2. CASE Abandon(c, "failed")
  BY <1>1, <1>2, AbandonKeeps, SameLedger DEF Abandon, Rollback
<1>3. CASE /\ rows' = rows \cup RowsOf(pending) /\ writer' = NoOne /\ pending' = <<>>
           /\ Answer(c, "created", c)
  <2> DEFINE New == RowsOf(Prepared(c))
  <2>1. pending = Prepared(c)
    <3>1. pending \in Seq(RowsOf(Prepared(c))) /\ \A i \in 1..5 : pending[i] = Prepared(c)[i]
      BY <1>1, Inserting
    <3>2. Prepared(c) \in Seq(RowsOf(Prepared(c))) /\ Len(Prepared(c)) = 5
      <4>1. \A i \in {1, 2, 3, 4, 5} : Prepared(c)[i] \in RowsOf(Prepared(c))
        BY <1>1, Inserting
      <4> DEFINE S == RowsOf(Prepared(c))
      <4>2. \A a, b, d, e, f \in S : <<a, b, d, e, f>> \in Seq(S)
        OBVIOUS
      <4>3. Prepared(c) = <<Prepared(c)[1], Prepared(c)[2], Prepared(c)[3], Prepared(c)[4],
                            Prepared(c)[5]>>
        BY DEF Prepared
      <4>4. <<Prepared(c)[1], Prepared(c)[2], Prepared(c)[3], Prepared(c)[4], Prepared(c)[5]>>
              \in Seq(S)
        <5> HIDE DEF S
        <5>1. /\ Prepared(c)[1] \in S /\ Prepared(c)[2] \in S /\ Prepared(c)[3] \in S
              /\ Prepared(c)[4] \in S /\ Prepared(c)[5] \in S
          BY <4>1 DEF S
        <5> QED
          BY <4>2, <5>1
      <4> HIDE DEF S
      <4> QED
        BY <4>4, <4>3, PreparedIs DEF S
    <3> DEFINE P == Prepared(c)
    <3> HIDE DEF P
    <3> QED
      BY <1>1, <3>1, <3>2 DEF P
  <2>2. rows' = rows \cup New /\ \A y \in New : ~Taken(y)
    <3>1. rows' = rows \cup New
      BY <1>3, <2>1
    <3>2. \A i \in 1..5 : ~Taken(pending[i])
      BY <1>1, Inserting
    <3>3. DOMAIN pending = 1..5
      BY <2>1, PreparedIs
    <3> QED
      BY <2>1, <3>1, <3>2, <3>3 DEF RowsOf
  <2>3. New = {[table |-> "contract", id |-> c, of |-> c],
               [table |-> "task", id |-> request[c].transaction, of |-> c],
               [table |-> "run", id |-> request[c].run, of |-> c],
               [table |-> "transaction", id |-> request[c].transaction, of |-> c],
               [table |-> "admission", id |-> Key(c), of |-> c]}
    BY RowsOfPrepared
  <2>4. \A y \in New : y.of = c
    BY <2>3
  <2>5. request[c].expects = "this runtime" /\ ~Admitted(Key(c)) /\ RowsInv
    BY <1>1, Inserting DEF LedgerInv, CallOK
  <2>6. \A d : Prepared(d)' = Prepared(d) /\ Key(d)' = Key(d)
    BY <1>1 DEF Prepared, Key
  <2>7. RowsInv'
    <3> HIDE DEF New
    <3>1. request' \in [Clients -> Requests]
      BY <1>1, <2>5 DEF RowsInv
    <3>2. \A r \in rows' : r.of \in Clients /\ r \in RowsOf(Prepared(r.of))
      BY <2>2, <2>4, <2>5 DEF RowsInv, New
    <3>3. \A r \in rows' : request'[r.of].expects = "this runtime"
      BY <1>1, <2>2, <2>4, <2>5 DEF RowsInv
    <3>4. \A r \in rows' : \A i \in DOMAIN Prepared(r.of) : Prepared(r.of)[i] \in rows'
      <4> TAKE r \in rows'
      <4>1. CASE r \in rows
        BY <2>2, <2>5, <4>1 DEF RowsInv, AdmissionWhole
      <4>2. CASE r \in New
        BY <2>2, <2>4, <4>2 DEF New, RowsOf
      <4> QED
        BY <2>2, <4>1, <4>2
    <3>5. \A r, q \in rows' : r.table = q.table /\ r.id = q.id => r = q
      <4>1. \A r, q \in rows : r.table = q.table /\ r.id = q.id => r = q
        BY <2>5 DEF RowsInv, AdmissionWhole
      <4>2. \A r, q \in New : r.table = q.table => r = q
        BY <2>3 DEF New
      <4>3. ASSUME NEW r \in rows, NEW q \in New, r.table = q.table, r.id = q.id PROVE r = q
        <5>1. q.table = "contract"
          BY <2>2, <4>3 DEF Taken
        <5>2. q = [table |-> "contract", id |-> c, of |-> c]
          BY <2>3, <5>1 DEF New
        <5>3. r \in RowsOf(Prepared(r.of))
          BY <2>5 DEF RowsInv
        <5> DEFINE x == r.of
        <5>4. r \in {[table |-> "contract", id |-> x, of |-> x],
                     [table |-> "task", id |-> request[x].transaction, of |-> x],
                     [table |-> "run", id |-> request[x].run, of |-> x],
                     [table |-> "transaction", id |-> request[x].transaction, of |-> x],
                     [table |-> "admission", id |-> Key(x), of |-> x]}
          BY <5>3, RowsOfPrepared
        <5> HIDE DEF x
        <5>5. r = [table |-> "contract", id |-> x, of |-> x]
          BY <4>3, <5>1, <5>4
        <5>6. x = c
          BY <4>3, <5>2, <5>5
        <5> QED
          BY <5>2, <5>5, <5>6
      <4> QED
        BY <2>2, <4>1, <4>2, <4>3
    <3>6. AdmissionWhole'
      BY <2>6, <3>4, <3>5 DEF AdmissionWhole
    <3>7. \A r \in rows' : r \in RowsOf(Prepared(r.of))'
      BY <2>6, <3>2 DEF RowsOf
    <3> QED
      BY <3>1, <3>2, <3>3, <3>6, <3>7 DEF RowsInv
  <2>8. /\ Stored(Key(c))' = {c}
        /\ \A k : k # Key(c) => Stored(k)' = Stored(k)
    <3>1. \A k : {q \in rows' : q.table = "admission" /\ q.id = k} =
                   {q \in rows : q.table = "admission" /\ q.id = k} \cup
                   {q \in New : q.table = "admission" /\ q.id = k}
      BY <2>2
    <3>2. \A k : {q \in New : q.table = "admission" /\ q.id = k} =
                   IF k = Key(c) THEN {[table |-> "admission", id |-> Key(c), of |-> c]} ELSE {}
      BY <2>3
    <3>3. {q \in rows : q.table = "admission" /\ q.id = Key(c)} = {}
      BY <2>5 DEF Admitted, Stored
    <3>4. Stored(Key(c))' = {r.of : r \in {q \in rows' : q.table = "admission" /\ q.id = Key(c)}}
      BY <2>6 DEF Stored
    <3> HIDE DEF New
    <3>5. Stored(Key(c))' = {c}
      <4> DEFINE y == [table |-> "admission", id |-> Key(c), of |-> c]
      <4>1. {q \in rows' : q.table = "admission" /\ q.id = Key(c)} = {y}
        BY <3>1, <3>2, <3>3
      <4>2. y.of = c
        OBVIOUS
      <4> HIDE DEF y
      <4> QED
        BY <3>4, <4>1, <4>2
    <3>6. ASSUME NEW k, k # Key(c) PROVE Stored(k)' = Stored(k)
      BY <3>1, <3>2, <3>6 DEF Stored
    <3> QED
      BY <3>5, <3>6
  <2> DEFINE x == call'[c]
  <2>9. /\ call' = [call EXCEPT ![c] = x] /\ x \in CallRecord
        /\ x.at = "answered" /\ x.answer = "created" /\ x.result = c
        /\ x.known = call[c].known
    BY <1>3, AnswerIs DEF Answers
  <2> HIDE DEF x, New
  <2>10. ~call[c].known
    BY <2>5 DEF LedgerInv, CallOK
  <2>11. \A d \in Clients : CallOK(d, call[d])'
    <3> TAKE d \in Clients
    <3>1. CASE d = c
      <4>1. call'[d] = x /\ Key(d)' = Key(c) /\ Stored(Key(d))' = {c} /\ request'[c] = request[c]
        BY <1>1, <2>6, <2>8, <3>1 DEF Stored, x
      <4> QED
        BY <2>9, <2>10, <3>1, <4>1 DEF CallOK
    <3>2. CASE d # c
      <4>1. CallOK(d, call[d]) /\ call'[d] = call[d]
        BY <2>9, <3>2 DEF LedgerInv
      <4>2. Stored(Key(d)) # {} => Stored(Key(d))' = Stored(Key(d))
        <5>1. Stored(Key(d)) # {} => Key(d) # Key(c)
          BY <2>5 DEF Admitted
        <5> QED
          BY <1>1, <2>8, <5>1 DEF Stored, Key
      <4>3. /\ Admitted(Key(d)) => Admitted(Key(d))'
            /\ Admitted(Key(d)) /\ SameRequest(d, Key(d)) => SameRequest(d, Key(d))'
        BY <1>1, <4>2 DEF Admitted, SameRequest, StoredResult
      <4>4. rows \subseteq rows' /\ request' = request /\ Key(d)' = Key(d)
        BY <1>1, <2>2, <2>6
      <4> QED
        BY <4>1, <4>2, <4>3, <4>4 DEF CallOK
    <3> QED
      BY <3>1, <3>2
  <2>12. call' \in [Clients -> CallRecord] /\ \A d \in Clients : call'[d].at # "insert"
    BY <1>1, <2>9 DEF LedgerInv, WriterInv
  <2>13. WriterInv'
    BY <1>3, <2>12, AssignmentsAssumption DEF WriterInv
  <2>14. \A k : Stored(k) # {} => Stored(k)' = Stored(k)
    BY <2>5, <2>8 DEF Admitted
  <2> QED
    BY <2>7, <2>11, <2>12, <2>13, <2>14 DEF LedgerInv
<1> QED
  BY <1>2, <1>3 DEF CommitAdmission

\* A call that is over is forgotten.
LEMMA ResetKeeps ==
  ASSUME LedgerInv, UNCHANGED <<request, rows, writer, pending>>, NEW c \in Clients,
         call[c].at # "insert", call' = [call EXCEPT ![c] = NoCall]
  PROVE  LedgerInv'
<1>1. NoCall \in CallRecord /\ NoCall.at # "insert" /\ CallOK(c, NoCall)
  BY DEF NoCall, CallRecord, CallOK
<1> QED
  BY <1>1, CallChanges

\* Whatever was not committed is gone with the daemon, and no call is
\* answered.
LEMMA DieKeeps ==
  ASSUME LedgerInv, Die
  PROVE  LedgerInv'
<1>1. UNCHANGED <<request, rows>> /\ writer' = NoOne /\ pending' = <<>>
  BY DEF Die
<1>2. ASSUME NEW d \in Clients
      PROVE  call'[d] \in CallRecord /\ call'[d].at # "insert" /\ CallOK(d, call'[d])
  <2>1. call[d] \in CallRecord /\ CallOK(d, call[d])
    BY DEF LedgerInv
  <2>2. CASE call[d].at \in {"idle", "answered"}
    <3>1. call'[d] = call[d]
      BY <2>2 DEF Die
    <3> QED
      BY <2>1, <2>2, <3>1
  <2>3. CASE call[d].at \notin {"idle", "answered"}
    <3> DEFINE x == [call[d] EXCEPT !.at = "answered", !.answer = "lost"]
    <3>1. call'[d] = x
      BY <2>3 DEF Die
    <3>2. /\ x \in CallRecord /\ x.at = "answered" /\ x.answer = "lost"
          /\ x.known = call[d].known
      BY <2>1 DEF CallRecord
    <3> HIDE DEF x
    <3> QED
      BY <2>1, <3>1, <3>2 DEF CallOK
  <2> QED
    BY <2>2, <2>3
<1>3. call' \in [Clients -> CallRecord]
  BY <1>2 DEF Die
<1>4. WriterInv'
  BY <1>1, <1>2, AssignmentsAssumption DEF WriterInv
<1> QED
  BY <1>1, <1>2, <1>3, <1>4, SameLedger, CallsSame DEF LedgerInv

\* A first ledger is empty, or holds the admission of one old request.
LEMMA LedgerInit == Init => LedgerInv
<1> SUFFICES ASSUME Init PROVE LedgerInv
  OBVIOUS
<1>1. /\ request \in [Clients -> Requests] /\ writer = NoOne /\ pending = <<>>
      /\ call = [c \in Clients |-> NoCall]
      /\ \/ rows = {}
         \/ \E c \in Clients : request[c].version = "v0" /\ rows = RowsOf(Prepared(c))
  BY AssignmentsAssumption DEF Init, InitAdmission
<1>2. RowsInv
  <2>1. CASE rows = {}
    BY <1>1, <2>1 DEF RowsInv, AdmissionWhole
  <2>2. CASE rows # {}
    <3>1. PICK c \in Clients : request[c].version = "v0" /\ rows = RowsOf(Prepared(c))
      BY <1>1, <2>2
    <3>2. request[c].expects = "this runtime"
      BY <1>1, <3>1, AssignmentsAssumption
    <3>3. rows = {[table |-> "contract", id |-> c, of |-> c],
                  [table |-> "task", id |-> request[c].transaction, of |-> c],
                  [table |-> "run", id |-> request[c].run, of |-> c],
                  [table |-> "transaction", id |-> request[c].transaction, of |-> c],
                  [table |-> "admission", id |-> Key(c), of |-> c]}
      BY <3>1, RowsOfPrepared
    <3>4. \A r \in rows : r.of = c
      BY <3>3
    <3>5. \A r, q \in rows : r.table = q.table => r = q
      BY <3>3
    <3>6. \A i \in DOMAIN Prepared(c) : Prepared(c)[i] \in rows
      BY <3>1 DEF RowsOf
    <3>7. AdmissionWhole
      BY <3>4, <3>5, <3>6 DEF AdmissionWhole
    <3> QED
      BY <1>1, <3>1, <3>2, <3>4, <3>7 DEF RowsInv
  <2> QED
    BY <2>1, <2>2
<1>3. \A c \in Clients : call[c] = NoCall
  BY <1>1
<1>4. NoCall \in CallRecord /\ NoCall.at = "idle" /\ \A c \in Clients : CallOK(c, NoCall)
  BY DEF NoCall, CallRecord, CallOK
<1>5. WriterInv
  BY <1>1, <1>3, <1>4, AssignmentsAssumption DEF WriterInv
<1> QED
  BY <1>1, <1>2, <1>3, <1>4, <1>5 DEF LedgerInv

\* One step of an admission keeps the ledger in order, and what is stored
\* under a key stays.
LEMMA AdmissionKeeps ==
  ASSUME LedgerInv, NEW c \in Clients, AdmissionCall(c)
  PROVE  LedgerInv' /\ UNCHANGED request /\ \A k : Stored(k) # {} => Stored(k)' = Stored(k)
<1>1. CASE CommitAdmission(c)
  BY <1>1, CommitKeeps DEF CommitAdmission
<1>2. CASE ~CommitAdmission(c)
  <2>1. UNCHANGED <<request, rows>>
    BY <1>2 DEF AdmissionCall, ReceiveAdmission, replayLegacyTaskAdmission, GetTaskAdmission,
                BeginAdmitTask, InsertRow, Abandon, Rollback
  <2>2. LedgerInv'
    BY <1>2, ReceiveKeeps, LegacyKeeps, GetKeeps, BeginKeeps, InsertKeeps DEF AdmissionCall
  <2> QED
    BY <2>1, <2>2, SameLedger
<1> QED
  BY <1>1, <1>2

\* So does every step of the system.
LEMMA LedgerStep ==
  ASSUME LedgerInv, [Next]_vars
  PROVE  LedgerInv' /\ UNCHANGED request /\ \A k : Stored(k) # {} => Stored(k)' = Stored(k)
<1>1. ASSUME UNCHANGED <<request, rows, writer, pending, call>>
      PROVE  LedgerInv' /\ \A k : Stored(k)' = Stored(k)
  BY <1>1, LedgerFrame, SameLedger
<1>2. ASSUME NEW c \in Clients, BeginRun(c) \/ AdmissionAnswered(c)
      PROVE  LedgerInv' /\ UNCHANGED request /\ \A k : Stored(k)' = Stored(k)
  <2>1. /\ UNCHANGED <<request, rows, writer, pending>> /\ call[c].at # "insert"
        /\ call' = [call EXCEPT ![c] = NoCall]
    BY <1>2 DEF BeginRun, AdmissionAnswered
  <2> QED
    BY <2>1, ResetKeeps, SameLedger
<1>3. ASSUME Stop PROVE LedgerInv' /\ UNCHANGED request /\ \A k : Stored(k)' = Stored(k)
  BY <1>3, DieKeeps, SameLedger DEF Stop, Die
<1>4. ASSUME NEW policy \in BOOLEAN, Restart(policy)
      PROVE  UNCHANGED <<request, rows, writer, pending, call>>
  BY <1>4 DEF Restart, Revive, admissionVars
<1>5. ASSUME NEW c \in Clients, ClientStep(c)
      PROVE  \/ Admit(c) \/ AdmissionAnswered(c)
             \/ UNCHANGED <<request, rows, writer, pending, call>>
  BY <1>5 DEF ClientStep, Unreachable, preflightRuntime, GetTransaction, StartTransaction,
              CreateTransactionWorktree, DecideExecution, RunTransactionAgent,
              StartAgentExecution, FinishAgentExecution, StageTransaction, ValidateTransaction,
              Call, admissionVars
<1>6. ASSUME NEW c \in Clients, Kill(c) \/ CreationFails(c)
      PROVE  UNCHANGED <<request, rows, writer, pending, call>>
  BY <1>6 DEF Kill, CreationFails
<1>7. ASSUME NEW k \in Transactions, HandlerStep(k) \/ PrepareFails(k) \/ CleanupFails(k)
      PROVE  UNCHANGED <<request, rows, writer, pending, call>>
  BY <1>7 DEF HandlerStep, LaunchAgent, SettleAgent, PrepareFails, CleanupFails, admissionVars
<1>8. ASSUME NEW k \in Transactions, NEW s, OthersDecide(k, s)
      PROVE  UNCHANGED <<request, rows, writer, pending, call>>
  BY <1>8 DEF OthersDecide, admissionVars
<1>9. ASSUME UNCHANGED vars PROVE UNCHANGED <<request, rows, writer, pending, call>>
  BY <1>9 DEF vars, admissionVars
<1>10. ASSUME NEW c \in Clients, Admit(c)
       PROVE  LedgerInv' /\ UNCHANGED request /\ \A k : Stored(k) # {} => Stored(k)' = Stored(k)
  BY <1>10, AdmissionKeeps DEF Admit
<1>11. ASSUME NEW k \in Transactions, AuthorityEnds(k) \/ Disturb(k) \/ Repair(k)
       PROVE  UNCHANGED <<request, rows, writer, pending, call>>
  BY <1>11 DEF AuthorityEnds, Disturb, Repair, admissionVars
<1> QED
  BY <1>1, <1>2, <1>3, <1>4, <1>5, <1>6, <1>7, <1>8, <1>9, <1>10, <1>11
     DEF Next, Crash, StopStuck

-----------------------------------------------------------------------------
(* Lemmas on transactions, locks and clients *)

\* Where a client may be sent, and what it has seen then.
LEMMA Records ==
  /\ \A code \in {0, 1} : /\ Exited(code) \in ClientRecord /\ ~Exited(code).current
                          /\ Exited(code).pc = "exited" /\ Exited(code).view = NoOne
  /\ \A p \in Seen, where \in Places :
       /\ Sees(p, where) \in ClientRecord /\ Sees(p, where).current
       /\ Sees(p, where).view = p /\ Sees(p, where).pc = where
  /\ \A x \in ClientRecord : \A where \in Places :
       /\ [x EXCEPT !.pc = where] \in ClientRecord
       /\ [x EXCEPT !.pc = where].pc = where /\ [x EXCEPT !.pc = where].view = x.view
       /\ [x EXCEPT !.pc = where].current = x.current
  /\ \A x \in ClientRecord :
       /\ [x EXCEPT !.current = FALSE] \in ClientRecord
       /\ ~[x EXCEPT !.current = FALSE].current
       /\ [x EXCEPT !.current = FALSE].pc = x.pc /\ [x EXCEPT !.current = FALSE].view = x.view
<1>1. \A code \in {0, 1} : /\ Exited(code) \in ClientRecord /\ ~Exited(code).current
                           /\ Exited(code).pc = "exited" /\ Exited(code).view = NoOne
  BY DEF Exited, Nowhere, ClientRecord, Places
<1>2. \A p \in Seen, where \in Places :
       /\ Sees(p, where) \in ClientRecord /\ Sees(p, where).current
       /\ Sees(p, where).view = p /\ Sees(p, where).pc = where
  BY DEF Sees, ClientRecord
<1>3. \A x \in ClientRecord : \A where \in Places :
       /\ [x EXCEPT !.pc = where] \in ClientRecord
       /\ [x EXCEPT !.pc = where].pc = where /\ [x EXCEPT !.pc = where].view = x.view
       /\ [x EXCEPT !.pc = where].current = x.current
  BY DEF ClientRecord
<1>4. \A x \in ClientRecord :
       /\ [x EXCEPT !.current = FALSE] \in ClientRecord
       /\ ~[x EXCEPT !.current = FALSE].current
       /\ [x EXCEPT !.current = FALSE].pc = x.pc /\ [x EXCEPT !.current = FALSE].view = x.view
  BY DEF ClientRecord
<1> QED
  BY <1>1, <1>2, <1>3, <1>4

\* Handlers keep their locks and slots: a transaction that is locked is left
\* alone, and whoever waits for a handler goes on waiting.
LEMMA LockFrame ==
  ASSUME LockInv, SlotInv, UNCHANGED <<serving, slots, request>>, up => up',
         \A k \in Transactions : serving[k] # Idle => tx'[k] = tx[k],
         \A d \in Clients : At(d, "agent") => client'[d].pc = "agent"
  PROVE  LockInv' /\ SlotInv'
<1>1. ASSUME NEW k \in Transactions PROVE LockOK(k)'
  <2> SUFFICES ASSUME serving[k] # Idle PROVE LockOK(k)'
    BY DEF LockOK
  <2>1. LockOK(k) /\ tx'[k] = tx[k] /\ serving'[k] = serving[k]
    BY DEF LockInv
  <2>2. serving[k].by # NoOne => serving[k].by \in Clients
    BY DEF LockInv, Handler, Idle
  <2>3. serving[k].by # NoOne =>
          client'[serving[k].by].pc = "agent" /\ request'[serving[k].by].transaction = k
    BY <2>1, <2>2 DEF LockOK, TxOf
  <2> QED
    BY <2>1, <2>3 DEF LockOK, At, TxOf
<1>2. LockInv'
  BY <1>1 DEF LockInv
<1>3. SlotInv'
  BY DEF SlotInv, SlotsAccounted, Busy
<1> QED
  BY <1>2, <1>3

\* Only client c moved, and it was not waiting for a handler.
LEMMA OneClient ==
  ASSUME RunInv, UNCHANGED <<tx, serving, slots, request>>, up => up', NEW c \in Clients,
         ~At(c, "agent"), NEW x \in ClientRecord, client' = [client EXCEPT ![c] = x],
         ClientOK(c, x)
  PROVE  RunInv'
<1>1. TxInv'
  BY DEF RunInv, TxInv, TxOK
<1>2. LockInv' /\ SlotInv'
  BY LockFrame DEF RunInv, At, ClientInv
<1>3. client' \in [Clients -> ClientRecord] /\ \A d \in Clients : ClientOK(d, client'[d])
  BY DEF RunInv, ClientInv
<1>4. \A d \in Clients : ClientOK(d, client[d])'
  BY <1>3 DEF ClientOK, TxOf
<1> QED
  BY <1>1, <1>2, <1>3, <1>4 DEF RunInv, ClientInv

\* Client c ended.
LEMMA OneExit ==
  ASSUME RunInv, UNCHANGED <<tx, serving, slots, request>>, up => up', NEW c \in Clients,
         ~At(c, "agent"), NEW code \in {0, 1}, client' = [client EXCEPT ![c] = Exited(code)]
  PROVE  RunInv'
<1>1. Exited(code) \in ClientRecord /\ ClientOK(c, Exited(code))
  BY Records DEF ClientOK
<1> QED
  BY <1>1, OneClient

\* Client c went on with what it has seen.
LEMMA OneGoto ==
  ASSUME RunInv, UNCHANGED <<tx, serving, slots, request>>, up => up', NEW c \in Clients,
         ~At(c, "agent"), NEW where \in Places, Goto(c, where),
         where \in {"run", "spawn"} => View(c).exec \notin {"running", "succeeded"}
  PROVE  RunInv'
<1> DEFINE x == [client[c] EXCEPT !.pc = where]
<1>1. client[c] \in ClientRecord /\ ClientOK(c, client[c])
  BY DEF RunInv, ClientInv
<1>2. /\ x \in ClientRecord /\ x.pc = where /\ x.view = client[c].view
      /\ x.current = client[c].current
  BY <1>1, Records
<1>3. client' = [client EXCEPT ![c] = x]
  BY DEF Goto, RunInv, ClientInv
<1> HIDE DEF x
<1>4. ClientOK(c, x)
  BY <1>1, <1>2 DEF ClientOK, View
<1> QED
  BY <1>2, <1>3, <1>4, OneClient

\* An event of transaction k was appended: who has not the new projection is
\* not current any more.
LEMMA AppendedKeeps ==
  ASSUME ClientInv, request \in [Clients -> Requests], UNCHANGED request,
         NEW k \in Transactions, NEW c \in Clients \cup {NoOne},
         NEW after, Appended(c, k, after),
         \A m \in Transactions : m # k => tx'[m] = tx[m],
         c # NoOne =>
           /\ after \in ClientRecord /\ TxOf(c) = k
           /\ after.current => after.view = tx'[k]
           /\ after.pc \in {"run", "spawn"} => after.view.exec \notin {"running", "succeeded"}
  PROVE  /\ ClientInv' /\ \A d \in Clients \ {c} : client'[d].pc = client[d].pc
         /\ c # NoOne => client'[c] = after
<1>0. ASSUME NEW d \in Clients PROVE TxOf(d) \in Transactions /\ TxOf(d)' = TxOf(d)
  BY DEF TxOf, Transactions
<1>1. ASSUME NEW d \in Clients, d # c
      PROVE  /\ client'[d] \in ClientRecord /\ ClientOK(d, client[d])'
             /\ client'[d].pc = client[d].pc
  <2>1. client[d] \in ClientRecord /\ ClientOK(d, client[d])
    BY DEF ClientInv
  <2>2. CASE TxOf(d) = k
    <3> DEFINE x == [client[d] EXCEPT !.current = FALSE]
    <3>1. client'[d] = x
      BY <1>1, <2>2 DEF Appended
    <3>2. x \in ClientRecord /\ ~x.current /\ x.pc = client[d].pc /\ x.view = client[d].view
      BY <2>1, Records
    <3> HIDE DEF x
    <3> QED
      BY <2>1, <3>1, <3>2 DEF ClientOK
  <2>3. CASE TxOf(d) # k
    <3>1. client'[d] = client[d] /\ tx'[TxOf(d)] = tx[TxOf(d)]
      BY <1>0, <1>1, <2>3 DEF Appended
    <3> QED
      BY <1>0, <2>1, <3>1 DEF ClientOK
  <2> QED
    BY <2>2, <2>3
<1>2. ASSUME c # NoOne
      PROVE  client'[c] = after /\ after \in ClientRecord /\ ClientOK(c, client[c])'
  <2>1. c \in Clients /\ client'[c] = after
    BY <1>2 DEF Appended
  <2> QED
    BY <1>0, <1>2, <2>1 DEF ClientOK
<1>3. \A d \in Clients : client'[d] \in ClientRecord /\ ClientOK(d, client[d])'
  BY <1>1, <1>2, AssignmentsAssumption
<1>4. client' \in [Clients -> ClientRecord]
  BY <1>3 DEF Appended
<1> QED
  BY <1>1, <1>2, <1>3, <1>4 DEF ClientInv

\* An event is appended to a transaction that is not locked, by client c or by
\* somebody else, and leaves it in order.
LEMMA EventKeeps ==
  ASSUME RunInv, request \in [Clients -> Requests], UNCHANGED <<serving, slots, request, up>>,
         NEW k \in Transactions, serving[k] = Idle, NEW c \in Clients \cup {NoOne},
         NEW next \in TxRecord, TxOK(next), tx' = [tx EXCEPT ![k] = next],
         NEW x, Appended(c, k, x),
         c # NoOne =>
           /\ TxOf(c) = k /\ ~At(c, "agent") /\ x \in ClientRecord
           /\ x.current => x.view = next
           /\ x.pc \in {"run", "spawn"} => x.view.exec \notin {"running", "succeeded"}
  PROVE  RunInv'
<1>1. TxInv'
  <2>1. tx' \in [Transactions -> TxRecord]
    BY DEF RunInv, TxInv
  <2>2. \A m \in Transactions : TxOK(tx'[m])
    BY DEF RunInv, TxInv
  <2> QED
    BY <2>1, <2>2 DEF TxInv, TxOK
<1>2. tx'[k] = next /\ \A m \in Transactions : m # k => tx'[m] = tx[m]
  BY DEF RunInv, TxInv
<1>3. ClientInv' /\ \A d \in Clients \ {c} : client'[d].pc = client[d].pc
  BY <1>2, AppendedKeeps DEF RunInv
<1>4. \A d \in Clients : At(d, "agent") => client'[d].pc = "agent"
  BY <1>3, AssignmentsAssumption DEF At
<1>5. LockInv' /\ SlotInv'
  BY <1>2, <1>4, LockFrame DEF RunInv
<1> QED
  BY <1>1, <1>3, <1>5 DEF RunInv

\* A request whose handler is one step, and that leaves a transaction in order.
LEMMA CallKeeps ==
  ASSUME RunInv, request \in [Clients -> Requests], NEW c \in Clients, ~At(c, "agent"),
         NEW accepted, NEW next, NEW after, Call(c, accepted, next, after),
         client[c].current /\ accepted =>
           /\ next \in TxRecord /\ TxOK(next) /\ after \in ClientRecord
           /\ after.current => after.view = next
           /\ after.pc \in {"run", "spawn"} => after.view.exec \notin {"running", "succeeded"}
  PROVE  RunInv'
<1> DEFINE k == TxOf(c)
<1>1. UNCHANGED <<serving, slots, request, up>> /\ serving[k] = Idle /\ k \in Transactions
  BY DEF Call, Unlocked, TxOf, Transactions
<1>2. CASE client[c].current /\ requireCurrentRuntimeAuthority(k) /\ accepted
  <2>1. tx' = [tx EXCEPT ![k] = next]
    BY <1>2 DEF Call, transactionAtSequence
  <2>2. PICK x \in {after, Exited(1)} : Appended(c, k, x)
    BY <1>2 DEF Call, transactionAtSequence
  <2>3. /\ x \in ClientRecord /\ (x.current => x.view = next)
        /\ x.pc \in {"run", "spawn"} => x.view.exec \notin {"running", "succeeded"}
    BY <1>2, Records
  <2>4. next \in TxRecord /\ TxOK(next) /\ TxOf(c) = k
    BY <1>2
  <2> HIDE DEF k
  <2> QED
    BY <1>1, <2>1, <2>2, <2>3, <2>4, EventKeeps
<1>3. CASE ~(client[c].current /\ requireCurrentRuntimeAuthority(k) /\ accepted)
  <2>1. Exit(c, 1) /\ UNCHANGED tx
    BY <1>3 DEF Call, transactionAtSequence
  <2> QED
    BY <1>1, <2>1, OneExit DEF Exit
<1> QED
  BY <1>2, <1>3

-----------------------------------------------------------------------------
(* The actions of a client *)

\* What a transaction may become while it can be resumed.
LEMMA NextTx ==
  ASSUME NEW t \in TxRecord, TxOK(t)
  PROVE  /\ t.state \in Resumable => t \in Seen
         /\ \A a \in 1..MaxAttempts :
              LET n == [t EXCEPT !.state = "running", !.attempt = a, !.exec = "none", !.wins = 0]
              IN  n \in TxRecord /\ n \in Seen /\ TxOK(n) /\ n.exec = "none"
         /\ LET n == [t EXCEPT !.bound = TRUE]
            IN  n \in TxRecord /\ (t.state \in Resumable => n \in Seen) /\ TxOK(n)
                /\ n.exec = t.exec
         /\ \A s \in {"staged", "completed_no_effect", "validating", "blocked", "aborted",
                      "pending_approval"} :
              LET n == [t EXCEPT !.state = s]
              IN  n \in TxRecord /\ (s = "staged" => n \in Seen) /\ TxOK(n) /\ n.exec = t.exec
         /\ \A s \in {"validation_failed", "revise_required"} :
              LET n == [t EXCEPT !.state = s]
              IN  t.attempt < MaxAttempts => n \in TxRecord /\ TxOK(n)
<1> USE DEF TxRecord, Seen, Resumable, TxOK
<1>1. t.state \in Resumable => t \in Seen
  OBVIOUS
<1>2. \A a \in 1..MaxAttempts :
        LET n == [t EXCEPT !.state = "running", !.attempt = a, !.exec = "none", !.wins = 0]
        IN  n \in TxRecord /\ n \in Seen /\ TxOK(n) /\ n.exec = "none"
  <2> TAKE a \in 1..MaxAttempts
  <2> DEFINE n == [t EXCEPT !.state = "running", !.attempt = a, !.exec = "none", !.wins = 0]
  <2>1. n.state = "running" /\ n.wins = 0 /\ n.exec = "none"
    OBVIOUS
  <2>2. n \in TxRecord
    OBVIOUS
  <2> HIDE DEF n
  <2>3. n \in Seen
    BY <2>1, <2>2
  <2>4. TxOK(n)
    BY <2>1, <2>2
  <2> QED
    BY <2>1, <2>2, <2>3, <2>4 DEF n
<1>3. LET n == [t EXCEPT !.bound = TRUE]
      IN  n \in TxRecord /\ (t.state \in Resumable => n \in Seen) /\ TxOK(n) /\ n.exec = t.exec
  OBVIOUS
<1>4. \A s \in {"staged", "completed_no_effect", "validating", "blocked", "aborted",
                "pending_approval"} :
        LET n == [t EXCEPT !.state = s]
        IN  n \in TxRecord /\ (s = "staged" => n \in Seen) /\ TxOK(n) /\ n.exec = t.exec
  OBVIOUS
<1>5. \A s \in {"validation_failed", "revise_required"} :
        LET n == [t EXCEPT !.state = s]
        IN  t.attempt < MaxAttempts => n \in TxRecord /\ TxOK(n)
  OBVIOUS
<1> QED
  BY <1>1, <1>2, <1>3, <1>4, <1>5

\* An execution starts where none succeeded, and ends once.
LEMMA NextExec ==
  ASSUME NEW t \in TxRecord, TxOK(t)
  PROVE  /\ LET n == [t EXCEPT !.exec = "running"]
            IN  t.exec # "succeeded" =>
                  n \in TxRecord /\ (t.state \in Resumable => n \in Seen) /\ TxOK(n)
         /\ \A s \in {"succeeded", "unsuccessful"} :
              LET n == [t EXCEPT !.exec = s, !.wins = IF s = "succeeded" THEN @ + 1 ELSE @]
              IN  t.exec = "running" =>
                    n \in TxRecord /\ (t.state \in Resumable => n \in Seen) /\ TxOK(n)
         /\ LET n == [t EXCEPT !.exec = "unsuccessful"]
            IN  t.exec = "running" => n \in TxRecord /\ TxOK(n)
<1> USE DEF TxRecord, Seen, Resumable, TxOK
<1>1. LET n == [t EXCEPT !.exec = "running"]
      IN  t.exec # "succeeded" =>
            n \in TxRecord /\ (t.state \in Resumable => n \in Seen) /\ TxOK(n)
  OBVIOUS
<1>2. \A s \in {"succeeded", "unsuccessful"} :
        LET n == [t EXCEPT !.exec = s, !.wins = IF s = "succeeded" THEN @ + 1 ELSE @]
        IN  t.exec = "running" =>
              n \in TxRecord /\ (t.state \in Resumable => n \in Seen) /\ TxOK(n)
  <2> SUFFICES ASSUME NEW s \in {"succeeded", "unsuccessful"}, t.exec = "running"
               PROVE  LET n == [t EXCEPT !.exec = s, !.wins = IF s = "succeeded" THEN @ + 1 ELSE @]
                      IN  n \in TxRecord /\ (t.state \in Resumable => n \in Seen) /\ TxOK(n)
    OBVIOUS
  <2>1. t.wins = 0
    OBVIOUS
  <2>2. CASE s = "succeeded"
    <3> PICK w \in Nat : w = t.wins + 1
      BY <2>1
    <3> DEFINE n == [t EXCEPT !.exec = "succeeded", !.wins = w]
    <3>1. n.state = t.state /\ n.exec = "succeeded" /\ n.attempt = t.attempt
      OBVIOUS
    <3>2. n.wins = w
      OBVIOUS
    <3>3. n \in TxRecord
      OBVIOUS
    <3> HIDE DEF n
    <3>4. (t.state \in Resumable => n \in Seen) /\ TxOK(n)
      BY <2>1, <3>1, <3>2, <3>3
    <3> QED
      BY <2>2, <3>3, <3>4 DEF n
  <2>3. CASE s = "unsuccessful"
    <3> DEFINE n == [t EXCEPT !.exec = "unsuccessful", !.wins = t.wins]
    <3>1. n.state = t.state /\ n.exec = "unsuccessful" /\ n.attempt = t.attempt
      OBVIOUS
    <3>2. n.wins = t.wins
      OBVIOUS
    <3>3. n \in TxRecord
      OBVIOUS
    <3> HIDE DEF n
    <3>4. (t.state \in Resumable => n \in Seen) /\ TxOK(n)
      BY <2>1, <3>1, <3>2, <3>3
    <3> QED
      BY <2>3, <3>3, <3>4 DEF n
  <2> QED
    BY <2>2, <2>3
<1>3. LET n == [t EXCEPT !.exec = "unsuccessful"]
      IN  t.exec = "running" => n \in TxRecord /\ TxOK(n)
  OBVIOUS
<1> QED
  BY <1>1, <1>2, <1>3

\* The transaction of a client.
LEMMA Mine ==
  ASSUME RunInv, request \in [Clients -> Requests], NEW c \in Clients
  PROVE  /\ TxOf(c) \in Transactions /\ tx[TxOf(c)] \in TxRecord /\ TxOK(tx[TxOf(c)])
         /\ client[c] \in ClientRecord /\ ClientOK(c, client[c])
  BY DEF RunInv, TxInv, ClientInv, TxOf, Transactions

LEMMA GetRun ==
  ASSUME RunInv, request \in [Clients -> Requests], NEW c \in Clients, GetTransaction(c)
  PROVE  RunInv'
<1> DEFINE seen == tx[TxOf(c)]
<1>1. PICK x : /\ client' = [client EXCEPT ![c] = x]
               /\ \/ \E code \in {0, 1} : x = Exited(code)
                  \/ /\ seen.state \in Resumable
                     /\ \E where \in {"validate", "start", "worktree"} : x = Sees(seen, where)
  <2>1. CASE seen.state = "staged"
    <3>1. client' = [client EXCEPT ![c] = Sees(seen, "validate")]
      BY <2>1 DEF GetTransaction, transactionRunStateIsHealthy
    <3> QED
      BY <2>1, <3>1 DEF Resumable
  <2>2. CASE seen.state \in {"created", "validation_failed", "revise_required"}
    <3>1. client' = [client EXCEPT ![c] = Sees(seen, "start")]
      BY <2>2 DEF GetTransaction, transactionRunStateIsHealthy
    <3> QED
      BY <2>2, <3>1 DEF Resumable
  <2>3. CASE seen.state = "running"
    <3>1. client' = [client EXCEPT ![c] = Sees(seen, "worktree")]
      BY <2>3 DEF GetTransaction, transactionRunStateIsHealthy
    <3> QED
      BY <2>3, <3>1 DEF Resumable
  <2>4. CASE seen.state \notin Resumable
    <3>1. \E code \in {0, 1} : client' = [client EXCEPT ![c] = Exited(code)]
      BY <2>4 DEF GetTransaction, Resumable, transactionRunStateIsHealthy
    <3> QED
      BY <3>1
  <2> QED
    BY <2>1, <2>2, <2>3, <2>4 DEF Resumable
<1>2. UNCHANGED <<tx, serving, slots, request, up>> /\ ~At(c, "agent")
  BY DEF GetTransaction, admissionVars, At
<1>3. seen \in TxRecord /\ TxOK(seen) /\ (seen.state \in Resumable => seen \in Seen)
  BY Mine, NextTx
<1>4. x \in ClientRecord /\ ClientOK(c, x)
  <2>1. CASE \E code \in {0, 1} : x = Exited(code)
    BY <2>1, Records DEF ClientOK
  <2>2. CASE /\ seen.state \in Resumable
             /\ \E where \in {"validate", "start", "worktree"} : x = Sees(seen, where)
    <3>1. PICK where \in {"validate", "start", "worktree"} : x = Sees(seen, where)
      BY <2>2
    <3>2. where \in Places
      BY DEF Places
    <3> HIDE DEF seen
    <3>3. x \in ClientRecord /\ x.view = seen /\ x.pc = where
      BY <1>3, <2>2, <3>1, <3>2, Records
    <3> QED
      BY <3>3 DEF ClientOK, seen
  <2> QED
    BY <1>1, <2>1, <2>2
<1> QED
  BY <1>1, <1>2, <1>4, OneClient

LEMMA StartRun ==
  ASSUME RunInv, request \in [Clients -> Requests], NEW c \in Clients, StartTransaction(c)
  PROVE  RunInv'
<1> DEFINE now == tx[TxOf(c)]
           a == IF now.state = "created" THEN now.attempt ELSE now.attempt + 1
           next == [now EXCEPT !.state = "running", !.attempt = a, !.exec = "none", !.wins = 0]
           accepted == now.state \in {"created", "validation_failed", "revise_required"}
<1>1. Call(c, accepted, next, Sees(next, "worktree")) /\ ~At(c, "agent")
  BY DEF StartTransaction, At
<1>2. now \in TxRecord /\ TxOK(now)
  BY Mine
<1>3. accepted => a \in 1..MaxAttempts
  BY <1>2, WorkloadsAssumption DEF TxRecord, TxOK
<1>4. accepted => next \in TxRecord /\ next \in Seen /\ TxOK(next)
  <2> HIDE DEF now, a
  <2> QED
    BY <1>2, <1>3, NextTx
<1>5. "worktree" \in Places
  BY DEF Places
<1> HIDE DEF next
<1>6. accepted => /\ Sees(next, "worktree") \in ClientRecord /\ Sees(next, "worktree").view = next
                  /\ Sees(next, "worktree").pc = "worktree"
  BY <1>4, <1>5, Records
<1> HIDE DEF accepted
<1> QED
  BY <1>1, <1>4, <1>6, CallKeeps

LEMMA WorktreeRun ==
  ASSUME RunInv, request \in [Clients -> Requests], NEW c \in Clients, CreateTransactionWorktree(c)
  PROVE  RunInv'
<1> DEFINE now == tx[TxOf(c)]
           next == [now EXCEPT !.bound = TRUE]
           accepted == now.state = "running" /\ ~now.bound /\ clean[TxOf(c)]
<1>1. ~At(c, "agent")
  BY DEF CreateTransactionWorktree, At
<1>2. "execute" \in Places
  BY DEF Places
<1>3. CASE View(c).bound
  BY <1>1, <1>2, <1>3, OneGoto DEF CreateTransactionWorktree, admissionVars
<1>4. CASE ~View(c).bound
  <2>1. Call(c, accepted, next, Sees(next, "execute"))
    BY <1>4 DEF CreateTransactionWorktree
  <2>2. now \in TxRecord /\ TxOK(now)
    BY Mine
  <2>3. accepted => next \in TxRecord /\ next \in Seen /\ TxOK(next)
    <3> HIDE DEF now
    <3> QED
      BY <2>2, NextTx DEF Resumable
  <2> HIDE DEF next
  <2>4. accepted => /\ Sees(next, "execute") \in ClientRecord /\ Sees(next, "execute").view = next
                    /\ Sees(next, "execute").pc = "execute"
    BY <1>2, <2>3, Records
  <2> HIDE DEF accepted
  <2> QED
    BY <1>1, <2>1, <2>3, <2>4, CallKeeps
<1> QED
  BY <1>3, <1>4

\* A creation that fails leaves only a directory.
LEMMA HalfCreatedRun ==
  ASSUME RunInv, NEW c \in Clients, CreationFails(c)
  PROVE  RunInv'
<1>1. ~At(c, "agent") /\ UNCHANGED <<tx, serving, slots, request, up>> /\ Exit(c, 1)
  BY DEF CreationFails, At
<1> QED
  BY <1>1, OneExit DEF Exit

LEMMA DecideRun ==
  ASSUME RunInv, request \in [Clients -> Requests], NEW c \in Clients, DecideExecution(c)
  PROVE  RunInv'
<1>1. ~At(c, "agent") /\ UNCHANGED <<tx, serving, slots, request, up>>
  BY DEF DecideExecution, At, admissionVars
<1>2. {"stage", "run", "spawn"} \subseteq Places
  BY DEF Places
<1>3. CASE View(c).exec = "running"
  BY <1>1, <1>3, OneExit DEF DecideExecution, Exit
<1>4. CASE View(c).exec = "succeeded"
  BY <1>1, <1>2, <1>4, OneGoto DEF DecideExecution
<1>5. CASE View(c).exec \notin {"running", "succeeded"}
  <2>1. PICK where \in {"run", "spawn"} : Goto(c, where)
    BY <1>5 DEF DecideExecution
  <2> QED
    BY <1>1, <1>2, <1>5, <2>1, OneGoto
<1> QED
  BY <1>3, <1>4, <1>5

\* Nothing of a run changed.
LEMMA RunFrame ==
  ASSUME RunInv, UNCHANGED <<tx, serving, slots, client, request>>, up => up'
  PROVE  RunInv'
<1>1. LockInv' /\ SlotInv'
  BY LockFrame DEF RunInv, At
<1>2. TxInv'
  BY DEF RunInv, TxInv, TxOK
<1>3. ClientInv'
  BY DEF RunInv, ClientInv, ClientOK, TxOf
<1> QED
  BY <1>1, <1>2, <1>3 DEF RunInv

\* The command is given, ends because nobody answers, passes the preflight or
\* gets the answer to its admission.
LEMMA EarlyRun ==
  ASSUME RunInv, NEW c \in Clients,
         BeginRun(c) \/ Unreachable(c) \/ preflightRuntime(c) \/ AdmissionAnswered(c)
  PROVE  RunInv'
<1>1. ~At(c, "agent") /\ UNCHANGED <<tx, serving, slots, request, up>>
  BY DEF BeginRun, Unreachable, preflightRuntime, AdmissionAnswered, At, Ended, admissionVars
<1>2. {"admit", "get"} \subseteq Places
  BY DEF Places
<1>3. CASE BeginRun(c)
  <2>1. PICK where \in {"preflight", "admit"} :
          client' = [client EXCEPT ![c] = [Nowhere EXCEPT !.pc = where]]
    BY <1>3 DEF BeginRun
  <2> DEFINE x == [Nowhere EXCEPT !.pc = where]
  <2>2. x \in ClientRecord /\ ~x.current /\ x.pc = where
    BY DEF Nowhere, ClientRecord, Places
  <2> HIDE DEF x
  <2>3. ClientOK(c, x)
    BY <2>2 DEF ClientOK
  <2> QED
    BY <1>1, <2>1, <2>2, <2>3, OneClient DEF x
<1>4. CASE Exit(c, 1)
  BY <1>1, <1>4, OneExit DEF Exit
<1>5. CASE Goto(c, "admit") \/ Goto(c, "get")
  BY <1>1, <1>2, <1>5, OneGoto
<1>6. BeginRun(c) \/ Exit(c, 1) \/ Goto(c, "admit") \/ Goto(c, "get")
  BY DEF Unreachable, preflightRuntime, AdmissionAnswered
<1> QED
  BY <1>3, <1>4, <1>5, <1>6

\* A child is started, and ends.
LEMMA SpawnRun ==
  ASSUME RunInv, request \in [Clients -> Requests], NEW c \in Clients, StartAgentExecution(c)
  PROVE  RunInv'
<1> DEFINE now == tx[TxOf(c)]
           next == [now EXCEPT !.exec = "running"]
           accepted == now.state = "running" /\ now.bound /\ now.exec # "running"
<1>1. Call(c, accepted, next, Sees(next, "child")) /\ ~At(c, "agent")
  BY DEF StartAgentExecution, At
<1>2. now \in TxRecord /\ TxOK(now) /\ ClientOK(c, client[c])
  BY Mine
<1>3. client[c].current => now.exec # "succeeded"
  BY <1>2 DEF ClientOK, StartAgentExecution, At
<1>4. client[c].current /\ accepted => next \in TxRecord /\ next \in Seen /\ TxOK(next)
  <2> HIDE DEF now
  <2> QED
    BY <1>2, <1>3, NextExec DEF Resumable
<1>5. "child" \in Places
  BY DEF Places
<1> HIDE DEF next
<1>6. client[c].current /\ accepted =>
        /\ Sees(next, "child") \in ClientRecord /\ Sees(next, "child").view = next
        /\ Sees(next, "child").pc = "child"
  BY <1>4, <1>5, Records
<1> HIDE DEF accepted
<1> QED
  BY <1>1, <1>4, <1>6, CallKeeps

LEMMA FinishRun ==
  ASSUME RunInv, request \in [Clients -> Requests], NEW c \in Clients,
         NEW status \in {"succeeded", "unsuccessful"}, FinishAgentExecution(c, status)
  PROVE  RunInv'
<1> DEFINE k == TxOf(c)
           now == tx[k]
           next == [now EXCEPT !.exec = status,
                               !.wins = IF status = "succeeded" THEN @ + 1 ELSE @]
           after == IF status = "succeeded" THEN Sees(next, "stage") ELSE Exited(1)
           accepted == /\ up /\ client[c].current /\ requireCurrentRuntimeAuthority(k)
                       /\ now.state = "running" /\ now.exec = "running"
<1>1. ~At(c, "agent") /\ UNCHANGED <<serving, slots, request, up>>
  BY DEF FinishAgentExecution, At
<1>2. CASE ~accepted
  <2>1. Exit(c, 1) /\ UNCHANGED tx
    BY <1>2 DEF FinishAgentExecution, transactionAtSequence
  <2> QED
    BY <1>1, <2>1, OneExit DEF Exit
<1>3. CASE accepted
  <2>1. /\ tx' = [tx EXCEPT ![k] = next] /\ Appended(c, k, after)
        /\ serving[k] = Idle
    BY <1>3 DEF FinishAgentExecution, transactionAtSequence, Unlocked
  <2>2. now \in TxRecord /\ TxOK(now) /\ k \in Transactions
    BY Mine
  <2>3. next \in TxRecord /\ next \in Seen /\ TxOK(next)
    <3> HIDE DEF now
    <3> QED
      BY <1>3, <2>2, NextExec DEF Resumable
  <2>4. "stage" \in Places
    BY DEF Places
  <2> HIDE DEF next
  <2>5. /\ after \in ClientRecord /\ (after.current => after.view = next)
        /\ after.pc \notin {"run", "spawn"}
    BY <2>3, <2>4, Records
  <2> HIDE DEF after, k
  <2> QED
    BY <1>1, <2>1, <2>2, <2>3, <2>5, EventKeeps DEF k
<1> QED
  BY <1>2, <1>3

LEMMA StageRun ==
  ASSUME RunInv, request \in [Clients -> Requests], NEW c \in Clients,
         NEW state \in {"staged", "completed_no_effect"}, StageTransaction(c, state)
  PROVE  RunInv'
<1> DEFINE now == tx[TxOf(c)]
           next == [now EXCEPT !.state = state]
           after == IF state = "staged" THEN Sees(next, "validate") ELSE Exited(0)
           accepted == now.state = "running" /\ now.exec = "succeeded" /\ clean[TxOf(c)]
<1>1. Call(c, accepted, next, after) /\ ~At(c, "agent")
  BY DEF StageTransaction, At
<1>2. now \in TxRecord /\ TxOK(now)
  BY Mine
<1>3. next \in TxRecord /\ (state = "staged" => next \in Seen) /\ TxOK(next)
  <2> HIDE DEF now
  <2> QED
    BY <1>2, NextTx
<1>4. "validate" \in Places
  BY DEF Places
<1> HIDE DEF next
<1>5. /\ after \in ClientRecord /\ (after.current => after.view = next)
      /\ after.pc \notin {"run", "spawn"}
  BY <1>3, <1>4, Records
<1> HIDE DEF accepted, after
<1> QED
  BY <1>1, <1>3, <1>5, CallKeeps

LEMMA ValidateRun ==
  ASSUME RunInv, request \in [Clients -> Requests], NEW c \in Clients,
         NEW state \in {"validating", "blocked", "revise_required"}, ValidateTransaction(c, state)
  PROVE  RunInv'
<1> DEFINE now == tx[TxOf(c)]
           next == [now EXCEPT !.state = state]
           accepted == now.state = "staged" /\ clean[TxOf(c)]
<1>1. Call(c, accepted, next, Exited(0)) /\ ~At(c, "agent")
  BY DEF ValidateTransaction, At
<1>2. now \in TxRecord /\ TxOK(now) /\ (state = "revise_required" => now.attempt < MaxAttempts)
  BY Mine DEF ValidateTransaction
<1>3. next \in TxRecord /\ TxOK(next)
  <2> HIDE DEF now
  <2> QED
    BY <1>2, NextTx
<1>4. Exited(0) \in ClientRecord /\ ~Exited(0).current /\ Exited(0).pc = "exited"
  BY Records
<1> HIDE DEF next, accepted
<1> QED
  BY <1>1, <1>3, <1>4, CallKeeps

-----------------------------------------------------------------------------
(* Handlers that run an agent, the daemon and others *)

\* A handler that returns gives its lock and its slot back.
LEMMA Released ==
  ASSUME LockInv, SlotInv, NEW k \in Transactions, serving[k] # Idle, Returns(k),
         UNCHANGED <<request, up>>, \A m \in Transactions : m # k => tx'[m] = tx[m],
         \A d \in Clients : At(d, "agent") /\ d # serving[k].by => client'[d].pc = "agent"
  PROVE  LockInv' /\ SlotInv'
<1>1. serving' = [serving EXCEPT ![k] = Idle] /\ slots' = slots - 1
  BY DEF Returns
<1>2. serving' \in [Transactions -> Handler]
  BY <1>1 DEF LockInv, Handler
<1>3. ASSUME NEW m \in Transactions PROVE LockOK(m)'
  <2>1. CASE m = k
    BY <1>1, <2>1 DEF LockOK, LockInv
  <2>2. CASE m # k
    <3>1. serving'[m] = serving[m] /\ tx'[m] = tx[m] /\ LockOK(m) /\ LockOK(k)
      BY <1>1, <2>2 DEF LockInv
    <3>2. serving[m] # Idle /\ serving[m].by # NoOne =>
            /\ serving[m].by \in Clients /\ At(serving[m].by, "agent")
            /\ TxOf(serving[m].by) = m /\ serving[m].by # serving[k].by
      BY <2>2, <3>1 DEF LockOK, LockInv, Handler, Idle
    <3>3. serving[m] # Idle /\ serving[m].by # NoOne =>
            client'[serving[m].by].pc = "agent" /\ request'[serving[m].by].transaction = m
      BY <3>2 DEF TxOf
    <3> QED
      BY <3>1, <3>3 DEF LockOK, At, TxOf
  <2> QED
    BY <2>1, <2>2
<1>4. Busy' = Busy \ {k} /\ k \in Busy
  BY <1>1 DEF Busy, LockInv
<1>5. IsFiniteSet(Busy') /\ Cardinality(Busy') = Cardinality(Busy) - 1
  BY <1>4, FS_RemoveElement DEF SlotInv
<1>6. slots = Cardinality(Busy) /\ slots <= MaxWorkloads /\ slots \in Nat
  BY FS_CardinalityType DEF SlotInv, SlotsAccounted, Busy
<1>7. slots' = Cardinality(Busy') /\ slots' <= MaxWorkloads
  BY <1>1, <1>5, <1>6, WorkloadsAssumption
<1> QED
  BY <1>2, <1>3, <1>5, <1>7 DEF LockInv, SlotInv, SlotsAccounted, Busy

\* What a handler finds: its transaction is running and no attempt is lost.
LEMMA Held ==
  ASSUME RunInv, NEW k \in Transactions, serving[k] # Idle
  PROVE  /\ tx[k] \in TxRecord /\ TxOK(tx[k]) /\ LockOK(k) /\ tx[k].state = "running"
         /\ serving[k] \in [at : {"prepare", "running"}, by : Clients \cup {NoOne}]
         /\ serving[k].by # NoOne => serving[k].by \in Clients
  BY DEF RunInv, TxInv, LockInv, LockOK, Handler

LEMMA AcquireRun ==
  ASSUME RunInv, request \in [Clients -> Requests], NEW c \in Clients, RunTransactionAgent(c)
  PROVE  RunInv'
<1> DEFINE k == TxOf(c)
           now == tx[k]
           accepted == /\ client[c].current /\ now.state = "running" /\ now.bound
                       /\ now.exec # "running" /\ slots < MaxWorkloads
           launched == /\ serving' = [serving EXCEPT ![k] = [at |-> "prepare", by |-> c]]
                       /\ slots' = slots + 1 /\ Goto(c, "agent")
<1>1. ~At(c, "agent") /\ up /\ serving[k] = Idle /\ UNCHANGED <<tx, request, up>>
  BY DEF RunTransactionAgent, At, Unlocked, admissionVars
<1>2. CASE Exit(c, 1) /\ UNCHANGED <<serving, slots>>
  BY <1>1, <1>2, OneExit DEF Exit
<1>3. CASE accepted /\ launched
  <2>1. /\ serving' = [serving EXCEPT ![k] = [at |-> "prepare", by |-> c]]
        /\ slots' = slots + 1 /\ Goto(c, "agent")
    BY <1>3
  <2>2. /\ k \in Transactions /\ client[c] \in ClientRecord /\ ClientOK(c, client[c])
        /\ client[c].view.exec \notin {"running", "succeeded"}
    BY Mine DEF ClientOK, RunTransactionAgent, At
  <2>3. now.exec \notin {"running", "succeeded"}
    BY <1>3, <2>2 DEF ClientOK
  <2> DEFINE x == [client[c] EXCEPT !.pc = "agent"]
  <2>4. "agent" \in Places
    BY DEF Places
  <2>5. /\ x \in ClientRecord /\ x.pc = "agent" /\ x.view = client[c].view
        /\ x.current = client[c].current
    BY <2>2, <2>4, Records
  <2>6. /\ client' = [client EXCEPT ![c] = x] /\ client \in [Clients -> ClientRecord]
        /\ serving \in [Transactions -> Handler]
    BY <2>1 DEF Goto, RunInv, ClientInv, LockInv
  <2> HIDE DEF x, k
  <2>7. ClientInv'
    <3>1. client' \in [Clients -> ClientRecord]
      BY <2>5, <2>6
    <3>2. \A d \in Clients : ClientOK(d, client'[d])
      BY <2>2, <2>5, <2>6 DEF ClientOK, RunInv, ClientInv
    <3> QED
      BY <1>1, <3>1, <3>2 DEF ClientInv, ClientOK, TxOf
  <2>8. serving' \in [Transactions -> Handler]
    BY <2>1, <2>2, <2>6 DEF Handler
  <2>9. ASSUME NEW m \in Transactions PROVE LockOK(m)'
    <3>1. CASE m = k
      <4>1. serving'[k].at = "prepare" /\ serving'[k].by = c
        BY <2>1, <2>2, <2>6
      <4>2. client'[c].pc = "agent" /\ request'[c].transaction = k
        BY <1>1, <2>5, <2>6 DEF k, TxOf
      <4> QED
        BY <1>1, <1>3, <2>3, <3>1, <4>1, <4>2 DEF LockOK, At, TxOf
    <3>2. CASE m # k
      <4>1. serving'[m] = serving[m] /\ LockOK(m)
        BY <2>1, <2>6, <3>2 DEF RunInv, LockInv
      <4>2. serving[m] # Idle /\ serving[m].by # NoOne =>
              /\ serving[m].by \in Clients /\ At(serving[m].by, "agent")
              /\ TxOf(serving[m].by) = m /\ serving[m].by # c
        BY <1>1, <2>6, <4>1 DEF LockOK, Handler, Idle
      <4>3. serving[m] # Idle /\ serving[m].by # NoOne =>
              client'[serving[m].by].pc = "agent" /\ request'[serving[m].by].transaction = m
        BY <1>1, <2>6, <4>2 DEF TxOf, At
      <4> QED
        BY <1>1, <4>1, <4>3 DEF LockOK, At, TxOf
    <3> QED
      BY <3>1, <3>2
  <2>10. SlotInv'
    <3>1. Busy' = Busy \cup {k} /\ k \notin Busy
      BY <1>1, <2>1, <2>2, <2>6 DEF Busy, Idle
    <3>2. IsFiniteSet(Busy) /\ slots = Cardinality(Busy) /\ slots \in Nat
      BY FS_CardinalityType DEF RunInv, SlotInv, SlotsAccounted, Busy
    <3>3. IsFiniteSet(Busy') /\ Cardinality(Busy') = Cardinality(Busy) + 1
      BY <3>1, <3>2, FS_AddElement
    <3>4. slots' = Cardinality(Busy') /\ slots' <= MaxWorkloads
      BY <1>3, <2>1, <3>2, <3>3, WorkloadsAssumption
    <3> QED
      BY <3>3, <3>4 DEF SlotInv, SlotsAccounted, Busy
  <2>11. TxInv'
    BY <1>1 DEF RunInv, TxInv, TxOK
  <2> QED
    BY <2>7, <2>8, <2>9, <2>10, <2>11 DEF RunInv, LockInv
<1>4. (accepted /\ launched) \/ (Exit(c, 1) /\ UNCHANGED <<serving, slots>>)
  BY DEF RunTransactionAgent, MayLaunch, transactionAtSequence, acquireWorkloadSlot
<1> QED
  BY <1>2, <1>3, <1>4

LEMMA FailRun ==
  ASSUME RunInv, NEW k \in Transactions, PrepareFails(k) \/ CleanupFails(k)
  PROVE  RunInv'
<1>1. /\ serving[k] # Idle /\ Returns(k) /\ UNCHANGED <<request, up, tx>>
      /\ client' = [c \in Clients |-> IF c = serving[k].by THEN Exited(1) ELSE client[c]]
  BY DEF PrepareFails, CleanupFails, Idle
<1>2. \A d \in Clients : At(d, "agent") /\ d # serving[k].by => client'[d].pc = "agent"
  BY <1>1 DEF At
<1>3. LockInv' /\ SlotInv'
  BY <1>1, <1>2, Released DEF RunInv
<1>4. \A d \in Clients : client'[d] \in ClientRecord /\ ClientOK(d, client'[d])
  BY <1>1, Records DEF RunInv, ClientInv, ClientOK
<1>5. ClientInv'
  BY <1>1, <1>4 DEF ClientInv, ClientOK, TxOf
<1>6. TxInv'
  BY <1>1 DEF RunInv, TxInv, TxOK
<1> QED
  BY <1>3, <1>5, <1>6 DEF RunInv

LEMMA LaunchRun ==
  ASSUME RunInv, request \in [Clients -> Requests], NEW k \in Transactions, LaunchAgent(k)
  PROVE  RunInv'
<1> DEFINE next == [tx[k] EXCEPT !.exec = "running"]
<1>1. /\ serving[k] # Idle /\ serving[k].at = "prepare" /\ UNCHANGED <<slots, request, up>>
      /\ tx' = [tx EXCEPT ![k] = next] /\ serving' = [serving EXCEPT ![k].at = "running"]
      /\ tx \in [Transactions -> TxRecord] /\ serving \in [Transactions -> Handler]
  BY DEF LaunchAgent, Idle, admissionVars, RunInv, TxInv, LockInv
<1>2. tx[k] \in TxRecord /\ TxOK(tx[k]) /\ LockOK(k) /\ tx[k].exec # "succeeded"
  BY <1>1, Held DEF LockOK
<1>3. next \in TxRecord /\ TxOK(next)
  BY <1>2, NextExec
<1>4. next.state = tx[k].state /\ next.exec = "running"
  BY <1>2 DEF TxRecord
<1> HIDE DEF next
<1>5. TxInv'
  <2>1. tx' \in [Transactions -> TxRecord] /\ \A m \in Transactions : TxOK(tx'[m])
    BY <1>1, <1>3 DEF RunInv, TxInv
  <2> QED
    BY <2>1 DEF TxInv, TxOK
<1>6. tx'[k] = next /\ \A m \in Transactions : m # k => tx'[m] = tx[m]
  BY <1>1
<1>7. Appended(NoOne, k, Nowhere)
  <2>1. \A d \in Clients : d # NoOne
    BY AssignmentsAssumption
  <2>2. client' = [d \in Clients |->
          IF TxOf(d) = k THEN [client[d] EXCEPT !.current = FALSE] ELSE client[d]]
    BY DEF LaunchAgent
  <2>3. client' = [d \in Clients |->
          IF d = NoOne THEN Nowhere
          ELSE IF TxOf(d) = k THEN [client[d] EXCEPT !.current = FALSE] ELSE client[d]]
    BY <2>1, <2>2, Zenon
  <2> QED
    BY <2>3 DEF Appended
<1>8. ClientInv' /\ \A d \in Clients : client'[d].pc = client[d].pc
  <2>1. ClientInv' /\ \A d \in Clients \ {NoOne} : client'[d].pc = client[d].pc
    BY <1>1, <1>6, <1>7, AppendedKeeps DEF RunInv
  <2> QED
    BY <2>1, AssignmentsAssumption
<1>9. \A m \in Transactions : /\ serving'[m] \in Handler /\ serving'[m].by = serving[m].by
                              /\ serving'[m] = Idle <=> serving[m] = Idle
                              /\ serving'[m].at = IF m = k THEN "running" ELSE serving[m].at
  BY <1>1 DEF Handler, Idle
<1>10. ASSUME NEW m \in Transactions PROVE LockOK(m)'
  <2> SUFFICES ASSUME serving[m] # Idle PROVE LockOK(m)'
    BY <1>9 DEF LockOK
  <2>1. LockOK(m) /\ (serving[m].by # NoOne => serving[m].by \in Clients)
    BY Held
  <2>2. serving[m].by # NoOne =>
          client'[serving[m].by].pc = "agent" /\ request'[serving[m].by].transaction = m
    BY <1>1, <1>8, <2>1 DEF LockOK, TxOf, At
  <2>3. tx'[m].state = "running"
    BY <1>4, <1>6, <2>1 DEF LockOK
  <2>4. m = k => tx'[m].exec = "running"
    BY <1>4, <1>6
  <2>5. m # k => tx'[m] = tx[m] /\ serving'[m].at = serving[m].at
    BY <1>6, <1>9
  <2>6. m = k => serving'[m].at = "running"
    BY <1>9
  <2> QED
    BY <1>1, <1>9, <2>1, <2>2, <2>3, <2>4, <2>5, <2>6 DEF LockOK, At, TxOf
<1>11. serving' \in [Transactions -> Handler]
  BY <1>1, <1>9
<1>12. Busy' = Busy
  BY <1>9 DEF Busy
<1>13. SlotInv'
  BY <1>1, <1>12 DEF RunInv, SlotInv, SlotsAccounted, Busy
<1> QED
  BY <1>5, <1>8, <1>10, <1>11, <1>13 DEF RunInv, LockInv

LEMMA SettleRun ==
  ASSUME RunInv, request \in [Clients -> Requests], NEW k \in Transactions,
         NEW status \in {"succeeded", "unsuccessful"}, SettleAgent(k, status)
  PROVE  RunInv'
<1> DEFINE next == [tx[k] EXCEPT !.exec = status,
                                 !.wins = IF status = "succeeded" THEN @ + 1 ELSE @]
           after == IF status = "succeeded" THEN Sees(next, "stage") ELSE Exited(1)
           by == serving[k].by
<1>1. /\ serving[k] # Idle /\ serving[k].at = "running" /\ Returns(k)
      /\ UNCHANGED <<request, up>>
      /\ tx' = [tx EXCEPT ![k] = next] /\ tx \in [Transactions -> TxRecord]
      /\ Answered(k, by, after)
  BY DEF SettleAgent, Idle, RunInv, TxInv
<1>2. /\ tx[k] \in TxRecord /\ TxOK(tx[k]) /\ LockOK(k) /\ tx[k].exec = "running"
      /\ tx[k].state = "running"
      /\ by # NoOne => by \in Clients /\ TxOf(by) = k
  BY <1>1, Held DEF LockOK
<1>3. next \in TxRecord /\ next \in Seen /\ TxOK(next)
  BY <1>2, NextExec DEF Resumable
<1>4. "stage" \in Places
  BY DEF Places
<1> HIDE DEF next
<1>5. /\ after \in ClientRecord /\ (after.current => after.view = next)
      /\ after.pc \notin {"run", "spawn"}
  BY <1>3, <1>4, Records
<1>6. TxInv'
  <2>1. tx' \in [Transactions -> TxRecord] /\ \A m \in Transactions : TxOK(tx'[m])
    BY <1>1, <1>3 DEF RunInv, TxInv
  <2> QED
    BY <2>1 DEF TxInv, TxOK
<1>7. tx'[k] = next /\ \A m \in Transactions : m # k => tx'[m] = tx[m]
  BY <1>1
<1> HIDE DEF after, by
<1>8. ClientInv' /\ \A d \in Clients \ {by} : client'[d].pc = client[d].pc
  <2>1. CASE by = NoOne
    <3>1. Appended(NoOne, k, Nowhere)
      BY <1>1, <2>1 DEF Answered
    <3> QED
      BY <1>1, <1>7, <2>1, <3>1, AppendedKeeps DEF RunInv
  <2>2. CASE by # NoOne
    <3>1. Appended(by, k, after)
      BY <1>1, <2>2 DEF Answered
    <3> QED
      BY <1>1, <1>2, <1>5, <1>7, <2>2, <3>1, AppendedKeeps DEF RunInv
  <2> QED
    BY <2>1, <2>2
<1>9. LockInv' /\ SlotInv'
  BY <1>1, <1>7, <1>8, Released DEF RunInv, At, by
<1> QED
  BY <1>6, <1>8, <1>9 DEF RunInv

LEMMA KillRun ==
  ASSUME RunInv, NEW c \in Clients, Kill(c)
  PROVE  RunInv'
<1>1. /\ client' = [client EXCEPT ![c] = Exited(1)] /\ UNCHANGED <<request, up, tx, slots>>
      /\ serving' = [k \in Transactions |->
           IF serving[k].by = c THEN [serving[k] EXCEPT !.by = NoOne] ELSE serving[k]]
      /\ client \in [Clients -> ClientRecord] /\ serving \in [Transactions -> Handler]
  BY DEF Kill, Exit, RunInv, ClientInv, LockInv
<1>2. c # NoOne
  BY AssignmentsAssumption
<1>3. \A d \in Clients : client'[d] \in ClientRecord /\ ClientOK(d, client'[d])
  BY <1>1, Records DEF RunInv, ClientInv, ClientOK
<1>4. ClientInv'
  BY <1>1, <1>3 DEF ClientInv, ClientOK, TxOf
<1>5. TxInv'
  BY <1>1 DEF RunInv, TxInv, TxOK
<1>6. \A m \in Transactions : /\ serving'[m] \in Handler /\ serving'[m].at = serving[m].at
                              /\ serving'[m] = Idle <=> serving[m] = Idle
                              /\ serving'[m].by # NoOne =>
                                   serving'[m].by = serving[m].by /\ serving[m].by # c
  BY <1>1, <1>2 DEF Handler, Idle
<1>7. ASSUME NEW m \in Transactions PROVE LockOK(m)'
  <2> SUFFICES ASSUME serving[m] # Idle PROVE LockOK(m)'
    BY <1>6 DEF LockOK
  <2>1. LockOK(m) /\ (serving[m].by # NoOne => serving[m].by \in Clients)
    BY Held
  <2>2. serving'[m].by # NoOne => /\ client'[serving'[m].by].pc = "agent"
                                  /\ request'[serving'[m].by].transaction = m
    BY <1>1, <1>6, <2>1 DEF LockOK, At, TxOf
  <2> QED
    BY <1>1, <1>6, <2>1, <2>2 DEF LockOK, At, TxOf
<1>8. serving' \in [Transactions -> Handler]
  BY <1>1, <1>6
<1>9. Busy' = Busy
  BY <1>6 DEF Busy
<1>10. SlotInv'
  BY <1>1, <1>9 DEF RunInv, SlotInv, SlotsAccounted, Busy
<1> QED
  BY <1>4, <1>5, <1>7, <1>8, <1>10 DEF RunInv, LockInv

LEMMA OthersRun ==
  ASSUME RunInv, request \in [Clients -> Requests], NEW k \in Transactions,
         NEW s \in {"aborted", "validation_failed", "pending_approval"}, OthersDecide(k, s)
  PROVE  RunInv'
<1> DEFINE next == [tx[k] EXCEPT !.state = s]
<1>1. /\ UNCHANGED <<serving, slots, request, up>> /\ serving[k] = Idle
      /\ tx' = [tx EXCEPT ![k] = next] /\ Appended(NoOne, k, Nowhere)
      /\ s = "validation_failed" => tx[k].attempt < MaxAttempts
  BY DEF OthersDecide, admissionVars
<1>2. tx[k] \in TxRecord /\ TxOK(tx[k])
  BY DEF RunInv, TxInv
<1>3. next \in TxRecord /\ TxOK(next)
  BY <1>1, <1>2, NextTx
<1> HIDE DEF next
<1> QED
  BY <1>1, <1>3, EventKeeps

\* A daemon that is not up holds no lock and no slot.
LEMMA NobodyServes ==
  ASSUME serving \in [Transactions -> Handler], \A k \in Transactions : serving[k] = Idle, slots = 0
  PROVE  LockInv /\ SlotInv
<1>1. LockInv
  BY DEF LockInv, LockOK
<1>2. Busy = {}
  BY DEF Busy
<1>3. IsFiniteSet(Busy) /\ Cardinality(Busy) = 0
  BY <1>2, FS_EmptySet
<1> QED
  BY <1>1, <1>3, WorkloadsAssumption DEF SlotInv, SlotsAccounted, Busy

LEMMA StopRun ==
  ASSUME RunInv, Stop
  PROVE  RunInv'
<1>1. /\ client' = [c \in Clients |-> IF At(c, "agent") THEN Exited(1) ELSE client[c]]
      /\ UNCHANGED <<request, tx>> /\ serving' = [k \in Transactions |-> Idle] /\ slots' = 0
  BY DEF Stop, Die, Orphaned
<1>2. \A d \in Clients : client'[d] \in ClientRecord /\ ClientOK(d, client'[d])
  BY <1>1, Records DEF RunInv, ClientInv, ClientOK
<1>3. ClientInv'
  BY <1>1, <1>2 DEF ClientInv, ClientOK, TxOf
<1>4. TxInv'
  BY <1>1 DEF RunInv, TxInv, TxOK
<1>5. serving' \in [Transactions -> Handler] /\ \A k \in Transactions : serving'[k] = Idle
  BY <1>1 DEF Handler
<1>6. LockInv'
  BY <1>5 DEF LockInv, LockOK
<1>7. Busy' = {}
  BY <1>5 DEF Busy
<1>8. IsFiniteSet(Busy') /\ Cardinality(Busy') = 0
  BY <1>7, FS_EmptySet
<1>9. SlotInv'
  BY <1>1, <1>8, WorkloadsAssumption DEF SlotInv, SlotsAccounted, Busy
<1> QED
  BY <1>3, <1>4, <1>6, <1>9 DEF RunInv

LEMMA RestartRun ==
  ASSUME RunInv, request \in [Clients -> Requests], NEW policy \in BOOLEAN, Restart(policy)
  PROVE  RunInv'
<1>0. PICK left \in SUBSET (Active \ Unrecoverable) :
      /\ tx' = [k \in Transactions |->
                  IF k \in left THEN [tx[k] EXCEPT !.exec = "unsuccessful"] ELSE tx[k]]
      /\ client' = [c \in Clients |->
           IF TxOf(c) \in left THEN [client[c] EXCEPT !.current = FALSE] ELSE client[c]]
  BY DEF Restart
<1>1. /\ \A k \in left : tx[k].state = "running" /\ tx[k].exec = "running"
      /\ tx' = [k \in Transactions |->
                  IF k \in left THEN [tx[k] EXCEPT !.exec = "unsuccessful"] ELSE tx[k]]
      /\ client' = [c \in Clients |->
           IF TxOf(c) \in left THEN [client[c] EXCEPT !.current = FALSE] ELSE client[c]]
      /\ UNCHANGED <<serving, slots, request>> /\ ~up
  BY <1>0 DEF Restart, Revive, admissionVars, Active, Unrecoverable
<1>2. \A k \in Transactions : tx[k] \in TxRecord /\ TxOK(tx[k]) /\ serving[k] = Idle
  BY <1>1 DEF RunInv, TxInv, LockInv, LockOK
<1>3. \A k \in Transactions : tx'[k] \in TxRecord /\ TxOK(tx'[k])
  <2> SUFFICES ASSUME NEW k \in Transactions PROVE tx'[k] \in TxRecord /\ TxOK(tx'[k])
    OBVIOUS
  <2>1. CASE k \in left
    <3> DEFINE t == tx[k]
               n == [t EXCEPT !.exec = "unsuccessful"]
    <3>1. tx'[k] = n /\ t \in TxRecord /\ TxOK(t) /\ t.exec = "running"
      BY <1>1, <1>2, <2>1
    <3> HIDE DEF t
    <3> QED
      BY <3>1, NextExec
  <2>2. CASE k \notin left
    BY <1>1, <1>2, <2>2
  <2> QED
    BY <2>1, <2>2
<1>4. TxInv'
  BY <1>1, <1>3 DEF TxInv, TxOK
<1>5. ASSUME NEW d \in Clients PROVE client'[d] \in ClientRecord /\ ClientOK(d, client[d])'
  <2>1. client[d] \in ClientRecord /\ ClientOK(d, client[d]) /\ TxOf(d) \in Transactions
    BY Mine
  <2>2. CASE TxOf(d) \in left
    <3> DEFINE x == [client[d] EXCEPT !.current = FALSE]
    <3>1. client'[d] = x
      BY <1>1, <2>2
    <3>2. x \in ClientRecord /\ ~x.current /\ x.pc = client[d].pc /\ x.view = client[d].view
      BY <2>1, Records
    <3> HIDE DEF x
    <3> QED
      BY <2>1, <3>1, <3>2 DEF ClientOK
  <2>3. CASE TxOf(d) \notin left
    <3>1. client'[d] = client[d] /\ tx'[TxOf(d)] = tx[TxOf(d)] /\ request' = request
      BY <1>1, <2>1, <2>3
    <3> QED
      BY <2>1, <3>1 DEF ClientOK, TxOf
  <2> QED
    BY <2>2, <2>3
<1>6. ClientInv'
  BY <1>1, <1>5 DEF ClientInv
<1>7. LockInv'
  BY <1>1, <1>2 DEF RunInv, LockInv, LockOK
<1>8. SlotInv'
  BY <1>1 DEF RunInv, SlotInv, SlotsAccounted, Busy
<1> QED
  BY <1>4, <1>6, <1>7, <1>8 DEF RunInv

\* A run keeps its locks, slots, transactions and clients in order.
LEMMA RunStep ==
  ASSUME LedgerInv, RunInv, [Next]_vars
  PROVE  RunInv'
<1>1. request \in [Clients -> Requests]
  BY DEF LedgerInv, RowsInv
<1>2. ASSUME NEW c \in Clients, Admit(c) PROVE RunInv'
  <2>1. UNCHANGED <<tx, serving, slots, client, request, up>>
    BY <1>2 DEF Admit, runVars, AdmissionCall, ReceiveAdmission, replayLegacyTaskAdmission,
                GetTaskAdmission, BeginAdmitTask, InsertRow, CommitAdmission
  <2> QED
    BY <2>1, RunFrame
<1>3. ASSUME NEW c \in Clients, BeginRun(c) \/ ClientStep(c) \/ Kill(c) PROVE RunInv'
  BY <1>1, <1>2, <1>3, EarlyRun, GetRun, StartRun, WorktreeRun, DecideRun, AcquireRun, SpawnRun,
     FinishRun, StageRun, ValidateRun, KillRun DEF ClientStep
<1>4. ASSUME NEW k \in Transactions, HandlerStep(k) \/ PrepareFails(k) \/ CleanupFails(k)
      PROVE  RunInv'
  BY <1>1, <1>4, LaunchRun, SettleRun, FailRun DEF HandlerStep
<1>5. CASE UNCHANGED vars
  BY <1>5, RunFrame DEF vars, runVars, admissionVars
<1>6. ASSUME NEW c \in Clients, CreationFails(c) PROVE RunInv'
  BY <1>1, <1>6, HalfCreatedRun
<1>7. ASSUME NEW k \in Transactions, AuthorityEnds(k) \/ Disturb(k) \/ Repair(k) PROVE RunInv'
  <2>1. UNCHANGED <<tx, serving, slots, client, request, up>>
    BY <1>7 DEF AuthorityEnds, Disturb, Repair, runVars, admissionVars
  <2> QED
    BY <2>1, RunFrame
<1> QED
  BY <1>1, <1>3, <1>4, <1>5, <1>6, <1>7, OthersRun, StopRun, RestartRun
     DEF Next, Crash, StopStuck

LEMMA RunInit == Init => RunInv
<1> SUFFICES ASSUME Init PROVE RunInv
  OBVIOUS
<1> DEFINE t == [state |-> "created", attempt |-> 1, bound |-> FALSE, exec |-> "none", wins |-> 0]
<1>1. t \in TxRecord /\ TxOK(t)
  BY WorkloadsAssumption DEF TxRecord, TxOK
<1>2. TxInv
  <2>1. tx = [k \in Transactions |-> t]
    BY DEF Init
  <2> HIDE DEF t
  <2> QED
    BY <1>1, <2>1 DEF TxInv
<1>3. LockInv /\ SlotInv
  BY NobodyServes DEF Init, Handler
<1>4. Nowhere \in ClientRecord /\ ~Nowhere.current /\ Nowhere.pc = "idle"
  BY DEF Nowhere, ClientRecord, Places
<1>5. ClientInv
  BY <1>4 DEF Init, ClientInv, ClientOK
<1> QED
  BY <1>2, <1>3, <1>5 DEF RunInv

-----------------------------------------------------------------------------
(* A command drives only a task that was admitted for its own request *)

Resting == {"idle", "exited", "preflight", "admit"}

\* Where a step leaves client d: beyond the admission only with its own
\* admission, and with a projection only beyond the admission.
Drives(d) ==
  /\ client'[d].pc \notin Resting => Admitted(Key(d)) /\ SameRequest(d, Key(d))
  /\ client'[d].view # NoOne => client'[d].pc \notin Resting

\* The ways a client may be moved.
LEMMA Moved ==
  ASSUME DriveInv, NEW d \in Clients,
         \/ client'[d].pc = client[d].pc /\ client'[d].view = client[d].view
         \/ client'[d].pc \in Resting /\ client'[d].view = NoOne
         \/ Driving(d) /\ client'[d].pc \notin Resting
  PROVE  Drives(d)
  BY DEF DriveInv, Drives, Driving, View, Resting

\* One client moved: it ended, or it was driving and goes on.
LEMMA OneMoved ==
  ASSUME ClientInv, DriveInv, NEW c \in Clients, NEW x, client' = [client EXCEPT ![c] = x],
         \/ x.pc \in Resting /\ x.view = NoOne
         \/ Driving(c) /\ x.pc \notin Resting
  PROVE  \A d \in Clients : Drives(d)
<1> SUFFICES ASSUME NEW d \in Clients PROVE Drives(d)
  OBVIOUS
<1>1. client'[d] = IF d = c THEN x ELSE client[d]
  BY DEF ClientInv
<1> QED
  BY <1>1, Moved

LEMMA Ending ==
  ASSUME NEW code \in {0, 1}
  PROVE  Exited(code).pc \in Resting /\ Exited(code).view = NoOne
  BY Records DEF Resting

\* A client that is driving goes on to somewhere else.
LEMMA GotoMoved ==
  ASSUME ClientInv, DriveInv, NEW c \in Clients, NEW where \in Places \ Resting, Driving(c),
         Goto(c, where)
  PROVE  \A d \in Clients : Drives(d)
<1> DEFINE x == [client[c] EXCEPT !.pc = where]
<1>1. client' = [client EXCEPT ![c] = x] /\ client[c] \in ClientRecord
  BY DEF Goto, ClientInv
<1>2. x.pc = where
  BY <1>1, Records
<1> HIDE DEF x
<1> QED
  BY <1>1, <1>2, OneMoved

\* An event was appended.
LEMMA AppendedMoved ==
  ASSUME ClientInv, DriveInv, NEW c \in Clients \cup {NoOne}, NEW k, NEW after,
         Appended(c, k, after),
         c # NoOne => \/ after.pc \in Resting /\ after.view = NoOne
                      \/ Driving(c) /\ after.pc \notin Resting
  PROVE  \A d \in Clients : Drives(d)
<1> SUFFICES ASSUME NEW d \in Clients PROVE Drives(d)
  OBVIOUS
<1>1. d # NoOne /\ client[d] \in ClientRecord
  BY AssignmentsAssumption DEF ClientInv
<1>2. CASE d = c
  <2>1. client'[d] = after
    BY <1>2 DEF Appended
  <2> QED
    BY <1>1, <1>2, <2>1, Moved
<1>3. CASE d # c
  <2> DEFINE x == [client[d] EXCEPT !.current = FALSE]
  <2>1. x.pc = client[d].pc /\ x.view = client[d].view
    BY <1>1, Records
  <2>2. client'[d] = x \/ client'[d] = client[d]
    BY <1>3 DEF Appended
  <2> HIDE DEF x
  <2> QED
    BY <2>1, <2>2, Moved
<1> QED
  BY <1>2, <1>3

LEMMA CallMoved ==
  ASSUME ClientInv, DriveInv, NEW c \in Clients, Driving(c), NEW accepted, NEW next, NEW after,
         Call(c, accepted, next, after),
         \/ \E code \in {0, 1} : after = Exited(code)
         \/ \E where \in Places \ Resting : after = Sees(next, where)
  PROVE  \A d \in Clients : Drives(d)
<1>1. \/ after.pc \in Resting /\ after.view = NoOne
      \/ after.pc \notin Resting
  BY Ending DEF Sees
<1>2. CASE Exit(c, 1)
  BY <1>2, Ending, OneMoved DEF Exit
<1>3. CASE Appended(c, TxOf(c), after) \/ Appended(c, TxOf(c), Exited(1))
  BY <1>1, <1>3, Ending, AppendedMoved
<1> QED
  BY <1>2, <1>3 DEF Call

\* The client got the answer of an admission.
LEMMA AnswerMoved ==
  ASSUME LedgerInv, ClientInv, DriveInv, NEW c \in Clients, AdmissionAnswered(c)
  PROVE  \A d \in Clients : Drives(d)
<1>1. CASE Exit(c, 1)
  BY <1>1, Ending, OneMoved DEF Exit
<1>2. CASE call[c].answer \in {"created", "existing"} /\ Goto(c, "get")
  <2>1. Stored(Key(c)) = {call[c].result} /\ request[call[c].result] = request[c]
    BY <1>2 DEF LedgerInv, CallOK
  <2>2. Admitted(Key(c)) /\ SameRequest(c, Key(c))
    BY <2>1 DEF Admitted, SameRequest, StoredResult
  <2>3. client' = [client EXCEPT ![c].pc = "get"] /\ client \in [Clients -> ClientRecord]
    BY <1>2 DEF Goto, ClientInv
  <2>4. \A d \in Clients \ {c} : client'[d] = client[d]
    BY <2>3
  <2>5. client'[c].pc = "get"
    BY <2>3 DEF ClientRecord
  <2>6. Drives(c)
    BY <2>2, <2>5 DEF Drives, Resting
  <2> QED
    BY <2>4, <2>6, Moved
<1> QED
  BY <1>1, <1>2 DEF AdmissionAnswered

\* The steps of clients.
LEMMA ClientMoves ==
  ASSUME LedgerInv, RunInv, DriveInv, NEW c \in Clients,
         BeginRun(c) \/ ClientStep(c) \/ CreationFails(c) \/ Kill(c)
  PROVE  \A d \in Clients : Drives(d)
<1>0. /\ ClientInv /\ client[c] \in ClientRecord
      /\ {"get", "start", "worktree", "execute", "run", "spawn", "agent", "child", "stage",
          "validate"} \subseteq Places \ Resting
  BY DEF RunInv, ClientInv, Places, Resting
<1>1. CASE Exit(c, 1)
  BY <1>0, <1>1, Ending, OneMoved DEF Exit
<1>2. CASE Admit(c)
  BY <1>2, Moved DEF Admit, runVars
<1>3. CASE BeginRun(c)
  <2>1. PICK where \in {"preflight", "admit"} :
          client' = [client EXCEPT ![c] = [Nowhere EXCEPT !.pc = where]]
    BY <1>3 DEF BeginRun
  <2> DEFINE x == [Nowhere EXCEPT !.pc = where]
  <2>2. x.pc \in Resting /\ x.view = NoOne
    BY DEF Nowhere, Resting
  <2> HIDE DEF x
  <2> QED
    BY <1>0, <2>1, <2>2, OneMoved DEF x
<1>4. CASE preflightRuntime(c)
  <2>1. CASE Goto(c, "admit")
    <3> DEFINE x == [client[c] EXCEPT !.pc = "admit"]
    <3>1. client' = [client EXCEPT ![c] = x]
      BY <1>0, <2>1 DEF Goto, ClientInv
    <3>2. client[c].view = NoOne
      BY <1>4 DEF preflightRuntime, At, DriveInv, Driving, View
    <3>3. x.pc \in Resting /\ x.view = NoOne
      BY <1>0, <3>2 DEF ClientRecord, Resting
    <3> HIDE DEF x
    <3> QED
      BY <1>0, <3>1, <3>3, OneMoved
  <2> QED
    BY <1>1, <1>4, <2>1 DEF preflightRuntime
<1>5. CASE AdmissionAnswered(c)
  BY <1>0, <1>5, AnswerMoved
<1>6. CASE GetTransaction(c)
  <2> DEFINE seen == tx[TxOf(c)]
  <2>1. Driving(c)
    BY <1>6 DEF GetTransaction, At, Driving
  <2>2. PICK x : /\ client' = [client EXCEPT ![c] = x]
                 /\ \/ x = Exited(0) \/ x = Exited(1) \/ x = Sees(seen, "validate")
                    \/ x = Sees(seen, "start") \/ x = Sees(seen, "worktree")
    <3>1. CASE client' = [client EXCEPT ![c] = Sees(seen, "validate")]
      BY <3>1
    <3>2. CASE client' = [client EXCEPT ![c] = Sees(seen, "start")]
      BY <3>2
    <3>3. CASE client' = [client EXCEPT ![c] = Sees(seen, "worktree")]
      BY <3>3
    <3>4. CASE client' = [client EXCEPT ![c] = Exited(0)]
      BY <3>4
    <3>5. CASE client' = [client EXCEPT ![c] = Exited(1)]
      BY <3>5
    <3> QED
      BY <1>6, <3>1, <3>2, <3>3, <3>4, <3>5 DEF GetTransaction, transactionRunStateIsHealthy
  <2>3. \/ x.pc \in Resting /\ x.view = NoOne
        \/ x.pc \notin Resting
    BY <2>2, Ending DEF Sees, Resting
  <2> QED
    BY <1>0, <2>1, <2>2, <2>3, OneMoved
<1>7. CASE StartTransaction(c)
  <2>1. Driving(c)
    BY <1>7 DEF StartTransaction, At, Driving
  <2> QED
    BY <1>0, <1>7, <2>1, CallMoved DEF StartTransaction
<1>8. CASE CreateTransactionWorktree(c)
  <2>1. Driving(c)
    BY <1>8 DEF CreateTransactionWorktree, At, Driving
  <2>2. CASE View(c).bound
    BY <1>0, <1>8, <2>1, <2>2, GotoMoved DEF CreateTransactionWorktree
  <2>3. CASE ~View(c).bound
    BY <1>0, <1>8, <2>1, <2>3, CallMoved DEF CreateTransactionWorktree
  <2> QED
    BY <2>2, <2>3
<1>9. CASE DecideExecution(c)
  <2>1. Driving(c)
    BY <1>9 DEF DecideExecution, At, Driving
  <2>2. Exit(c, 1) \/ \E where \in {"stage", "run", "spawn"} : Goto(c, where)
    BY <1>9 DEF DecideExecution
  <2> QED
    BY <1>0, <1>1, <2>1, <2>2, GotoMoved
<1>10. CASE RunTransactionAgent(c)
  <2>1. Driving(c)
    BY <1>10 DEF RunTransactionAgent, At, Driving
  <2>2. Exit(c, 1) \/ Goto(c, "agent")
    BY <1>10 DEF RunTransactionAgent
  <2> QED
    BY <1>0, <1>1, <2>1, <2>2, GotoMoved
<1>11. CASE StartAgentExecution(c)
  <2>1. Driving(c)
    BY <1>11 DEF StartAgentExecution, At, Driving
  <2> QED
    BY <1>0, <1>11, <2>1, CallMoved DEF StartAgentExecution
<1>12. ASSUME NEW s, FinishAgentExecution(c, s) PROVE \A d \in Clients : Drives(d)
  <2> DEFINE next == [tx[TxOf(c)] EXCEPT !.exec = s,
                                         !.wins = IF s = "succeeded" THEN @ + 1 ELSE @]
             after == IF s = "succeeded" THEN Sees(next, "stage") ELSE Exited(1)
  <2>1. Driving(c)
    BY <1>12 DEF FinishAgentExecution, At, Driving
  <2>2. Exit(c, 1) \/ Appended(c, TxOf(c), after)
    BY <1>12 DEF FinishAgentExecution
  <2> HIDE DEF next
  <2>3. \/ after.pc \in Resting /\ after.view = NoOne
        \/ after.pc \notin Resting
    BY Ending DEF Sees, Resting
  <2> HIDE DEF after
  <2> QED
    BY <1>0, <1>1, <2>1, <2>2, <2>3, AppendedMoved
<1>13. ASSUME NEW s, StageTransaction(c, s) PROVE \A d \in Clients : Drives(d)
  <2> DEFINE next == [tx[TxOf(c)] EXCEPT !.state = s]
             after == IF s = "staged" THEN Sees(next, "validate") ELSE Exited(0)
  <2>1. Driving(c)
    BY <1>13 DEF StageTransaction, At, Driving
  <2>2. PICK accepted \in BOOLEAN : Call(c, accepted, next, after)
    BY <1>13 DEF StageTransaction
  <2>3. after = Exited(0) \/ after = Sees(next, "validate")
    OBVIOUS
  <2> HIDE DEF next, after
  <2> QED
    BY <1>0, <2>1, <2>2, <2>3, CallMoved
<1>14. ASSUME NEW s, ValidateTransaction(c, s) PROVE \A d \in Clients : Drives(d)
  <2>1. Driving(c)
    BY <1>14 DEF ValidateTransaction, At, Driving
  <2> QED
    BY <1>0, <1>14, <2>1, CallMoved DEF ValidateTransaction
<1> QED
  BY <1>1, <1>2, <1>3, <1>4, <1>5, <1>6, <1>7, <1>8, <1>9, <1>10, <1>11, <1>12, <1>13, <1>14
     DEF ClientStep, Unreachable, Kill, CreationFails

\* The steps of handlers, of others and of the daemon.
LEMMA OtherMoves ==
  ASSUME RunInv, DriveInv,
         \/ \E k \in Transactions : HandlerStep(k) \/ PrepareFails(k) \/ CleanupFails(k)
         \/ \E k \in Transactions, s \in {"aborted", "validation_failed", "pending_approval"} :
              OthersDecide(k, s)
         \/ Stop \/ (\E policy \in BOOLEAN : Restart(policy)) \/ UNCHANGED client
  PROVE  \A d \in Clients : Drives(d)
<1>0. ClientInv /\ \A d \in Clients : client[d] \in ClientRecord
  BY DEF RunInv, ClientInv
<1>1. ASSUME \A d \in Clients : \/ client'[d] = client[d]
                                \/ client'[d] = [client[d] EXCEPT !.current = FALSE]
                                \/ client'[d] = Exited(1)
      PROVE  \A d \in Clients : Drives(d)
  <2> SUFFICES ASSUME NEW d \in Clients PROVE Drives(d)
    OBVIOUS
  <2>1. CASE client'[d] = [client[d] EXCEPT !.current = FALSE]
    <3> DEFINE x == [client[d] EXCEPT !.current = FALSE]
    <3>1. x.pc = client[d].pc /\ x.view = client[d].view
      BY <1>0, Records
    <3> HIDE DEF x
    <3>2. client'[d] = x
      BY <2>1 DEF x
    <3> QED
      BY <3>1, <3>2, Moved
  <2> QED
    BY <1>1, <2>1, Ending, Moved
<1>2. ASSUME NEW k \in Transactions, LaunchAgent(k) \/ PrepareFails(k) \/ CleanupFails(k)
      PROVE  \A d \in Clients : Drives(d)
  BY <1>1, <1>2 DEF LaunchAgent, PrepareFails, CleanupFails
<1>3. ASSUME NEW k \in Transactions, NEW s, SettleAgent(k, s)
      PROVE  \A d \in Clients : Drives(d)
  <2> DEFINE next == [tx[k] EXCEPT !.exec = s, !.wins = IF s = "succeeded" THEN @ + 1 ELSE @]
             after == IF s = "succeeded" THEN Sees(next, "stage") ELSE Exited(1)
             by == serving[k].by
  <2>1. serving[k] # Idle /\ Answered(k, by, after)
    BY <1>3 DEF SettleAgent, Idle
  <2>2. by # NoOne => by \in Clients /\ Driving(by)
    BY <2>1, Held DEF LockOK, At, Driving
  <2> HIDE DEF next
  <2>3. \/ after.pc \in Resting /\ after.view = NoOne
        \/ after.pc \notin Resting
    BY Ending DEF Sees, Resting
  <2> HIDE DEF after, by
  <2>4. CASE by = NoOne
    BY <1>0, <2>1, <2>4, AppendedMoved DEF Answered
  <2>5. CASE by # NoOne
    BY <1>0, <2>1, <2>2, <2>3, <2>5, AppendedMoved DEF Answered
  <2> QED
    BY <2>4, <2>5
<1>4. ASSUME NEW k \in Transactions, NEW s, OthersDecide(k, s)
      PROVE  \A d \in Clients : Drives(d)
  BY <1>0, <1>4, AppendedMoved DEF OthersDecide
<1>5. CASE Stop
  BY <1>1, <1>5 DEF Stop, Orphaned
<1>6. ASSUME NEW policy \in BOOLEAN, Restart(policy) PROVE \A d \in Clients : Drives(d)
  BY <1>1, <1>6 DEF Restart
<1>7. CASE UNCHANGED client
  BY <1>1, <1>7
<1> QED
  BY <1>2, <1>3, <1>4, <1>5, <1>6, <1>7 DEF HandlerStep

\* What is stored under a key stays, so a command goes on to drive its task.
LEMMA DriveStep ==
  ASSUME TaskInv, [Next]_vars
  PROVE  DriveInv'
<1>1. UNCHANGED request /\ \A k : Stored(k) # {} => Stored(k)' = Stored(k)
  BY LedgerStep DEF TaskInv
<1>2. \A d \in Clients : Drives(d)
  BY ClientMoves, OtherMoves DEF TaskInv, Next, Crash, StopStuck, vars, runVars, AuthorityEnds,
                                 Disturb, Repair
<1>3. ASSUME NEW d \in Clients, Admitted(Key(d)), SameRequest(d, Key(d))
      PROVE  Admitted(Key(d))' /\ SameRequest(d, Key(d))'
  <2>1. Key(d)' = Key(d)
    BY <1>1 DEF Key
  <2>2. Stored(Key(d))' = Stored(Key(d))
    <3> DEFINE k == Key(d)
    <3>1. Stored(k) # {}
      BY <1>3 DEF Admitted
    <3> QED
      BY <1>1, <2>1, <3>1 DEF Stored
  <2> QED
    BY <1>1, <1>3, <2>1, <2>2 DEF Admitted, SameRequest, StoredResult
<1> QED
  BY <1>2, <1>3 DEF DriveInv, Drives, Driving, View, Resting

-----------------------------------------------------------------------------
(* The theorems *)

\* Every reachable state has a ledger of whole admissions that agrees with
\* what callers were told, handlers that hold the lock and the slot of the
\* transaction they run, and commands that drive their own task: the
\* invariant of admitTask, AdmitTask, runAgentExecution and `gatemole tx run`
\* for any number of clients, requests and slots.
THEOREM TaskCorrect == Spec => []TaskInv
<1>1. Init => TaskInv
  <2> SUFFICES ASSUME Init PROVE TaskInv
    OBVIOUS
  <2>1. DriveInv
    BY DEF Init, DriveInv, Driving, View, Nowhere
  <2> QED
    BY <2>1, LedgerInit, RunInit DEF TaskInv
<1>2. TaskInv /\ [Next]_vars => TaskInv'
  BY LedgerStep, RunStep, DriveStep DEF TaskInv
<1> QED
  BY <1>1, <1>2, PTL DEF Spec

\* Admissions are stored whole, once per key; who was told of an admission, of
\* a conflict or of a replay was told the truth; and a command drives only
\* the task that was admitted for its own request.
THEOREM AdmissionCorrect == Spec => []AdmissionInv
<1>1. TaskInv => AdmissionInv
  <2> SUFFICES ASSUME TaskInv PROVE AdmissionInv
    OBVIOUS
  <2>1. TypeOK
    <3>1. writer \in Clients \cup {NoOne}
      BY DEF TaskInv, LedgerInv, WriterInv
    <3>2. \A c \in Clients : client[c].current \in BOOLEAN /\ client[c].view \in {NoOne} \cup Seen
      BY DEF TaskInv, RunInv, ClientInv, ClientRecord
    <3>3. \A k \in Transactions : serving[k].by \in Clients \cup {NoOne}
      BY DEF TaskInv, RunInv, LockInv, Handler, Idle
    <3> QED
      BY <3>1, <3>2, <3>3 DEF TypeOK, Seen, Resumable
  <2>2. AdmissionWhole
    BY DEF TaskInv, LedgerInv, RowsInv
  <2>3. \A c \in Clients : CallOK(c, call[c])
    BY DEF TaskInv, LedgerInv
  <2>4. OneTaskPerKey /\ ConflictIsReal /\ RetryIsAnswered
    BY <2>3 DEF OneTaskPerKey, ConflictIsReal, RetryIsAnswered, CallOK
  <2>5. DrivesItsOwnTask
    BY DEF TaskInv, DriveInv, DrivesItsOwnTask, SameRequest
  <2> QED
    BY <2>1, <2>2, <2>4, <2>5 DEF AdmissionInv
<1> QED
  BY <1>1, TaskCorrect, PTL

\* However many clients run a task, stop and start over, its agent succeeds at
\* most once in an attempt: a client goes to run it only with a projection
\* in which it has not succeeded, and the sequence it sends along is refused
\* once that has changed.
THEOREM SuccessOnce == Spec => []OneSuccessPerAttempt
<1>1. TaskInv => OneSuccessPerAttempt
  BY DEF TaskInv, RunInv, TxInv, TxOK, OneSuccessPerAttempt
<1> QED
  BY <1>1, TaskCorrect, PTL

\* Every way out of runAgentExecution gives its workload slot back, and no more
\* agents run at once than the daemon has slots.
THEOREM SlotsCorrect == Spec => []SlotsAccounted
<1>1. TaskInv => SlotsAccounted
  BY DEF TaskInv, RunInv, SlotInv
<1> QED
  BY <1>1, TaskCorrect, PTL

=============================================================================
