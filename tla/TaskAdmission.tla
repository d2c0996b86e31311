--------------------------- MODULE TaskAdmission ---------------------------
(***************************************************************************)
(* Admission of a task: admitTask looks the idempotency key up, checks the *)
(* policy of the daemon and prepares a contract, a task, a run and a       *)
(* transaction; AdmitTask writes them in one SQLite transaction in which   *)
(* the key is looked up again.  Callers race with one key, reuse keys and  *)
(* identifiers, and retry; the daemon fails between two inserts, crashes   *)
(* and comes back with another policy.                                     *)
(*                                                                         *)
(* The digest of a request stands for the request itself.  What is         *)
(* prepared depends on the time of the call: it is named after the caller, *)
(* who prepares again only if nothing of an earlier call was committed.    *)
(* The store has one connection, so statements of other calls wait for a   *)
(* transaction to end.                                                     *)
(***************************************************************************)
EXTENDS Naturals, Sequences, FiniteSets, TLC

CONSTANTS
  Clients,     \* callers
  Requests,    \* requests [version, expects, key, transaction, run, intent, class]
  Assignments, \* [Clients -> Requests]: the requests that meet
  NoOne,
  MaxTroubles  \* bound on everything that goes wrong together

\* A request from before runtime identities expects no other runtime.
ASSUME AssignmentsAssumption ==
  /\ Assignments \subseteq [Clients -> Requests]
  /\ NoOne \notin Clients
  /\ \A r \in Requests : r.version = "v0" => r.expects = "this runtime"

VARIABLES
  request,  \* request[c]: what c asks for
  rows,     \* committed rows: [table, id, of], "of" is the prepared admission
  writer,   \* the call that holds the connection in a transaction, or NoOne
  pending,  \* its rows, not committed
  call,     \* call[c]: progress and answer of the admission call of c
  allowed,  \* the policy of the daemon allows the image, or the host runtime
  up,       \* the daemon serves
  troubles  \* what has gone wrong so far

admissionVars == <<request, rows, writer, pending, call, allowed, up, troubles>>

\* known: the request was admitted before this call was received.
NoCall == [at |-> "idle", answer |-> "none", result |-> NoOne, known |-> FALSE]

Key(c) == request[c].key

\* The rows an admission consists of, in the order they are inserted; a run
\* and a transaction stand for their rows and their first events.
Prepared(c) ==
  LET row(table, id) == [table |-> table, id |-> id, of |-> c]
  IN << row("contract", c), row("task", request[c].transaction), row("run", request[c].run),
        row("transaction", request[c].transaction), row("admission", Key(c)) >>

RowsOf(sequence) == {sequence[i] : i \in DOMAIN sequence}

\* Only a daemon from before runtime identities has admitted old requests.
InitAdmission ==
  /\ request \in Assignments
  /\ rows \in {{}} \cup {RowsOf(Prepared(c)) : c \in {d \in Clients : request[d].version = "v0"}}
  /\ writer = NoOne /\ pending = <<>>
  /\ call = [c \in Clients |-> NoCall]
  /\ allowed \in BOOLEAN /\ up = TRUE
  /\ troubles = 0

-----------------------------------------------------------------------------
\* The admission that is stored under a key.
Stored(k) == {r.of : r \in {q \in rows : q.table = "admission" /\ q.id = k}}
Admitted(k) == Stored(k) # {}
StoredResult(k) == CHOOSE x \in Stored(k) : TRUE

\* Fault variant of SameRequest: the key is taken for the request.
SameKey(c, k) == Key(StoredResult(k)) = Key(c)

\* The digests of the stored request and of the request of c are equal.
SameRequest(c, k) == request[StoredResult(k)] = request[c]

\* A failure, of a statement or of the daemon.
Trouble == troubles < MaxTroubles /\ troubles' = troubles + 1

Answer(c, answer, result) ==
  call' = [call EXCEPT ![c].at = "answered", ![c].answer = answer, ![c].result = result]

\* Looking a key up ends the call if the key is bound.
Replay(c) ==
  IF SameRequest(c, Key(c)) THEN Answer(c, "existing", StoredResult(Key(c)))
  ELSE Answer(c, "conflict", NoOne)

\* The handler has decoded the request.  A daemon with a runtime identity
\* answers old requests from the ledger only.
ReceiveAdmission(c) ==
  /\ up /\ call[c].at = "idle"
  /\ call' = [call EXCEPT ![c] =
       [NoCall EXCEPT
          !.at = IF request[c].expects # "this runtime" THEN "answered"
                 ELSE IF request[c].version = "v0" THEN "replay" ELSE "lookup",
          !.answer = IF request[c].expects # "this runtime" THEN "mismatch" ELSE "none",
          !.known = Admitted(Key(c)) /\ SameRequest(c, Key(c))]]
  /\ UNCHANGED <<request, rows, writer, pending, allowed, up, troubles>>

\* A replay is answered only by a result of the same old version, which the
\* comparison of requests includes.
replayLegacyTaskAdmission(c) ==
  /\ call[c].at = "replay" /\ writer = NoOne
  /\ IF Admitted(Key(c)) THEN Replay(c) ELSE Answer(c, "incompatible", NoOne)
  /\ UNCHANGED <<request, rows, writer, pending, allowed, up, troubles>>

\* Fault variant of GetTaskAdmission: the policy is checked first.
GetAfterPolicy(c) ==
  /\ call[c].at = "lookup" /\ writer = NoOne
  /\ IF ~allowed THEN Answer(c, "denied", NoOne)
     ELSE IF Admitted(Key(c)) THEN Replay(c)
     ELSE call' = [call EXCEPT ![c].at = "admit"]
  /\ UNCHANGED <<request, rows, writer, pending, allowed, up, troubles>>

\* The key is looked up; the policy applies only to what is not yet admitted.
GetTaskAdmission(c) ==
  /\ call[c].at = "lookup" /\ writer = NoOne
  /\ IF Admitted(Key(c)) THEN Replay(c)
     ELSE IF ~allowed THEN Answer(c, "denied", NoOne)
     ELSE call' = [call EXCEPT ![c].at = "admit"]
  /\ UNCHANGED <<request, rows, writer, pending, allowed, up, troubles>>

\* Fault variant of BeginAdmitTask: the key is not looked up again.
BeginWithoutLookup(c) ==
  /\ call[c].at = "admit" /\ writer = NoOne
  /\ writer' = c /\ call' = [call EXCEPT ![c].at = "insert"]
  /\ UNCHANGED <<request, rows, pending, allowed, up, troubles>>

\* AdmitTask begins its transaction and looks the key up in it.
BeginAdmitTask(c) ==
  /\ call[c].at = "admit" /\ writer = NoOne
  /\ IF Admitted(Key(c))
     THEN Replay(c) /\ UNCHANGED writer
     ELSE writer' = c /\ call' = [call EXCEPT ![c].at = "insert"]
  /\ UNCHANGED <<request, rows, pending, allowed, up, troubles>>

\* Fault variant of Rollback: what was inserted before the failure stays.
KeepInserted ==
  rows' = rows \cup RowsOf(pending)

\* The deferred Rollback of AdmitTask.
Rollback == UNCHANGED rows

Abandon(c, answer) ==
  /\ Rollback /\ writer' = NoOne /\ pending' = <<>>
  /\ Answer(c, answer, NoOne)

\* The primary key of a row is in use.  A contract is stored under its
\* digest, and found again if it is the same.
Taken(row) == row.table # "contract" /\ \E r \in rows : r.table = row.table /\ r.id = row.id

\* One statement; its failure ends the transaction.
InsertRow(c) ==
  /\ call[c].at = "insert" /\ writer = c /\ Len(pending) < Len(Prepared(c))
  /\ LET row == Prepared(c)[Len(pending) + 1] IN
     \/ /\ ~Taken(row) /\ pending' = Append(pending, row)
        /\ UNCHANGED <<rows, writer, call, troubles>>
     \/ Taken(row) /\ Abandon(c, "conflict") /\ UNCHANGED troubles
     \/ Trouble /\ Abandon(c, "failed")
  /\ UNCHANGED <<request, allowed, up>>

CommitAdmission(c) ==
  /\ call[c].at = "insert" /\ writer = c /\ Len(pending) = Len(Prepared(c))
  /\ \/ /\ rows' = rows \cup RowsOf(pending)
        /\ writer' = NoOne /\ pending' = <<>>
        /\ Answer(c, "created", c) /\ UNCHANGED troubles
     \/ Trouble /\ Abandon(c, "failed")
  /\ UNCHANGED <<request, allowed, up>>

\* The daemon is gone: what is not committed is too, and no call is answered.
Die ==
  /\ up /\ up' = FALSE
  /\ writer' = NoOne /\ pending' = <<>>
  /\ call' = [c \in Clients |->
       IF call[c].at \in {"idle", "answered"} THEN call[c]
       ELSE [call[c] EXCEPT !.at = "answered", !.answer = "lost"]]
  /\ UNCHANGED <<request, rows, allowed>>

\* It is started again, perhaps with another policy.
Revive(policy) ==
  /\ ~up /\ up' = TRUE /\ allowed' = policy
  /\ UNCHANGED <<request, rows, writer, pending, call, troubles>>

AdmissionCall(c) ==
  \/ ReceiveAdmission(c) \/ replayLegacyTaskAdmission(c) \/ GetTaskAdmission(c)
  \/ BeginAdmitTask(c) \/ InsertRow(c) \/ CommitAdmission(c)

-----------------------------------------------------------------------------
(* Properties *)

\* Every positive answer to one request names the one admission that is
\* stored under its key, whoever asked first, raced or asked again.
OneTaskPerKey ==
  \A c \in Clients :
    call[c].answer \in {"created", "existing"} =>
      /\ Stored(Key(c)) = {call[c].result}
      /\ request[call[c].result] = request[c]

\* An admission is stored whole or not at all, and no two of them share a
\* run or a transaction: every committed row belongs to an admission all of
\* whose rows are there.
AdmissionWhole ==
  /\ \A r \in rows : \A i \in DOMAIN Prepared(r.of) : Prepared(r.of)[i] \in rows
  /\ \A r, q \in rows : r.table = q.table /\ r.id = q.id => r = q

\* A caller is told of a conflict only if another request has taken its key,
\* its transaction or its run; two that ask for the same never conflict.
ConflictIsReal ==
  \A c \in Clients : call[c].answer = "conflict" =>
    \E r \in rows : /\ request[r.of] # request[c]
                    /\ \/ r.table = "admission" /\ r.id = Key(c)
                       \/ r.table = "transaction" /\ r.id = request[c].transaction
                       \/ r.table = "run" /\ r.id = request[c].run

\* Once a request is admitted, asking again is answered by the admission,
\* even if the policy of the daemon has become stricter.
RetryIsAnswered ==
  \A c \in Clients : call[c].known /\ call[c].at = "answered" =>
    call[c].answer \in {"existing", "lost"}

=============================================================================
