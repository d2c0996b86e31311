---------------------------- MODULE DaemonStart ----------------------------
(***************************************************************************)
(* daemon.Run: gatemoled loads the identity of its runtime, takes the lock *)
(* of the runtime, prepares the transaction root, takes the lock of the    *)
(* database, binds the ledger to the runtime and its enforcement profile,  *)
(* recovers, replaces a stale socket and serves.  Daemons are started with *)
(* any profile, also on each other's database; they crash anywhere, and on *)
(* shutdown a transaction of a request under way may still commit after    *)
(* Run has closed the store and given up its locks.  Initializers          *)
(* (RuntimeInit) run beside them; another user of the host writes to the   *)
(* directories it may write to.                                            *)
(*                                                                         *)
(* Opening an existing file, checking it and checking the path again       *)
(* (loadResolved, readConfigFileSnapshot) is one step: a change in between *)
(* is refused.                                                             *)
(***************************************************************************)
EXTENDS RuntimeInit, TLC

CONSTANTS
  Daemons,      \* processes of gatemoled
  Placements,   \* [Daemons -> [repository, database]]: what daemons are started on
  SocketOf,     \* [Daemons -> socket paths]
  Home,         \* the repository being initialized
  OtherID,      \* the identity of every other repository
  MaxStarts     \* bound on the starts of one daemon

Repositories == {p[d].repository : d \in Daemons, p \in Placements}
Databases == {p[d].database : d \in Daemons, p \in Placements}
Sockets == {SocketOf[d] : d \in Daemons}
EnforcementProfiles == {"development", "production"}

\* Daemons that are given one socket path belong to one repository or one
\* database: the default path is inside the repository.
ASSUME SocketAssumption ==
  \A p \in Placements : \A d, e \in Daemons : SocketOf[d] = SocketOf[e] =>
    p[d].repository = p[e].repository \/ p[d].database = p[e].database

SocketFiles == [inode : (Daemons \cup {NoFile}) \X (0..MaxStarts), live : BOOLEAN]

\* Identities differ between repositories, and no file is not a file.
ASSUME DaemonsAssumption ==
  /\ MaxStarts \in Nat
  /\ OtherID \notin Initializers \cup {NoFile}
  /\ NoFile \notin Daemons \cup SocketFiles \cup {"private"}

VARIABLES
  placed,      \* placed[d]: the repository and the database of daemon d
  st,          \* st[d]: where daemon d is in Run and what it has loaded
  runtimeLock, \* runtimeLock[r]: the holder of .gatemole/runtime.lock, or NoFile
  dbLock,      \* dbLock[db]: the holder of the lock of the database, or NoFile
  ledger,      \* ledger[db]: schema, binding and who recorded history in it
  socket,      \* socket[s]: NoFile, or inode and whether somebody listens
  base,        \* the directory the transaction root is created in
  root         \* the transaction root: NoFile, "private" or "foreign"

daemonVars == <<placed, st, runtimeLock, dbLock, ledger, socket, base, root>>
vars == <<initVars, daemonVars>>

\* blocked: the last start was refused because of the socket path.
Stopped(n, blocked) ==
  [pc |-> "stopped", id |-> NoFile, profile |-> "none", seen |-> NoFile,
   busy |-> FALSE, starts |-> n, blocked |-> blocked]

\* Everything Run does while it holds the lock of the database.
Owning == {"inspect", "initialize", "bind", "recover", "find socket", "dial",
           "recheck", "remove", "listen", "serving", "closing", "closed"}
Rooted == Owning \cup {"lock database"}

\* A database is new, from before bindings existed, or that of another
\* runtime and last used with an older schema.
NoLedger == [schema |-> "none", runtime |-> NoFile, profile |-> "none", history |-> {}]
LegacyLedger == [NoLedger EXCEPT !.schema = "old", !.history = {<<NoFile, "none">>}]
OtherLedger == [schema |-> "old", runtime |-> OtherID, profile |-> "development",
                history |-> {<<OtherID, "development">>}]

\* What a daemon that was killed has left.
StaleSocket == [inode |-> <<NoFile, 0>>, live |-> FALSE]

InitDaemons ==
  /\ placed \in Placements
  /\ st = [d \in Daemons |-> Stopped(0, FALSE)]
  /\ runtimeLock = [r \in Repositories |-> NoFile]
  /\ dbLock = [db \in Databases |-> NoFile]
  /\ \E l \in {NoLedger, LegacyLedger, OtherLedger} : ledger = [db \in Databases |-> l]
  /\ socket \in [Sockets -> {NoFile, StaleSocket}]
  /\ base \in {"sticky", "open"}
  /\ root = NoFile

Init == InitRuntime /\ InitDaemons

-----------------------------------------------------------------------------
At(d, where) == st[d].pc = where
Move(d, where) == st' = [st EXCEPT ![d].pc = where]

\* The deferred calls of Run, or the end of the process: locks are released
\* and nobody listens any more.
Leave(d, blocked) ==
  /\ st' = [st EXCEPT ![d] = Stopped(st[d].starts, blocked)]
  /\ runtimeLock' = [r \in Repositories |->
                       IF runtimeLock[r] = d THEN NoFile ELSE runtimeLock[r]]
  /\ dbLock' = [db \in Databases |-> IF dbLock[db] = d THEN NoFile ELSE dbLock[db]]

Inode(d) == <<d, st[d].starts>>

\* Run reads its configuration and loads the identity of the repository.
Start(d, profile) ==
  /\ At(d, "stopped") /\ st[d].starts < MaxStarts
  /\ LET id == IF placed[d].repository # Home THEN OtherID
               ELSE IF Loadable THEN identity ELSE NoFile IN
     /\ st' = [st EXCEPT ![d] =
                 IF id = NoFile THEN Stopped(@.starts + 1, FALSE)
                 ELSE [Stopped(@.starts + 1, FALSE)
                         EXCEPT !.pc = "lock runtime", !.id = id, !.profile = profile]]
     /\ issued' = IF id \in Initializers THEN issued \cup {id} ELSE issued
  /\ UNCHANGED <<profiles, ignore, identity, ipc, seen, wrote, beside,
                 placed, runtimeLock, dbLock, ledger, socket, base, root>>

\* The configuration is refused: a file changed while it was read, is
\* writable by others, or the profile asks for what is not configured.
RefuseConfiguration(d) ==
  /\ At(d, "stopped") /\ st[d].starts < MaxStarts
  /\ st' = [st EXCEPT ![d] = Stopped(@.starts + 1, FALSE)]
  /\ UNCHANGED <<initVars, placed, runtimeLock, dbLock, ledger, socket, base, root>>

acquireRuntimeLock(d) ==
  /\ At(d, "lock runtime")
  /\ IF runtimeLock[placed[d].repository] = NoFile
     THEN /\ runtimeLock' = [runtimeLock EXCEPT ![placed[d].repository] = d]
          /\ Move(d, "root") /\ UNCHANGED dbLock
     ELSE Leave(d, FALSE)
  /\ UNCHANGED <<initVars, placed, ledger, socket, base, root>>

-----------------------------------------------------------------------------
(* The transaction root, in a directory everybody may write to             *)

\* Fault variant of SafeParent: the sticky bit is not asked for.
AnyParent(dir) == TRUE

\* validateTransactionDirectoryInfo of a parent: others cannot write to it,
\* or cannot remove from it what is not theirs.
SafeParent(dir) == dir = "sticky"

\* A missing component is created, then looked at whoever created it.
inspectTransactionDirectoryPath(d) ==
  /\ At(d, "root")
  /\ LET made == IF root = NoFile THEN "private" ELSE root IN
     IF SafeParent(base)
     THEN /\ root' = made
          /\ IF made = "private"
             THEN Move(d, "root recheck") /\ UNCHANGED <<runtimeLock, dbLock>>
             ELSE Leave(d, FALSE)
     ELSE Leave(d, FALSE) /\ UNCHANGED root
  /\ UNCHANGED <<initVars, placed, ledger, socket, base>>

revalidateTransactionDirectorySnapshots(d) ==
  /\ At(d, "root recheck")
  /\ IF root = "private"
     THEN Move(d, "lock database") /\ UNCHANGED <<runtimeLock, dbLock>>
     ELSE Leave(d, FALSE)
  /\ UNCHANGED <<initVars, placed, ledger, socket, base, root>>

\* Another user creates the directory first, or replaces it if it may.
Intrude ==
  /\ root # "foreign"
  /\ base = "open" \/ root = NoFile
  /\ root' = "foreign"
  /\ UNCHANGED <<initVars, placed, st, runtimeLock, dbLock, ledger, socket, base>>

-----------------------------------------------------------------------------
(* The ledger                                                              *)

acquireProcessLock(d) ==
  /\ At(d, "lock database")
  /\ IF dbLock[placed[d].database] = NoFile
     THEN /\ dbLock' = [dbLock EXCEPT ![placed[d].database] = d]
          /\ Move(d, "inspect") /\ UNCHANGED runtimeLock
     ELSE Leave(d, FALSE)
  /\ UNCHANGED <<initVars, placed, ledger, socket, base, root>>

\* Whether a ledger may be bound: never from another runtime, and with
\* history in it neither under another profile nor, in production, unlabelled.
MayBind(l, id, profile) ==
  /\ l.runtime \in {NoFile, id}
  /\ l.history # {} =>
       /\ l.profile \in {"none", profile}
       /\ profile = "production" => l.runtime # NoFile /\ l.profile # "none"

\* Fault variant of checkExistingRuntimeMetadata: nothing is looked at.
checkNothing(d) == TRUE

checkExistingRuntimeMetadata(d) ==
  MayBind(ledger[placed[d].database], st[d].id, st[d].profile)

\* openSQLite: the binding is inspected before the schema is touched.
InspectLedger(d) ==
  /\ At(d, "inspect")
  /\ IF checkExistingRuntimeMetadata(d)
     THEN Move(d, "initialize") /\ UNCHANGED <<runtimeLock, dbLock>>
     ELSE Leave(d, FALSE)
  /\ UNCHANGED <<initVars, placed, ledger, socket, base, root>>

initialize(d) ==
  /\ At(d, "initialize")
  /\ ledger' = [ledger EXCEPT ![placed[d].database].schema = "current"]
  /\ Move(d, "bind")
  /\ UNCHANGED <<initVars, placed, runtimeLock, dbLock, socket, base, root>>

\* Fault variant of BindRuntimeMetadata: it relies on the earlier inspection.
BindUnchecked(d) ==
  /\ At(d, "bind")
  /\ ledger' = [ledger EXCEPT ![placed[d].database].runtime = st[d].id,
                              ![placed[d].database].profile = st[d].profile]
  /\ Move(d, "recover")
  /\ UNCHANGED <<initVars, placed, runtimeLock, dbLock, socket, base, root>>

\* One transaction that looks at the binding again and writes it.
BindRuntimeMetadata(d) ==
  /\ At(d, "bind")
  /\ IF MayBind(ledger[placed[d].database], st[d].id, st[d].profile)
     THEN /\ ledger' = [ledger EXCEPT ![placed[d].database].runtime = st[d].id,
                                      ![placed[d].database].profile = st[d].profile]
          /\ Move(d, "recover") /\ UNCHANGED <<runtimeLock, dbLock>>
     ELSE Leave(d, FALSE) /\ UNCHANGED ledger
  /\ UNCHANGED <<initVars, placed, socket, base, root>>

\* Recovery of executions and of actions, PairedExecution and ActionBroker.
Recover(d) ==
  /\ At(d, "recover")
  /\ \/ Move(d, "find socket") /\ UNCHANGED <<runtimeLock, dbLock>>
     \/ ledger[placed[d].database].history # {} /\ Leave(d, FALSE)
  /\ UNCHANGED <<initVars, placed, ledger, socket, base, root>>

-----------------------------------------------------------------------------
(* The socket: prepareSocketPath, ListenUnix and the end of Run            *)

FindSocket(d) ==
  /\ At(d, "find socket")
  /\ st' = [st EXCEPT ![d].pc = IF socket[SocketOf[d]] = NoFile THEN "listen" ELSE "dial",
                      ![d].seen = socket[SocketOf[d]]]
  /\ UNCHANGED <<initVars, placed, runtimeLock, dbLock, ledger, socket, base, root>>

Dial(d) ==
  /\ At(d, "dial")
  /\ IF socket[SocketOf[d]] # NoFile /\ socket[SocketOf[d]].live
     THEN Leave(d, TRUE)
     ELSE Move(d, "recheck") /\ UNCHANGED <<runtimeLock, dbLock>>
  /\ UNCHANGED <<initVars, placed, ledger, socket, base, root>>

RecheckSocket(d) ==
  /\ At(d, "recheck")
  /\ LET now == socket[SocketOf[d]] IN
     CASE now = NoFile -> Move(d, "listen") /\ UNCHANGED <<runtimeLock, dbLock>>
       [] now # NoFile /\ now.inode = st[d].seen.inode
                       -> Move(d, "remove") /\ UNCHANGED <<runtimeLock, dbLock>>
       [] OTHER        -> Leave(d, TRUE)
  /\ UNCHANGED <<initVars, placed, ledger, socket, base, root>>

\* Fault variant of RemoveSocket: the stale file is left for bind to replace.
KeepSocket(d) ==
  /\ At(d, "remove")
  /\ Move(d, "listen")
  /\ UNCHANGED <<initVars, placed, runtimeLock, dbLock, ledger, socket, base, root>>

RemoveSocket(d) ==
  /\ At(d, "remove")
  /\ socket' = [socket EXCEPT ![SocketOf[d]] = NoFile]
  /\ Move(d, "listen")
  /\ UNCHANGED <<initVars, placed, runtimeLock, dbLock, ledger, base, root>>

Listen(d) ==
  /\ At(d, "listen")
  /\ IF socket[SocketOf[d]] = NoFile
     THEN /\ socket' = [socket EXCEPT ![SocketOf[d]] =
                          [inode |-> Inode(d), live |-> TRUE]]
          /\ Move(d, "serving") /\ UNCHANGED <<runtimeLock, dbLock>>
     ELSE Leave(d, TRUE) /\ UNCHANGED socket
  /\ UNCHANGED <<initVars, placed, ledger, base, root>>

\* A request has begun its transaction on the ledger.
BeginRequest(d) ==
  /\ At(d, "serving") /\ ~st[d].busy
  /\ st' = [st EXCEPT ![d].busy = TRUE]
  /\ UNCHANGED <<initVars, placed, runtimeLock, dbLock, ledger, socket, base, root>>

requireStoredRuntimeBinding(l, id, profile) == l.runtime = id /\ l.profile = profile

\* The transaction commits; AdmitTask, the only way to create history, has
\* compared the binding inside it.
CommitRequest(d) ==
  /\ st[d].busy
  /\ st' = [st EXCEPT ![d].busy = FALSE]
  /\ LET l == ledger[placed[d].database] IN
     ledger' = IF requireStoredRuntimeBinding(l, st[d].id, st[d].profile)
               THEN [ledger EXCEPT ![placed[d].database].history =
                                     @ \cup {<<st[d].id, st[d].profile>>}]
               ELSE ledger
  /\ UNCHANGED <<initVars, placed, runtimeLock, dbLock, socket, base, root>>

MarkDead(d) ==
  socket' = [s \in Sockets |->
    IF s = SocketOf[d] /\ socket[s] # NoFile /\ socket[s].inode = Inode(d)
    THEN [socket[s] EXCEPT !.live = FALSE] ELSE socket[s]]

\* Serve returns as soon as Shutdown closes the listener.
Shutdown(d) ==
  /\ At(d, "serving")
  /\ Move(d, "closing") /\ MarkDead(d)
  /\ UNCHANGED <<initVars, placed, runtimeLock, dbLock, ledger, base, root>>

\* Fault variant of removeOwnedSocket: the socket is removed by name, and only
\* once the locks are released.
removeSocketLate(d) ==
  \/ /\ At(d, "closing")
     /\ Move(d, "closed")
     /\ UNCHANGED <<initVars, placed, runtimeLock, dbLock, ledger, socket, base, root>>
  \/ /\ At(d, "released")
     /\ socket' = [socket EXCEPT ![SocketOf[d]] = NoFile]
     /\ UNCHANGED <<initVars, placed, st, runtimeLock, dbLock, ledger, base, root>>

removeOwnedSocket(d) ==
  /\ At(d, "closing")
  /\ socket' = IF socket[SocketOf[d]] # NoFile /\ socket[SocketOf[d]].inode = Inode(d)
               THEN [socket EXCEPT ![SocketOf[d]] = NoFile] ELSE socket
  /\ Move(d, "closed")
  /\ UNCHANGED <<initVars, placed, runtimeLock, dbLock, ledger, base, root>>

\* The store and the locks are closed; the process is still there.
ReleaseLocks(d) ==
  /\ At(d, "closed")
  /\ Move(d, "released")
  /\ dbLock' = [dbLock EXCEPT ![placed[d].database] = NoFile]
  /\ runtimeLock' = [runtimeLock EXCEPT ![placed[d].repository] = NoFile]
  /\ UNCHANGED <<initVars, placed, ledger, socket, base, root>>

\* The process ends, at once or at the end of Run.
Exit(d) ==
  /\ st[d].pc # "stopped"
  /\ Leave(d, FALSE) /\ MarkDead(d)
  /\ UNCHANGED <<initVars, placed, ledger, base, root>>

DaemonStep(d) ==
  \/ \E profile \in EnforcementProfiles : Start(d, profile)
  \/ RefuseConfiguration(d) \/ acquireRuntimeLock(d)
  \/ inspectTransactionDirectoryPath(d)
  \/ revalidateTransactionDirectorySnapshots(d) \/ acquireProcessLock(d)
  \/ InspectLedger(d) \/ initialize(d) \/ BindRuntimeMetadata(d) \/ Recover(d)
  \/ FindSocket(d) \/ Dial(d) \/ RecheckSocket(d) \/ RemoveSocket(d) \/ Listen(d)
  \/ BeginRequest(d) \/ CommitRequest(d)
  \/ Shutdown(d) \/ removeOwnedSocket(d) \/ ReleaseLocks(d) \/ Exit(d)

InitializersNext == \E p \in Initializers : InitializerStep(p) /\ UNCHANGED daemonVars
DaemonsNext == (\E d \in Daemons : DaemonStep(d)) \/ Intrude
Next == InitializersNext \/ DaemonsNext

Spec == Init /\ [][Next]_vars

-----------------------------------------------------------------------------
(* Properties *)

\* Every variable stays in its type; the locks are held by daemons.
TypeOK ==
  /\ identity \in Initializers \cup {NoFile, Partial}
  /\ ignore \in {NoFile, "lacking", "complete"}
  /\ issued \subseteq Initializers
  /\ \A d \in Daemons :
       /\ st[d].pc \in Rooted \cup {"stopped", "lock runtime", "root", "root recheck",
                                    "released"}
       /\ st[d].id \in Initializers \cup {NoFile, OtherID}
       /\ st[d].profile \in EnforcementProfiles \cup {"none"}
       /\ st[d].starts \in 0..MaxStarts
       /\ st[d].busy \in BOOLEAN
  /\ runtimeLock \in [Repositories -> Daemons \cup {NoFile}]
  /\ dbLock \in [Databases -> Daemons \cup {NoFile}]
  /\ root \in {NoFile, "private", "foreign"}

\* A ledger holds the history of one runtime under one profile, the one it
\* is bound to; history that was there before bindings existed may only be
\* beside history of a development runtime.  This holds although requests of
\* a daemon that has given up its locks may still commit.
HistoryOfOneRuntime ==
  \A db \in Databases :
    LET l == ledger[db] IN
    /\ l.history \subseteq {<<l.runtime, l.profile>>, <<NoFile, "none">>}
    /\ <<NoFile, "none">> \in l.history => l.profile # "production"

\* A daemon that serves is reachable: the socket path leads to its own
\* listener, however many others start, stop and crash beside it.
ServingIsReachable ==
  \A d \in Daemons : At(d, "serving") =>
    socket[SocketOf[d]] = [inode |-> Inode(d), live |-> TRUE]

\* What a crashed daemon leaves never stops the next one: a start is not
\* refused because of the socket.
StaleSocketNeverBlocks == \A d \in Daemons : ~st[d].blocked

\* From the moment a daemon has accepted the transaction root nobody else can
\* put a directory of their own in its place.
RootStaysPrivate ==
  \A d \in Daemons : st[d].pc \in Rooted =>
    root = "private"

\* A ledger that is refused is left as it was: whoever changes a ledger
\* belongs to the runtime it is bound to, or to the first one.
ForeignLedgerUntouched ==
  [][\A db \in Databases : ledger'[db] # ledger[db] =>
       \E d \in Daemons : /\ placed[d].database = db
                          /\ st'[d] # st[d]
                          /\ ledger[db].runtime \in {NoFile, st[d].id}]_vars

\* What initializers and daemons know of a runtime: everybody is given one
\* identity, and an initialization that succeeded is not undone.
RuntimeInv == TypeOK /\ IdentityAgreement /\ InitializationLasts

\* A socket path leads to the daemon that serves on it, and one that a crash
\* left behind is in nobody's way.
SocketsServe == ServingIsReachable /\ StaleSocketNeverBlocks

=============================================================================
