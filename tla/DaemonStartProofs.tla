------------------------- MODULE DaemonStartProofs -------------------------
(***************************************************************************)
(* Initializers and daemons of a runtime, for any number of them: who is   *)
(* given which identity, what stays of an initialization, who holds the    *)
(* locks, what a ledger records, who may replace the transaction root and  *)
(* where a socket path leads.                                              *)
(***************************************************************************)
EXTENDS DaemonStart, FiniteSetTheorems, TLAPS

-----------------------------------------------------------------------------
(* Initializers *)

InitPlaces ==
  {"idle", "profiles", "create profiles", "write profiles", "replace profiles",
   "rename profiles", "ignore", "identity", "create identity", "write identity",
   "sync identity", "roll back", "roll back ignore", "done", "failed", "crashed"}

FullDocuments == [inode : Inodes, content : SUBSET Profiles]

WroteRecord ==
  [profile : {"no", "created", "updated"}, ignore : {"no", "created", "updated"},
   inode : {NoFile} \cup Inodes]

\* Before the ignore file.
Early == {"idle", "profiles", "create profiles", "write profiles", "replace profiles",
          "rename profiles", "ignore"}

\* What p has read of the profiles when it writes or restores them.
ReadOK(p) ==
  /\ ipc[p] \in {"replace profiles", "rename profiles"} => seen[p] \in FullDocuments
  /\ ipc[p] \in {"create profiles", "write profiles", "replace profiles", "rename profiles"} =>
       ProfileOf[p] # NoProfile
  /\ wrote[p].profile = "updated" => seen[p] \in FullDocuments
  /\ ipc[p] \in {"idle", "profiles", "create profiles", "write profiles"} =>
       wrote[p].profile = "no"
  /\ wrote[p].profile # "no" => ProfileOf[p] # NoProfile
  /\ ipc[p] \in Early => wrote[p].ignore = "no"

FilesInv ==
  /\ profiles \in {NoFile} \cup Documents
  /\ ignore \in {NoFile, "lacking", "complete"}
  /\ identity \in Initializers \cup {NoFile, Partial}
  /\ ipc \in [Initializers -> InitPlaces]
  /\ seen \in [Initializers -> {NoFile} \cup Documents]
  /\ wrote \in [Initializers -> WroteRecord]
  /\ beside \in [Initializers -> SUBSET Initializers] /\ issued \subseteq Initializers
  /\ \A p \in Initializers : ReadOK(p)

\* The identity file has one writer, and what was returned is what it holds
\* unless its writer fails.
IdentityInv ==
  /\ \A p \in Initializers : ipc[p] = "write identity" => identity = Partial
  /\ \A p \in Initializers : ipc[p] = "sync identity" => identity = p
  /\ \A p, q \in Initializers :
       ipc[p] = "write identity" /\ ipc[q] = "write identity" => p = q
  /\ IdentityAgreement

Done(p) == ipc[p] = "done"
Active(p) == ipc[p] \notin Ended
Creating == {"create identity", "write identity", "sync identity"}

\* Who is under way together knows of each other.
BesideInv ==
  \A p, q \in Initializers : Active(p) /\ Active(q) /\ p # q => q \in beside[p]

Undisturbed(p) == \A q \in beside[p] : ipc[q] \notin Failing

\* Where nobody beside p fails the ignore file stays, and the identity p got:
\* who comes later has nothing of either to undo.
LoadOK(p) ==
  Undisturbed(p) =>
    /\ ipc[p] \in Creating => ignore = "complete"
    /\ Done(p) => /\ Loadable
                  /\ \A q \in Initializers : Active(q) /\ q \notin beside[p] =>
                       wrote[q].ignore = "no" /\ ipc[q] # "sync identity"

Alone(p) == \A q \in beside[p] : ProfileOf[q] = NoProfile
Holds(p, document) == document \in FullDocuments /\ ProfileOf[p] \in document.content
Settled == {"ignore", "identity", "done"} \cup Creating

\* Where nobody beside p registers a profile that of p stays: who comes later
\* adds to a document that has it, and restores one that has it.
LaterOK(p, q) ==
  /\ ipc[q] \notin {"create profiles", "write profiles"} /\ wrote[q].profile # "created"
  /\ ipc[q] \in {"replace profiles", "rename profiles"} \/ wrote[q].profile = "updated" =>
       Holds(p, seen[q])

RegisterOK(p) ==
  Alone(p) /\ ProfileOf[p] # NoProfile =>
    /\ ipc[p] = "write profiles" => profiles # NoFile /\ profiles.inode = <<p, "new">>
    /\ ipc[p] \in Settled => Holds(p, profiles)
    /\ Done(p) => \A q \in Initializers :
                    Active(q) /\ ProfileOf[q] # NoProfile => LaterOK(p, q)

LastsInv == BesideInv /\ \A p \in Initializers : LoadOK(p) /\ RegisterOK(p)

InitializersInv == FilesInv /\ IdentityInv /\ LastsInv

-----------------------------------------------------------------------------
(* Daemons *)

Identities == Initializers \cup {NoFile, OtherID}
LedgerProfiles == EnforcementProfiles \cup {"none"}

DaemonPlaces == Rooted \cup {"stopped", "lock runtime", "root", "root recheck", "released"}

DaemonRecord ==
  [pc : DaemonPlaces, id : Identities, profile : LedgerProfiles,
   seen : {NoFile} \cup SocketFiles, busy : BOOLEAN, starts : 0..MaxStarts,
   blocked : {FALSE}]

LedgerRecord ==
  [schema : {"none", "old", "current"}, runtime : Identities, profile : LedgerProfiles,
   history : SUBSET (Identities \X LedgerProfiles)]

\* A daemon that runs has an identity and a profile.
StateInv ==
  /\ placed \in Placements
  /\ st \in [Daemons -> DaemonRecord]
  /\ \A d \in Daemons : st[d].pc # "stopped" =>
       st[d].id # NoFile /\ st[d].profile \in EnforcementProfiles

\* Locks have one holder from the moment Run has them until it gives them up.
LockInv ==
  /\ runtimeLock \in [Repositories -> Daemons \cup {NoFile}]
  /\ dbLock \in [Databases -> Daemons \cup {NoFile}]
  /\ \A d \in Daemons :
       /\ st[d].pc \in Rooted \cup {"root", "root recheck"} =>
            runtimeLock[placed[d].repository] = d
       /\ st[d].pc \in Owning => dbLock[placed[d].database] = d

\* The root was accepted in a directory whose sticky bit protects it.
RootInv ==
  /\ root \in {NoFile, "private", "foreign"}
  /\ \A d \in Daemons : st[d].pc \in Rooted \cup {"root recheck"} =>
       base = "sticky" /\ root = "private"

\* A ledger is bound to a runtime and a profile together, and a daemon that
\* changes the schema of one has seen that it may.
LedgerInv ==
  /\ ledger \in [Databases -> LedgerRecord]
  /\ \A db \in Databases : ledger[db].runtime = NoFile <=> ledger[db].profile = "none"
  /\ HistoryOfOneRuntime
  /\ \A d \in Daemons : At(d, "initialize") =>
       ledger[placed[d].database].runtime \in {NoFile, st[d].id}

\* Only a daemon that serves listens, and from its look at the socket path on
\* nobody but the daemon itself puts a file there.
SocketOK(d) ==
  /\ st[d].pc \in {"dial", "recheck"} =>
       /\ socket[SocketOf[d]] # NoFile
       /\ socket[SocketOf[d]].inode = st[d].seen.inode
  /\ At(d, "listen") => socket[SocketOf[d]] = NoFile
  /\ At(d, "serving") => socket[SocketOf[d]] = [inode |-> Inode(d), live |-> TRUE]

SocketInv ==
  /\ socket \in [Sockets -> {NoFile} \cup SocketFiles]
  /\ \A s \in Sockets : socket[s] # NoFile /\ socket[s].live =>
       \E d \in Daemons : At(d, "serving") /\ SocketOf[d] = s
  /\ \A d \in Daemons : SocketOK(d)

DaemonInv == InitializersInv /\ StateInv /\ LockInv /\ RootInv /\ LedgerInv /\ SocketInv

-----------------------------------------------------------------------------
(* Daemons: where a step leaves the daemon that takes it *)

LEMMA PlacesAre ==
  /\ Owning \subseteq Rooted /\ Rooted \subseteq DaemonPlaces
  /\ \A x \in {"stopped", "lock runtime", "root", "root recheck", "released"} :
       x \in DaemonPlaces /\ x \notin Rooted /\ x \notin Owning
  /\ "lock database" \in Rooted /\ "lock database" \notin Owning
  /\ \A x \in {"inspect", "initialize", "bind", "recover", "find socket", "dial", "recheck",
               "remove", "listen", "serving", "closing", "closed"} :
       x \in Owning /\ x \in Rooted /\ x \in DaemonPlaces
  BY DEF Owning, Rooted, DaemonPlaces

LEMMA StoppedIs ==
  ASSUME NEW n \in 0..MaxStarts
  PROVE  /\ Stopped(n, FALSE) \in DaemonRecord /\ Stopped(n, FALSE).pc = "stopped"
         /\ Stopped(n, FALSE).starts = n /\ ~Stopped(n, FALSE).busy
  BY PlacesAre DEF Stopped, DaemonRecord, Identities, LedgerProfiles

LEMMA MoveIs ==
  ASSUME StateInv, NEW d \in Daemons, NEW where \in DaemonPlaces, Move(d, where)
  PROVE  /\ st' \in [Daemons -> DaemonRecord] /\ \A e \in Daemons \ {d} : st'[e] = st[e]
         /\ st'[d].pc = where /\ st'[d].id = st[d].id /\ st'[d].profile = st[d].profile
         /\ st'[d].seen = st[d].seen /\ st'[d].starts = st[d].starts
         /\ st'[d].busy = st[d].busy
<1> DEFINE x == [st[d] EXCEPT !.pc = where]
<1>1. st' = [st EXCEPT ![d] = x] /\ st \in [Daemons -> DaemonRecord] /\ st[d] \in DaemonRecord
  BY DEF Move, StateInv
<1>2. /\ x \in DaemonRecord /\ x.pc = where /\ x.id = st[d].id /\ x.profile = st[d].profile
      /\ x.seen = st[d].seen /\ x.starts = st[d].starts /\ x.busy = st[d].busy
  BY <1>1 DEF DaemonRecord
<1> HIDE DEF x
<1> QED
  BY <1>1, <1>2

LEMMA LeaveIs ==
  ASSUME StateInv, NEW d \in Daemons, Leave(d, FALSE)
  PROVE  /\ st' \in [Daemons -> DaemonRecord] /\ \A e \in Daemons \ {d} : st'[e] = st[e]
         /\ st'[d].pc = "stopped"
<1>1. st \in [Daemons -> DaemonRecord] /\ st[d].starts \in 0..MaxStarts
  BY DEF StateInv, DaemonRecord
<1>2. st' = [st EXCEPT ![d] = Stopped(st[d].starts, FALSE)]
  BY DEF Leave
<1> QED
  BY <1>1, <1>2, StoppedIs

\* What a step may do to the state of daemon d, other daemons aside.
Stepped(d) ==
  /\ st' \in [Daemons -> DaemonRecord]
  /\ \A e \in Daemons \ {d} : st'[e] = st[e]
  /\ st'[d].pc # "stopped" => st'[d].id # NoFile /\ st'[d].profile \in EnforcementProfiles

\* It goes on with what it has loaded.
WentOn(d, where) ==
  /\ st'[d].pc = where /\ st'[d].id = st[d].id /\ st'[d].profile = st[d].profile
  /\ st'[d].seen = st[d].seen /\ st'[d].starts = st[d].starts

LEMMA MoveStepped ==
  ASSUME StateInv, NEW d \in Daemons, NEW where \in DaemonPlaces, Move(d, where),
         st[d].pc # "stopped"
  PROVE  Stepped(d) /\ WentOn(d, where)
  BY MoveIs DEF Stepped, WentOn, StateInv

LEMMA LeaveStepped ==
  ASSUME StateInv, NEW d \in Daemons, Leave(d, FALSE)
  PROVE  Stepped(d) /\ st'[d].pc = "stopped"
  BY LeaveIs DEF Stepped

LEMMA BusyStepped ==
  ASSUME StateInv, NEW d \in Daemons, NEW b \in BOOLEAN, st' = [st EXCEPT ![d].busy = b]
  PROVE  Stepped(d) /\ WentOn(d, st[d].pc)
<1> DEFINE x == [st[d] EXCEPT !.busy = b]
<1>1. st' = [st EXCEPT ![d] = x] /\ st \in [Daemons -> DaemonRecord] /\ st[d] \in DaemonRecord
  BY DEF StateInv
<1>2. /\ x \in DaemonRecord /\ x.pc = st[d].pc /\ x.id = st[d].id /\ x.profile = st[d].profile
      /\ x.seen = st[d].seen /\ x.starts = st[d].starts
  BY <1>1 DEF DaemonRecord
<1> HIDE DEF x
<1> QED
  BY <1>1, <1>2 DEF Stepped, WentOn, StateInv

LEMMA StartStepped ==
  ASSUME StateInv, FilesInv, NEW d \in Daemons,
         RefuseConfiguration(d) \/ \E profile \in EnforcementProfiles : Start(d, profile)
  PROVE  Stepped(d) /\ st'[d].pc \in {"stopped", "lock runtime"}
<1>1. /\ st \in [Daemons -> DaemonRecord] /\ st[d].starts \in 0..MaxStarts
      /\ st[d].starts < MaxStarts
  BY DEF StateInv, DaemonRecord, RefuseConfiguration, Start
<1>2. st[d].starts + 1 \in 0..MaxStarts
  BY <1>1, DaemonsAssumption
<1>3. PICK n \in 0..MaxStarts : n = st[d].starts + 1
  BY <1>2
<1>4. ASSUME st' = [st EXCEPT ![d] = Stopped(n, FALSE)]
      PROVE  Stepped(d) /\ st'[d].pc \in {"stopped", "lock runtime"}
  BY <1>1, <1>4, StoppedIs DEF Stepped
<1>5. ASSUME NEW id \in Identities \ {NoFile}, NEW profile \in EnforcementProfiles,
             st' = [st EXCEPT ![d] = [Stopped(n, FALSE)
                      EXCEPT !.pc = "lock runtime", !.id = id, !.profile = profile]]
      PROVE  Stepped(d) /\ st'[d].pc \in {"stopped", "lock runtime"}
  <2> DEFINE y == Stopped(n, FALSE)
             x == [y EXCEPT !.pc = "lock runtime", !.id = id, !.profile = profile]
  <2>1. y \in DaemonRecord
    BY StoppedIs
  <2>2. "lock runtime" \in DaemonPlaces /\ profile \in LedgerProfiles
    BY PlacesAre DEF LedgerProfiles
  <2>3. st' = [st EXCEPT ![d] = x]
    BY <1>5
  <2> HIDE DEF y
  <2>4. x \in DaemonRecord
    BY <2>1, <2>2 DEF DaemonRecord
  <2>5. x.pc = "lock runtime" /\ x.id = id /\ x.profile = profile
    BY <2>1 DEF DaemonRecord
  <2> HIDE DEF x
  <2> QED
    BY <1>1, <1>5, <2>3, <2>4, <2>5 DEF Stepped
<1>6. CASE RefuseConfiguration(d)
  BY <1>1, <1>3, <1>4, <1>6 DEF RefuseConfiguration
<1>7. ASSUME NEW profile \in EnforcementProfiles, Start(d, profile)
      PROVE  Stepped(d) /\ st'[d].pc \in {"stopped", "lock runtime"}
  <2> DEFINE id == IF placed[d].repository # Home THEN OtherID
                   ELSE IF Loadable THEN identity ELSE NoFile
  <2>1. id \in Identities
    BY DEF Loadable, Identities
  <2>2. CASE id = NoFile
    BY <1>1, <1>3, <1>4, <1>7, <2>2 DEF Start
  <2>3. CASE id # NoFile
    <3>1. st' = [st EXCEPT ![d] = [Stopped(n, FALSE)
                   EXCEPT !.pc = "lock runtime", !.id = id, !.profile = profile]]
      BY <1>1, <1>3, <1>7, <2>3 DEF Start
    <3> HIDE DEF id
    <3> QED
      BY <1>5, <2>1, <2>3, <3>1
  <2> QED
    BY <2>2, <2>3
<1> QED
  BY <1>6, <1>7

-----------------------------------------------------------------------------
(* Locks exclude *)

LEMMA Placed ==
  ASSUME StateInv, NEW d \in Daemons
  PROVE  /\ placed[d].repository \in Repositories /\ placed[d].database \in Databases
         /\ SocketOf[d] \in Sockets /\ st[d] \in DaemonRecord /\ d # NoFile
  BY DaemonsAssumption DEF StateInv, Repositories, Databases, Sockets

\* Two daemons own neither one database nor one socket path.
LEMMA Exclusive ==
  ASSUME StateInv, LockInv, NEW d \in Daemons, NEW e \in Daemons,
         st[d].pc \in Owning, st[e].pc \in Owning,
         SocketOf[d] = SocketOf[e] \/ placed[d].database = placed[e].database
  PROVE  d = e
<1>1. /\ runtimeLock[placed[d].repository] = d /\ runtimeLock[placed[e].repository] = e
      /\ dbLock[placed[d].database] = d /\ dbLock[placed[e].database] = e
  BY PlacesAre DEF LockInv
<1>2. \/ placed[d].repository = placed[e].repository
      \/ placed[d].database = placed[e].database
  BY SocketAssumption DEF StateInv
<1> QED
  BY <1>1, <1>2

\* A start is not refused because of the socket.
LEMMA SocketFree ==
  ASSUME DaemonInv, NEW d \in Daemons
  PROVE  /\ Dial(d) => Move(d, "recheck") /\ UNCHANGED <<runtimeLock, dbLock>>
         /\ RecheckSocket(d) => Move(d, "remove") /\ UNCHANGED <<runtimeLock, dbLock>>
         /\ Listen(d) =>
              /\ socket[SocketOf[d]] = NoFile
              /\ socket' = [socket EXCEPT ![SocketOf[d]] = [inode |-> Inode(d), live |-> TRUE]]
              /\ Move(d, "serving") /\ UNCHANGED <<runtimeLock, dbLock>>
<1>1. SocketOK(d) /\ StateInv /\ LockInv /\ SocketInv /\ SocketOf[d] \in Sockets
  BY Placed DEF DaemonInv, SocketInv
<1>2. ASSUME Dial(d) PROVE Move(d, "recheck") /\ UNCHANGED <<runtimeLock, dbLock>>
  <2>1. ASSUME socket[SocketOf[d]] # NoFile, socket[SocketOf[d]].live PROVE FALSE
    <3>1. PICK e \in Daemons : At(e, "serving") /\ SocketOf[e] = SocketOf[d]
      BY <1>1, <2>1 DEF SocketInv
    <3>2. d = e
      BY <1>1, <1>2, <3>1, Exclusive, PlacesAre DEF Dial, At
    <3> QED
      BY <1>2, <3>1, <3>2 DEF Dial, At
  <2> QED
    BY <1>2, <2>1 DEF Dial
<1>3. ASSUME RecheckSocket(d) PROVE Move(d, "remove") /\ UNCHANGED <<runtimeLock, dbLock>>
  BY <1>1, <1>3 DEF RecheckSocket, SocketOK, At
<1>4. ASSUME Listen(d)
      PROVE  /\ socket[SocketOf[d]] = NoFile
             /\ socket' = [socket EXCEPT ![SocketOf[d]] = [inode |-> Inode(d), live |-> TRUE]]
             /\ Move(d, "serving") /\ UNCHANGED <<runtimeLock, dbLock>>
  BY <1>1, <1>4 DEF Listen, SocketOK, At
<1> QED
  BY <1>2, <1>3, <1>4

\* Where each step of a daemon leads.
LEMMA Transition ==
  ASSUME DaemonInv, NEW d \in Daemons, DaemonStep(d)
  PROVE  Stepped(d) /\ UNCHANGED placed
<1>1. StateInv /\ FilesInv /\ UNCHANGED placed
  BY DEF DaemonInv, InitializersInv, DaemonStep, Start, RefuseConfiguration, acquireRuntimeLock,
         inspectTransactionDirectoryPath, revalidateTransactionDirectorySnapshots,
         acquireProcessLock, InspectLedger, initialize, BindRuntimeMetadata, Recover,
         FindSocket, Dial, RecheckSocket, RemoveSocket, Listen, BeginRequest, CommitRequest,
         Shutdown, removeOwnedSocket, ReleaseLocks, Exit
<1>2. ASSUME NEW where \in DaemonPlaces, Move(d, where), st[d].pc # "stopped" PROVE Stepped(d)
  BY <1>1, <1>2, MoveStepped
<1>3. ASSUME Leave(d, FALSE) PROVE Stepped(d)
  BY <1>1, <1>3, LeaveStepped
<1>4. CASE RefuseConfiguration(d) \/ \E profile \in EnforcementProfiles : Start(d, profile)
  BY <1>1, <1>4, StartStepped
<1>5. CASE \/ acquireRuntimeLock(d) \/ inspectTransactionDirectoryPath(d)
           \/ revalidateTransactionDirectorySnapshots(d) \/ acquireProcessLock(d)
           \/ InspectLedger(d) \/ initialize(d) \/ BindRuntimeMetadata(d) \/ Recover(d)
  <2>1. \/ Leave(d, FALSE)
        \/ /\ \E where \in {"root", "root recheck", "lock database", "inspect", "initialize",
                            "bind", "recover", "find socket"} : Move(d, where)
           /\ st[d].pc # "stopped"
    BY <1>5 DEF At, acquireRuntimeLock, inspectTransactionDirectoryPath,
                revalidateTransactionDirectorySnapshots, acquireProcessLock, InspectLedger,
                initialize, BindRuntimeMetadata, Recover
  <2> QED
    BY <1>1, <1>2, <1>3, <2>1, PlacesAre
<1>6. CASE \/ Dial(d) \/ RecheckSocket(d) \/ RemoveSocket(d) \/ Listen(d)
           \/ Shutdown(d) \/ removeOwnedSocket(d) \/ ReleaseLocks(d)
  <2>1. \E where \in {"recheck", "remove", "listen", "serving", "closing", "closed", "released"} :
          Move(d, where)
    BY <1>6, SocketFree DEF RemoveSocket, Shutdown, removeOwnedSocket, ReleaseLocks
  <2>2. st[d].pc # "stopped"
    BY <1>6 DEF At, Dial, RecheckSocket, RemoveSocket, Listen, Shutdown, removeOwnedSocket,
                ReleaseLocks
  <2> QED
    BY <1>1, <1>2, <2>1, <2>2, PlacesAre
<1>7. CASE Exit(d)
  BY <1>3, <1>7 DEF Exit
<1>8. CASE BeginRequest(d) \/ CommitRequest(d)
  BY <1>1, <1>8, BusyStepped DEF BeginRequest, CommitRequest
<1>9. CASE FindSocket(d)
  <2> DEFINE where == IF socket[SocketOf[d]] = NoFile THEN "listen" ELSE "dial"
             x == [st[d] EXCEPT !.pc = where, !.seen = socket[SocketOf[d]]]
  <2>1. st' = [st EXCEPT ![d] = x] /\ st \in [Daemons -> DaemonRecord] /\ st[d].pc # "stopped"
    BY <1>1, <1>9 DEF FindSocket, StateInv, At
  <2>2. st[d] \in DaemonRecord /\ where \in DaemonPlaces
        /\ socket[SocketOf[d]] \in {NoFile} \cup SocketFiles
    BY <1>1, Placed, PlacesAre DEF DaemonInv, SocketInv
  <2> HIDE DEF where
  <2>3. x \in DaemonRecord /\ x.id = st[d].id /\ x.profile = st[d].profile
    BY <2>2 DEF DaemonRecord
  <2> HIDE DEF x
  <2> QED
    BY <1>1, <2>1, <2>3 DEF Stepped, StateInv
<1> QED
  BY <1>1, <1>4, <1>5, <1>6, <1>7, <1>8, <1>9 DEF DaemonStep

LEMMA StateStep ==
  ASSUME DaemonInv, NEW d \in Daemons, DaemonStep(d)
  PROVE  StateInv'
<1>1. Stepped(d) /\ UNCHANGED placed /\ StateInv
  BY Transition DEF DaemonInv
<1> QED
  BY <1>1 DEF StateInv, Stepped

\* The locks stay as they are, and d does not come to need one.
LEMMA LockSame ==
  ASSUME LockInv, NEW d \in Daemons, Stepped(d), UNCHANGED <<placed, runtimeLock, dbLock>>,
         st'[d].pc \in Rooted \cup {"root", "root recheck"} =>
           st[d].pc \in Rooted \cup {"root", "root recheck"},
         st'[d].pc \in Owning => st[d].pc \in Owning
  PROVE  LockInv'
<1>1. \A e \in Daemons :
        /\ st'[e].pc \in Rooted \cup {"root", "root recheck"} =>
             st[e].pc \in Rooted \cup {"root", "root recheck"}
        /\ st'[e].pc \in Owning => st[e].pc \in Owning
  BY DEF Stepped
<1> QED
  BY <1>1 DEF LockInv

LEMMA LockLeave ==
  ASSUME StateInv, LockInv, NEW d \in Daemons, Leave(d, FALSE), UNCHANGED placed
  PROVE  LockInv'
<1>1. st'[d].pc = "stopped" /\ \A e \in Daemons \ {d} : st'[e] = st[e]
  BY LeaveIs
<1>2. /\ runtimeLock' = [r \in Repositories |->
                           IF runtimeLock[r] = d THEN NoFile ELSE runtimeLock[r]]
      /\ dbLock' = [db \in Databases |-> IF dbLock[db] = d THEN NoFile ELSE dbLock[db]]
  BY DEF Leave
<1>3. /\ runtimeLock' \in [Repositories -> Daemons \cup {NoFile}]
      /\ dbLock' \in [Databases -> Daemons \cup {NoFile}]
  BY <1>2 DEF LockInv
<1>4. ASSUME NEW e \in Daemons
      PROVE  /\ st'[e].pc \in Rooted \cup {"root", "root recheck"} =>
                  runtimeLock'[placed[e].repository] = e
             /\ st'[e].pc \in Owning => dbLock'[placed[e].database] = e
  <2>1. CASE e = d
    BY <1>1, <2>1, PlacesAre
  <2>2. CASE e # d
    <3>1. placed[e].repository \in Repositories /\ placed[e].database \in Databases
      BY Placed
    <3>2. /\ runtimeLock[placed[e].repository] = e => runtimeLock'[placed[e].repository] = e
          /\ dbLock[placed[e].database] = e => dbLock'[placed[e].database] = e
      BY <1>2, <2>2, <3>1
    <3> QED
      BY <1>1, <2>2, <3>2 DEF LockInv
  <2> QED
    BY <2>1, <2>2
<1> QED
  BY <1>3, <1>4 DEF LockInv

\* A lock that is free is taken.
LEMMA LockTaken ==
  ASSUME DaemonInv, NEW d \in Daemons, acquireRuntimeLock(d) \/ acquireProcessLock(d)
  PROVE  LockInv'
<1>0. /\ StateInv /\ LockInv /\ UNCHANGED placed
      /\ placed[d].repository \in Repositories /\ placed[d].database \in Databases
      /\ runtimeLock \in [Repositories -> Daemons \cup {NoFile}]
      /\ dbLock \in [Databases -> Daemons \cup {NoFile}]
  BY Placed DEF DaemonInv, acquireRuntimeLock, acquireProcessLock, LockInv
<1>1. CASE Leave(d, FALSE)
  BY <1>0, <1>1, LockLeave
<1>2. CASE /\ runtimeLock[placed[d].repository] = NoFile /\ Move(d, "root") /\ UNCHANGED dbLock
           /\ runtimeLock' = [runtimeLock EXCEPT ![placed[d].repository] = d]
  <2>1. st'[d].pc = "root" /\ \A e \in Daemons \ {d} : st'[e] = st[e]
    BY <1>0, <1>2, MoveIs, PlacesAre
  <2>2. runtimeLock' \in [Repositories -> Daemons \cup {NoFile}]
    BY <1>0, <1>2
  <2>3. ASSUME NEW e \in Daemons
        PROVE  /\ st'[e].pc \in Rooted \cup {"root", "root recheck"} =>
                    runtimeLock'[placed[e].repository] = e
               /\ st'[e].pc \in Owning => dbLock'[placed[e].database] = e
    <3>1. CASE e = d
      BY <1>0, <1>2, <2>1, <3>1, PlacesAre
    <3>2. CASE e # d
      <4>1. /\ runtimeLock[placed[e].repository] = e => placed[e].repository # placed[d].repository
            /\ placed[e].repository \in Repositories
        BY <1>0, <1>2, Placed
      <4>2. runtimeLock[placed[e].repository] = e => runtimeLock'[placed[e].repository] = e
        BY <1>0, <1>2, <4>1
      <4> QED
        BY <1>0, <1>2, <2>1, <3>2, <4>2 DEF LockInv
    <3> QED
      BY <3>1, <3>2
  <2> QED
    BY <1>0, <1>2, <2>2, <2>3 DEF LockInv
<1>3. CASE /\ dbLock[placed[d].database] = NoFile /\ Move(d, "inspect") /\ UNCHANGED runtimeLock
           /\ dbLock' = [dbLock EXCEPT ![placed[d].database] = d] /\ At(d, "lock database")
  <2>1. st'[d].pc = "inspect" /\ \A e \in Daemons \ {d} : st'[e] = st[e]
    BY <1>0, <1>3, MoveIs, PlacesAre
  <2>2. dbLock' \in [Databases -> Daemons \cup {NoFile}]
    BY <1>0, <1>3
  <2>3. ASSUME NEW e \in Daemons
        PROVE  /\ st'[e].pc \in Rooted \cup {"root", "root recheck"} =>
                    runtimeLock'[placed[e].repository] = e
               /\ st'[e].pc \in Owning => dbLock'[placed[e].database] = e
    <3>1. CASE e = d
      BY <1>0, <1>3, <2>1, <3>1, PlacesAre DEF LockInv, At
    <3>2. CASE e # d
      <4>1. /\ dbLock[placed[e].database] = e => placed[e].database # placed[d].database
            /\ placed[e].database \in Databases
        BY <1>0, <1>3, Placed
      <4>2. dbLock[placed[e].database] = e => dbLock'[placed[e].database] = e
        BY <1>0, <1>3, <4>1
      <4> QED
        BY <1>0, <1>3, <2>1, <3>2, <4>2 DEF LockInv
    <3> QED
      BY <3>1, <3>2
  <2> QED
    BY <1>0, <1>3, <2>2, <2>3 DEF LockInv
<1> QED
  BY <1>1, <1>2, <1>3 DEF acquireRuntimeLock, acquireProcessLock

\* Run gives up its own locks only.
LEMMA LockReleased ==
  ASSUME DaemonInv, NEW d \in Daemons, ReleaseLocks(d)
  PROVE  LockInv'
<1>0. /\ StateInv /\ LockInv /\ UNCHANGED placed
      /\ placed[d].repository \in Repositories /\ placed[d].database \in Databases
      /\ runtimeLock \in [Repositories -> Daemons \cup {NoFile}]
      /\ dbLock \in [Databases -> Daemons \cup {NoFile}]
      /\ runtimeLock[placed[d].repository] = d /\ dbLock[placed[d].database] = d
  BY Placed, PlacesAre DEF DaemonInv, ReleaseLocks, LockInv, At
<1>1. /\ dbLock' = [dbLock EXCEPT ![placed[d].database] = NoFile]
      /\ runtimeLock' = [runtimeLock EXCEPT ![placed[d].repository] = NoFile]
      /\ st'[d].pc = "released" /\ \A e \in Daemons \ {d} : st'[e] = st[e]
  BY <1>0, MoveIs, PlacesAre DEF ReleaseLocks
<1>2. /\ runtimeLock' \in [Repositories -> Daemons \cup {NoFile}]
      /\ dbLock' \in [Databases -> Daemons \cup {NoFile}]
  BY <1>0, <1>1
<1>3. ASSUME NEW e \in Daemons
      PROVE  /\ st'[e].pc \in Rooted \cup {"root", "root recheck"} =>
                  runtimeLock'[placed[e].repository] = e
             /\ st'[e].pc \in Owning => dbLock'[placed[e].database] = e
  <2>1. CASE e = d
    BY <1>1, <2>1, PlacesAre
  <2>2. CASE e # d
    <3>1. placed[e].repository \in Repositories /\ placed[e].database \in Databases
      BY <1>0, Placed
    <3>2. runtimeLock[placed[e].repository] = e => runtimeLock'[placed[e].repository] = e
      BY <1>0, <1>1, <2>2, <3>1
    <3>3. dbLock[placed[e].database] = e => dbLock'[placed[e].database] = e
      BY <1>0, <1>1, <2>2, <3>1
    <3> QED
      BY <1>0, <1>1, <2>2, <3>2, <3>3 DEF LockInv
  <2> QED
    BY <2>1, <2>2
<1> QED
  BY <1>0, <1>2, <1>3 DEF LockInv

LEMMA LockStep ==
  ASSUME DaemonInv, NEW d \in Daemons, DaemonStep(d)
  PROVE  LockInv'
<1>0. StateInv /\ LockInv /\ FilesInv /\ Stepped(d) /\ UNCHANGED placed
  BY Transition DEF DaemonInv, InitializersInv
<1>1. CASE Leave(d, FALSE)
  BY <1>0, <1>1, LockLeave
<1>2. ASSUME NEW where \in DaemonPlaces, Move(d, where), UNCHANGED <<runtimeLock, dbLock>>,
             where \in Rooted \cup {"root", "root recheck"} =>
               st[d].pc \in Rooted \cup {"root", "root recheck"},
             where \in Owning => st[d].pc \in Owning
      PROVE  LockInv'
  <2>1. st'[d].pc = where
    BY <1>0, <1>2, MoveIs
  <2> QED
    BY <1>0, <1>2, <2>1, LockSame
<1>3. CASE RefuseConfiguration(d) \/ \E profile \in EnforcementProfiles : Start(d, profile)
  <2>1. st'[d].pc \in {"stopped", "lock runtime"} /\ UNCHANGED <<runtimeLock, dbLock>>
    BY <1>0, <1>3, StartStepped DEF RefuseConfiguration, Start
  <2> QED
    BY <1>0, <2>1, LockSame, PlacesAre
<1>4. CASE BeginRequest(d) \/ CommitRequest(d)
  <2>1. st'[d].pc = st[d].pc /\ UNCHANGED <<runtimeLock, dbLock>>
    BY <1>0, <1>4, BusyStepped DEF BeginRequest, CommitRequest, WentOn
  <2> QED
    BY <1>0, <2>1, LockSame
<1>5. CASE FindSocket(d)
  <2>1. st[d].pc \in Owning /\ UNCHANGED <<runtimeLock, dbLock>>
    BY <1>5, PlacesAre DEF FindSocket, At
  <2> QED
    BY <1>0, <2>1, LockSame, PlacesAre
<1>6. CASE \/ inspectTransactionDirectoryPath(d) \/ revalidateTransactionDirectorySnapshots(d)
           \/ InspectLedger(d) \/ initialize(d) \/ BindRuntimeMetadata(d) \/ Recover(d)
  <2>1. \/ Leave(d, FALSE)
        \/ /\ UNCHANGED <<runtimeLock, dbLock>>
           /\ \/ st[d].pc = "root" /\ Move(d, "root recheck")
              \/ st[d].pc = "root recheck" /\ Move(d, "lock database")
              \/ /\ st[d].pc \in {"inspect", "initialize", "bind", "recover"}
                 /\ \E where \in {"initialize", "bind", "recover", "find socket"} : Move(d, where)
    BY <1>6 DEF At, inspectTransactionDirectoryPath, revalidateTransactionDirectorySnapshots,
                InspectLedger, initialize, BindRuntimeMetadata, Recover
  <2> QED
    BY <1>1, <1>2, <2>1, PlacesAre
<1>7. CASE \/ Dial(d) \/ RecheckSocket(d) \/ RemoveSocket(d) \/ Listen(d)
           \/ Shutdown(d) \/ removeOwnedSocket(d)
  <2>1. /\ UNCHANGED <<runtimeLock, dbLock>>
        /\ \E where \in {"recheck", "remove", "listen", "serving", "closing", "closed"} :
             Move(d, where)
    BY <1>7, SocketFree DEF RemoveSocket, Shutdown, removeOwnedSocket
  <2>2. st[d].pc \in Owning
    BY <1>7, PlacesAre DEF At, Dial, RecheckSocket, RemoveSocket, Listen, Shutdown,
                           removeOwnedSocket
  <2> QED
    BY <1>2, <2>1, <2>2, PlacesAre
<1>8. CASE Exit(d)
  BY <1>1, <1>8 DEF Exit
<1> QED
  BY <1>3, <1>4, <1>5, <1>6, <1>7, <1>8, LockTaken, LockReleased DEF DaemonStep

-----------------------------------------------------------------------------
(* The transaction root *)

LEMMA RootStep ==
  ASSUME DaemonInv, NEW d \in Daemons, DaemonStep(d)
  PROVE  RootInv'
<1>0. StateInv /\ RootInv /\ FilesInv /\ Stepped(d)
  BY Transition DEF DaemonInv, InitializersInv
<1>1. ASSUME UNCHANGED <<base, root>>,
             st'[d].pc \in Rooted \cup {"root recheck"} => st[d].pc \in Rooted \cup {"root recheck"}
      PROVE  RootInv'
  <2>1. \A e \in Daemons : st'[e].pc \in Rooted \cup {"root recheck"} =>
                             st[e].pc \in Rooted \cup {"root recheck"}
    BY <1>0, <1>1 DEF Stepped
  <2> QED
    BY <1>0, <1>1, <2>1 DEF RootInv
<1>2. CASE inspectTransactionDirectoryPath(d)
  <2>1. CASE ~SafeParent(base)
    <3>1. Leave(d, FALSE) /\ UNCHANGED <<base, root>>
      BY <1>2, <2>1 DEF inspectTransactionDirectoryPath
    <3> QED
      BY <1>0, <1>1, <3>1, LeaveIs, PlacesAre
  <2>2. CASE SafeParent(base)
    <3>1. /\ root' = (IF root = NoFile THEN "private" ELSE root) /\ UNCHANGED base
          /\ root' # "private" => Leave(d, FALSE)
          /\ base = "sticky"
      BY <1>2, <2>2 DEF inspectTransactionDirectoryPath, SafeParent
    <3>2. root' # "private" => st'[d].pc = "stopped"
      BY <1>0, <3>1, LeaveIs
    <3>3. root' \in {NoFile, "private", "foreign"} /\ (root = "private" => root' = "private")
      BY <1>0, <3>1 DEF RootInv
    <3>4. ASSUME NEW e \in Daemons, st'[e].pc \in Rooted \cup {"root recheck"}
          PROVE  base' = "sticky" /\ root' = "private"
      <4>1. CASE e = d
        BY <3>1, <3>2, <3>4, <4>1, PlacesAre
      <4>2. CASE e # d
        BY <1>0, <3>1, <3>3, <3>4, <4>2 DEF Stepped, RootInv
      <4> QED
        BY <4>1, <4>2
    <3> QED
      BY <3>3, <3>4 DEF RootInv
  <2> QED
    BY <2>1, <2>2
<1>3. CASE revalidateTransactionDirectorySnapshots(d)
  BY <1>0, <1>1, <1>3 DEF revalidateTransactionDirectorySnapshots, At
<1>4. CASE RefuseConfiguration(d) \/ \E profile \in EnforcementProfiles : Start(d, profile)
  <2>1. st'[d].pc \in {"stopped", "lock runtime"} /\ UNCHANGED <<base, root>>
    BY <1>0, <1>4, StartStepped DEF RefuseConfiguration, Start
  <2> QED
    BY <1>1, <2>1, PlacesAre
<1>5. CASE acquireRuntimeLock(d)
  <2>1. UNCHANGED <<base, root>> /\ (Leave(d, FALSE) \/ Move(d, "root"))
    BY <1>5 DEF acquireRuntimeLock
  <2>2. st'[d].pc \in {"stopped", "root"}
    BY <1>0, <2>1, LeaveIs, MoveIs, PlacesAre
  <2> QED
    BY <1>1, <2>1, <2>2, PlacesAre
<1>6. CASE BeginRequest(d) \/ CommitRequest(d)
  <2>1. st'[d].pc = st[d].pc /\ UNCHANGED <<base, root>>
    BY <1>0, <1>6, BusyStepped DEF BeginRequest, CommitRequest, WentOn
  <2> QED
    BY <1>1, <2>1
<1>7. CASE Exit(d)
  BY <1>0, <1>1, <1>7, LeaveIs, PlacesAre DEF Exit
<1>8. CASE \/ acquireProcessLock(d) \/ InspectLedger(d) \/ initialize(d)
           \/ BindRuntimeMetadata(d) \/ Recover(d) \/ FindSocket(d)
           \/ Dial(d) \/ RecheckSocket(d) \/ RemoveSocket(d) \/ Listen(d)
           \/ Shutdown(d) \/ removeOwnedSocket(d) \/ ReleaseLocks(d)
  <2>1. UNCHANGED <<base, root>> /\ st[d].pc \in Rooted
    BY <1>8, PlacesAre
       DEF At, acquireProcessLock, InspectLedger, initialize, BindRuntimeMetadata, Recover,
           FindSocket, Dial, RecheckSocket, RemoveSocket, Listen, Shutdown, removeOwnedSocket,
           ReleaseLocks
  <2> QED
    BY <1>1, <2>1
<1> QED
  BY <1>2, <1>3, <1>4, <1>5, <1>6, <1>7, <1>8 DEF DaemonStep

-----------------------------------------------------------------------------
(* The ledger *)

\* What LedgerInv says of one ledger.
LedgerOK(l) ==
  /\ l \in LedgerRecord /\ (l.runtime = NoFile <=> l.profile = "none")
  /\ l.history \subseteq {<<l.runtime, l.profile>>, <<NoFile, "none">>}
  /\ <<NoFile, "none">> \in l.history => l.profile # "production"

LEMMA LedgersOK ==
  ASSUME ledger \in [Databases -> LedgerRecord]
  PROVE  (\A db \in Databases : LedgerOK(ledger[db])) <=>
           /\ \A db \in Databases : ledger[db].runtime = NoFile <=> ledger[db].profile = "none"
           /\ HistoryOfOneRuntime
  BY DEF LedgerOK, HistoryOfOneRuntime

\* What the steps that change a ledger leave of it.
LEMMA SchemaOK ==
  ASSUME NEW l, LedgerOK(l)
  PROVE  /\ LedgerOK([l EXCEPT !.schema = "current"])
         /\ [l EXCEPT !.schema = "current"].runtime = l.runtime
<1> DEFINE n == [l EXCEPT !.schema = "current"]
<1>1. n \in LedgerRecord
  BY DEF LedgerOK, LedgerRecord
<1>2. n.runtime = l.runtime /\ n.profile = l.profile /\ n.history = l.history
  BY DEF LedgerOK, LedgerRecord
<1> HIDE DEF n
<1>3. LedgerOK(n)
  BY <1>1, <1>2 DEF LedgerOK
<1> QED
  BY <1>2, <1>3 DEF n

LEMMA BoundOK ==
  ASSUME NEW l, LedgerOK(l), NEW id \in Identities \ {NoFile}, NEW profile \in EnforcementProfiles,
         MayBind(l, id, profile)
  PROVE  LedgerOK([l EXCEPT !.runtime = id, !.profile = profile])
<1> DEFINE n == [l EXCEPT !.runtime = id, !.profile = profile]
<1>0. profile \in LedgerProfiles /\ profile # "none"
  BY DEF EnforcementProfiles, LedgerProfiles
<1>1. n \in LedgerRecord
  BY <1>0 DEF LedgerOK, LedgerRecord
<1>2. n.runtime = id /\ n.profile = profile /\ n.history = l.history
  BY DEF LedgerOK, LedgerRecord
<1> HIDE DEF n
<1>3. l.history \subseteq {<<id, profile>>, <<NoFile, "none">>}
  <2> SUFFICES ASSUME NEW h \in l.history, h # <<NoFile, "none">> PROVE h = <<id, profile>>
    OBVIOUS
  <2>1. h = <<l.runtime, l.profile>>
    BY DEF LedgerOK
  <2>2. l.runtime # NoFile /\ l.profile # "none"
    BY <2>1 DEF LedgerOK
  <2>3. l.runtime = id /\ l.profile = profile
    BY <2>2 DEF MayBind
  <2> QED
    BY <2>1, <2>3
<1>4. <<NoFile, "none">> \in l.history => profile # "production"
  <2> SUFFICES ASSUME <<NoFile, "none">> \in l.history, profile = "production" PROVE FALSE
    OBVIOUS
  <2>1. l.history # {}
    OBVIOUS
  <2>2. l.profile = "production"
    BY <2>1 DEF MayBind
  <2> QED
    BY <2>2 DEF LedgerOK
<1>5. LedgerOK(n)
  BY <1>0, <1>1, <1>2, <1>3, <1>4 DEF LedgerOK
<1> QED
  BY <1>5 DEF n

LEMMA RecordedOK ==
  ASSUME NEW l, LedgerOK(l), NEW h, h = <<l.runtime, l.profile>>
  PROVE  /\ LedgerOK([l EXCEPT !.history = @ \cup {h}])
         /\ [l EXCEPT !.history = @ \cup {h}].runtime = l.runtime
<1> DEFINE n == [l EXCEPT !.history = @ \cup {h}]
<1>0. l \in LedgerRecord /\ l.runtime \in Identities /\ l.profile \in LedgerProfiles
      /\ l.history \in SUBSET (Identities \X LedgerProfiles)
  BY DEF LedgerOK, LedgerRecord
<1>1. l.history \cup {h} \in SUBSET (Identities \X LedgerProfiles)
  BY <1>0
<1>2. n \in LedgerRecord
  BY <1>0, <1>1 DEF LedgerRecord
<1>3. n.runtime = l.runtime /\ n.profile = l.profile /\ n.history = l.history \cup {h}
  BY <1>0 DEF LedgerRecord
<1> HIDE DEF n
<1>4. n.history \subseteq {<<l.runtime, l.profile>>, <<NoFile, "none">>}
  BY <1>3 DEF LedgerOK
<1>5. <<NoFile, "none">> \in n.history => l.profile # "production"
  <2> SUFFICES ASSUME <<NoFile, "none">> \in n.history, l.profile = "production" PROVE FALSE
    OBVIOUS
  <2>1. <<NoFile, "none">> = h \/ <<NoFile, "none">> \in l.history
    BY <1>3
  <2>2. CASE <<NoFile, "none">> = h
    <3>1. "none" = l.profile
      BY <2>2
    <3> QED
      BY <3>1
  <2>3. CASE <<NoFile, "none">> \in l.history
    BY <2>3 DEF LedgerOK
  <2> QED
    BY <2>1, <2>2, <2>3
<1>6. LedgerOK(n)
  BY <1>2, <1>3, <1>4, <1>5 DEF LedgerOK
<1> QED
  BY <1>3, <1>6 DEF n

LEMMA LedgerStep ==
  ASSUME DaemonInv, NEW d \in Daemons, DaemonStep(d)
  PROVE  LedgerInv'
<1> DEFINE mine == placed[d].database
           l == ledger[mine]
<1>0. /\ StateInv /\ LockInv /\ LedgerInv /\ FilesInv /\ Stepped(d) /\ UNCHANGED placed
      /\ mine \in Databases /\ ledger \in [Databases -> LedgerRecord]
  BY Transition, Placed DEF DaemonInv, InitializersInv, LedgerInv
<1>1. (\A db \in Databases : LedgerOK(ledger[db])) /\ LedgerOK(l)
  BY <1>0, LedgersOK DEF LedgerInv
<1>2. ASSUME NEW n, ledger' = [ledger EXCEPT ![mine] = n], LedgerOK(n),
             n.runtime = l.runtime \/ At(d, "bind"), ~At(d, "initialize")',
             \A e \in Daemons \ {d} : At(e, "initialize") /\ placed[e].database = mine =>
               n.runtime = l.runtime
      PROVE  LedgerInv'
  <2>1. ledger' \in [Databases -> LedgerRecord] /\ \A db \in Databases : LedgerOK(ledger'[db])
    BY <1>0, <1>1, <1>2 DEF LedgerOK
  <2>2. /\ \A db \in Databases : (ledger[db].runtime = NoFile <=> ledger[db].profile = "none")'
        /\ HistoryOfOneRuntime'
    BY <2>1 DEF LedgerOK, HistoryOfOneRuntime
  <2>3. ASSUME NEW e \in Daemons, At(e, "initialize")'
        PROVE  ledger'[placed[e].database].runtime \in {NoFile, st'[e].id}
    <3>1. e # d /\ st'[e] = st[e] /\ At(e, "initialize") /\ placed[e].database \in Databases
      BY <1>0, <1>2, <2>3, Placed DEF Stepped, At
    <3>2. ledger[placed[e].database].runtime \in {NoFile, st[e].id}
      BY <1>0, <3>1 DEF LedgerInv
    <3>3. ledger'[placed[e].database].runtime = ledger[placed[e].database].runtime
      BY <1>0, <1>2, <3>1
    <3> QED
      BY <3>1, <3>2, <3>3
  <2> QED
    BY <1>0, <2>1, <2>2, <2>3 DEF LedgerInv
<1>3. ASSUME UNCHANGED ledger, ~At(d, "initialize")' PROVE LedgerInv'
  <2>1. ledger' = [ledger EXCEPT ![mine] = l]
    BY <1>0, <1>3
  <2> HIDE DEF l
  <2> QED
    BY <1>1, <1>2, <1>3, <2>1 DEF l
<1>4. CASE initialize(d)
  <2> DEFINE n == [l EXCEPT !.schema = "current"]
  <2>1. ledger' = [ledger EXCEPT ![mine] = n] /\ Move(d, "bind")
    BY <1>4 DEF initialize
  <2>2. LedgerOK(n) /\ n.runtime = l.runtime
    BY <1>1, SchemaOK
  <2>3. ~At(d, "initialize")'
    BY <1>0, <2>1, MoveIs, PlacesAre DEF At
  <2> HIDE DEF n
  <2> QED
    BY <1>2, <2>1, <2>2, <2>3
<1>5. CASE BindRuntimeMetadata(d)
  <2>1. CASE Leave(d, FALSE) /\ UNCHANGED ledger
    BY <1>0, <1>3, <2>1, LeaveIs DEF At
  <2>2. CASE MayBind(l, st[d].id, st[d].profile)
    <3> DEFINE n == [l EXCEPT !.runtime = st[d].id, !.profile = st[d].profile]
    <3>1. ledger' = [ledger EXCEPT ![mine] = n] /\ Move(d, "recover") /\ At(d, "bind")
      BY <1>0, <1>5, <2>2 DEF BindRuntimeMetadata
    <3>2. /\ st[d].id \in Identities \ {NoFile} /\ st[d].profile \in EnforcementProfiles
      BY <1>0, <3>1 DEF StateInv, DaemonRecord, At
    <3>3. LedgerOK(n)
      BY <1>1, <2>2, <3>2, BoundOK
    <3>4. ~At(d, "initialize")'
      BY <1>0, <3>1, MoveIs, PlacesAre DEF At
    <3>5. \A e \in Daemons \ {d} : At(e, "initialize") => placed[e].database # mine
      BY <1>0, <3>1, Exclusive, PlacesAre DEF At
    <3> HIDE DEF n
    <3> QED
      BY <1>2, <3>1, <3>3, <3>4, <3>5
  <2> QED
    BY <1>5, <2>1, <2>2 DEF BindRuntimeMetadata
<1>6. CASE CommitRequest(d)
  <2>1. st'[d].pc = st[d].pc /\ st'[d].id = st[d].id
    BY <1>0, <1>6, BusyStepped DEF CommitRequest, WentOn
  <2>2. ASSUME NEW n, ledger' = [ledger EXCEPT ![mine] = n], LedgerOK(n), n.runtime = l.runtime
        PROVE  LedgerInv'
    <3>1. ledger' \in [Databases -> LedgerRecord] /\ \A db \in Databases : LedgerOK(ledger'[db])
      BY <1>0, <1>1, <2>2 DEF LedgerOK
    <3>2. /\ \A db \in Databases : (ledger[db].runtime = NoFile <=> ledger[db].profile = "none")'
          /\ HistoryOfOneRuntime'
      BY <3>1 DEF LedgerOK, HistoryOfOneRuntime
    <3>3. \A db \in Databases : ledger'[db].runtime = ledger[db].runtime
      BY <1>0, <2>2
    <3>4. ASSUME NEW e \in Daemons, At(e, "initialize")'
          PROVE  ledger'[placed[e].database].runtime \in {NoFile, st'[e].id}
      <4>1. st'[e].id = st[e].id /\ At(e, "initialize") /\ placed[e].database \in Databases
        BY <1>0, <2>1, <3>4, Placed DEF Stepped, At
      <4> QED
        BY <1>0, <3>3, <4>1 DEF LedgerInv
    <3> QED
      BY <1>0, <3>1, <3>2, <3>4 DEF LedgerInv
  <2>3. CASE ~requireStoredRuntimeBinding(l, st[d].id, st[d].profile)
    <3>1. ledger' = [ledger EXCEPT ![mine] = l]
      BY <1>0, <1>6, <2>3 DEF CommitRequest
    <3> HIDE DEF l
    <3> QED
      BY <1>1, <2>2, <3>1
  <2>4. CASE requireStoredRuntimeBinding(l, st[d].id, st[d].profile)
    <3> DEFINE h == <<st[d].id, st[d].profile>>
               n == [l EXCEPT !.history = @ \cup {h}]
    <3>1. ledger' = [ledger EXCEPT ![mine] = n]
      BY <1>0, <1>6, <2>4 DEF CommitRequest
    <3>2. h = <<l.runtime, l.profile>>
      BY <2>4 DEF requireStoredRuntimeBinding
    <3> HIDE DEF h
    <3>3. LedgerOK(n) /\ n.runtime = l.runtime
      BY <1>1, <3>2, RecordedOK
    <3> HIDE DEF n
    <3> QED
      BY <2>2, <3>1, <3>3
  <2> QED
    BY <2>3, <2>4
<1>7. CASE InspectLedger(d)
  <2>1. CASE Leave(d, FALSE)
    BY <1>0, <1>3, <1>7, <2>1, LeaveIs DEF At, InspectLedger
  <2>2. CASE checkExistingRuntimeMetadata(d)
    <3>1. /\ UNCHANGED ledger /\ st'[d].id = st[d].id /\ st'[d].pc = "initialize"
          /\ \A e \in Daemons \ {d} : st'[e] = st[e]
      BY <1>0, <1>7, <2>2, MoveIs, PlacesAre DEF InspectLedger
    <3>2. l.runtime \in {NoFile, st[d].id}
      BY <2>2 DEF checkExistingRuntimeMetadata, MayBind
    <3>3. \A e \in Daemons : At(e, "initialize")' =>
             ledger'[placed[e].database].runtime \in {NoFile, st'[e].id}
      BY <1>0, <3>1, <3>2 DEF LedgerInv, At
    <3>4. HistoryOfOneRuntime'
      BY <1>0, <3>1 DEF LedgerInv, HistoryOfOneRuntime
    <3> QED
      BY <1>0, <3>1, <3>3, <3>4 DEF LedgerInv
  <2> QED
    BY <1>7, <2>1, <2>2 DEF InspectLedger
<1>8. CASE \/ acquireRuntimeLock(d) \/ inspectTransactionDirectoryPath(d)
           \/ revalidateTransactionDirectorySnapshots(d) \/ acquireProcessLock(d)
           \/ Recover(d) \/ Dial(d) \/ RecheckSocket(d) \/ RemoveSocket(d) \/ Listen(d)
           \/ Shutdown(d) \/ removeOwnedSocket(d) \/ ReleaseLocks(d) \/ Exit(d)
  <2>1. /\ UNCHANGED ledger
        /\ \/ Leave(d, FALSE)
           \/ \E where \in DaemonPlaces \ {"initialize"} : Move(d, where)
    BY <1>8, SocketFree, PlacesAre
       DEF acquireRuntimeLock, inspectTransactionDirectoryPath,
           revalidateTransactionDirectorySnapshots, acquireProcessLock, Recover, Dial,
           RecheckSocket, RemoveSocket, Listen, Shutdown, removeOwnedSocket, ReleaseLocks, Exit
  <2> QED
    BY <1>0, <1>3, <2>1, LeaveIs, MoveIs DEF At
<1>9. CASE RefuseConfiguration(d) \/ \E profile \in EnforcementProfiles : Start(d, profile)
  BY <1>0, <1>3, <1>9, StartStepped DEF RefuseConfiguration, Start, At
<1>10. CASE FindSocket(d)
  <2>1. UNCHANGED ledger /\ st'[d].pc \in {"listen", "dial"}
    BY <1>0, <1>10 DEF FindSocket, StateInv, DaemonRecord
  <2> QED
    BY <1>3, <2>1 DEF At
<1>11. CASE BeginRequest(d)
  BY <1>0, <1>3, <1>11, BusyStepped DEF BeginRequest, WentOn, At
<1> QED
  BY <1>4, <1>5, <1>6, <1>7, <1>8, <1>9, <1>10, <1>11 DEF DaemonStep

-----------------------------------------------------------------------------
(* The socket *)

\* A daemon that owns its socket path changes only that.
LEMMA SocketMine ==
  ASSUME DaemonInv, NEW d \in Daemons, Stepped(d), st[d].pc \in Owning,
         socket' \in [Sockets -> {NoFile} \cup SocketFiles],
         \A s \in Sockets \ {SocketOf[d]} : socket'[s] = socket[s],
         SocketOK(d)',
         socket'[SocketOf[d]] # NoFile /\ socket'[SocketOf[d]].live => At(d, "serving")'
  PROVE  SocketInv'
<1>0. StateInv /\ LockInv /\ SocketInv
  BY DEF DaemonInv
<1>1. ASSUME NEW e \in Daemons PROVE SocketOK(e)'
  <2>1. CASE e = d
    BY <2>1
  <2>2. CASE e # d /\ st[e].pc \in {"dial", "recheck", "listen", "serving"}
    <3>0. st[e].pc \in Owning
      BY <2>2, PlacesAre
    <3>1. SocketOf[e] # SocketOf[d] /\ SocketOf[e] \in Sockets /\ SocketOK(e) /\ st'[e] = st[e]
      BY <1>0, <2>2, <3>0, Exclusive, Placed DEF SocketInv, Stepped
    <3>2. socket'[SocketOf[e]] = socket[SocketOf[e]]
      BY <3>1
    <3> QED
      BY <3>1, <3>2 DEF SocketOK, At, Inode
  <2>3. CASE e # d /\ st[e].pc \notin {"dial", "recheck", "listen", "serving"}
    BY <2>3 DEF SocketOK, At, Stepped
  <2> QED
    BY <2>1, <2>2, <2>3
<1>2. ASSUME NEW s \in Sockets, socket'[s] # NoFile, socket'[s].live
      PROVE  \E e \in Daemons : At(e, "serving")' /\ SocketOf[e] = s
  <2>1. CASE s = SocketOf[d]
    BY <1>2, <2>1
  <2>2. CASE s # SocketOf[d]
    <3>1. PICK e \in Daemons : At(e, "serving") /\ SocketOf[e] = s
      BY <1>0, <1>2, <2>2 DEF SocketInv
    <3>2. e # d /\ st'[e] = st[e]
      BY <2>2, <3>1 DEF Stepped
    <3> QED
      BY <3>1, <3>2 DEF At
  <2> QED
    BY <2>1, <2>2
<1> QED
  BY <1>1, <1>2 DEF SocketInv

\* Nothing happens to a socket, and d neither stops serving nor looks at one.
LEMMA SocketSame ==
  ASSUME DaemonInv, NEW d \in Daemons, Stepped(d), UNCHANGED socket, SocketOK(d)',
         At(d, "serving") => At(d, "serving")'
  PROVE  SocketInv'
<1>0. StateInv /\ LockInv /\ SocketInv
  BY DEF DaemonInv
<1>1. ASSUME NEW e \in Daemons PROVE SocketOK(e)'
  <2>1. CASE e # d
    <3>1. SocketOK(e) /\ st'[e] = st[e]
      BY <1>0, <2>1 DEF SocketInv, Stepped
    <3> QED
      BY <3>1 DEF SocketOK, At, Inode
  <2> QED
    BY <2>1
<1>2. \A e \in Daemons : At(e, "serving") => At(e, "serving")'
  BY DEF At, Stepped
<1> QED
  BY <1>0, <1>1, <1>2 DEF SocketInv

\* The process of d is gone, or has closed its listener.
LEMMA SocketDead ==
  ASSUME DaemonInv, NEW d \in Daemons, Stepped(d), MarkDead(d),
         st'[d].pc \notin {"dial", "recheck", "listen", "serving"}
  PROVE  SocketInv'
<1>0. StateInv /\ SocketInv /\ socket \in [Sockets -> {NoFile} \cup SocketFiles]
  BY DEF DaemonInv, SocketInv
<1>1. ASSUME NEW s \in Sockets
      PROVE  \/ socket'[s] = socket[s] /\ ~(s = SocketOf[d] /\ socket[s] # NoFile
                                            /\ socket[s].inode = Inode(d))
             \/ /\ socket[s] \in SocketFiles /\ socket'[s] \in SocketFiles
                /\ socket[s].inode = Inode(d) /\ socket'[s].inode = Inode(d)
                /\ ~socket'[s].live
  <2>1. CASE s = SocketOf[d] /\ socket[s] # NoFile /\ socket[s].inode = Inode(d)
    <3>1. socket[s] \in SocketFiles
      BY <1>0, <2>1
    <3> DEFINE x == [socket[s] EXCEPT !.live = FALSE]
    <3>2. x \in SocketFiles /\ x.inode = socket[s].inode /\ ~x.live
      BY <3>1 DEF SocketFiles
    <3>3. socket'[s] = x
      BY <2>1 DEF MarkDead
    <3> HIDE DEF x
    <3> QED
      BY <2>1, <3>1, <3>2, <3>3
  <2>2. CASE ~(s = SocketOf[d] /\ socket[s] # NoFile /\ socket[s].inode = Inode(d))
    BY <2>2 DEF MarkDead
  <2> QED
    BY <2>1, <2>2
<1>2. socket' \in [Sockets -> {NoFile} \cup SocketFiles]
  <2>1. \A s \in Sockets : socket'[s] \in {NoFile} \cup SocketFiles
    BY <1>0, <1>1
  <2> QED
    BY <2>1 DEF MarkDead
<1>3. ASSUME NEW e \in Daemons PROVE SocketOK(e)'
  <2>1. CASE e = d
    BY <2>1 DEF SocketOK, At
  <2>2. CASE e # d
    <3>1. SocketOK(e) /\ st'[e] = st[e] /\ SocketOf[e] \in Sockets
      BY <1>0, <2>2, Placed DEF SocketInv, Stepped
    <3>2. Inode(e) # Inode(d)
      BY <2>2 DEF Inode
    <3>3. CASE socket'[SocketOf[e]] = socket[SocketOf[e]]
      BY <3>1, <3>3 DEF SocketOK, At, Inode
    <3>4. CASE /\ socket[SocketOf[e]] \in SocketFiles /\ socket'[SocketOf[e]] \in SocketFiles
               /\ socket[SocketOf[e]].inode = Inode(d) /\ socket'[SocketOf[e]].inode = Inode(d)
      <4>1. socket[SocketOf[e]] # NoFile /\ socket'[SocketOf[e]] # NoFile
        BY <3>4, DaemonsAssumption
      <4>2. ~At(e, "serving") /\ ~At(e, "listen")
        BY <3>1, <3>2, <3>4, <4>1 DEF SocketOK
      <4> QED
        BY <3>1, <3>4, <4>1, <4>2 DEF SocketOK, At
    <3> QED
      BY <1>1, <3>1, <3>3, <3>4
  <2> QED
    BY <2>1, <2>2
<1>4. ASSUME NEW s \in Sockets, socket'[s] # NoFile, socket'[s].live
      PROVE  \E e \in Daemons : At(e, "serving")' /\ SocketOf[e] = s
  <2>1. /\ socket'[s] = socket[s]
        /\ ~(s = SocketOf[d] /\ socket[s] # NoFile /\ socket[s].inode = Inode(d))
    BY <1>1, <1>4
  <2>2. PICK e \in Daemons : At(e, "serving") /\ SocketOf[e] = s
    BY <1>0, <1>4, <2>1 DEF SocketInv
  <2>3. socket[s].inode = Inode(e)
    <3>1. SocketOK(e)
      BY <1>0 DEF SocketInv
    <3>2. socket[s] = [inode |-> Inode(e), live |-> TRUE]
      BY <2>2, <3>1 DEF SocketOK
    <3> QED
      BY <3>2
  <2>4. e # d
    BY <1>4, <2>1, <2>2, <2>3
  <2> QED
    BY <2>2, <2>4 DEF At, Stepped
<1> QED
  BY <1>2, <1>3, <1>4 DEF SocketInv

LEMMA SocketStep ==
  ASSUME DaemonInv, NEW d \in Daemons, DaemonStep(d)
  PROVE  SocketInv'
<1> DEFINE s == SocketOf[d]
<1>0. /\ StateInv /\ LockInv /\ SocketInv /\ FilesInv /\ Stepped(d) /\ s \in Sockets
      /\ socket \in [Sockets -> {NoFile} \cup SocketFiles] /\ SocketOK(d)
  BY Transition, Placed DEF DaemonInv, InitializersInv, SocketInv
<1>1. ASSUME UNCHANGED socket, st'[d].pc \notin {"dial", "recheck", "listen", "serving"},
             ~At(d, "serving")
      PROVE  SocketInv'
  BY <1>0, <1>1, SocketSame DEF SocketOK, At
<1>2. CASE RefuseConfiguration(d) \/ \E profile \in EnforcementProfiles : Start(d, profile)
  BY <1>0, <1>1, <1>2, StartStepped DEF RefuseConfiguration, Start, At
<1>3. CASE \/ acquireRuntimeLock(d) \/ inspectTransactionDirectoryPath(d)
           \/ revalidateTransactionDirectorySnapshots(d) \/ acquireProcessLock(d)
           \/ InspectLedger(d) \/ initialize(d) \/ BindRuntimeMetadata(d) \/ Recover(d)
           \/ ReleaseLocks(d)
  <2>1. /\ UNCHANGED socket /\ ~At(d, "serving")
        /\ \/ Leave(d, FALSE)
           \/ \E where \in {"root", "root recheck", "lock database", "inspect", "initialize",
                            "bind", "recover", "find socket", "released"} : Move(d, where)
    BY <1>3 DEF At, acquireRuntimeLock, inspectTransactionDirectoryPath,
                revalidateTransactionDirectorySnapshots, acquireProcessLock, InspectLedger,
                initialize, BindRuntimeMetadata, Recover, ReleaseLocks
  <2>2. st'[d].pc \in {"stopped", "root", "root recheck", "lock database", "inspect",
                       "initialize", "bind", "recover", "find socket", "released"}
    <3>1. CASE Leave(d, FALSE)
      BY <1>0, <3>1, LeaveIs
    <3>2. ASSUME NEW where \in {"root", "root recheck", "lock database", "inspect", "initialize",
                                "bind", "recover", "find socket", "released"}, Move(d, where)
          PROVE  st'[d].pc = where
      <4>1. where \in DaemonPlaces
        BY PlacesAre
      <4> QED
        BY <1>0, <3>2, <4>1, MoveIs
    <3> QED
      BY <2>1, <3>1, <3>2
  <2> QED
    BY <1>1, <2>1, <2>2
<1>4. CASE FindSocket(d)
  <2>1. /\ st'[d].pc = (IF socket[s] = NoFile THEN "listen" ELSE "dial")
        /\ st'[d].seen = socket[s] /\ UNCHANGED socket /\ ~At(d, "serving")
    BY <1>0, <1>4 DEF FindSocket, StateInv, DaemonRecord, At
  <2>2. SocketOK(d)'
    BY <2>1 DEF SocketOK, At
  <2> QED
    BY <1>0, <2>1, <2>2, SocketSame
<1>5. CASE Dial(d)
  <2>1. /\ st'[d].pc = "recheck" /\ st'[d].seen = st[d].seen /\ UNCHANGED socket
        /\ At(d, "dial")
    BY <1>0, <1>5, SocketFree, MoveIs, PlacesAre DEF Dial
  <2>2. SocketOK(d)'
    BY <1>0, <2>1 DEF SocketOK, At
  <2> QED
    BY <1>0, <2>1, <2>2, SocketSame DEF At
<1>6. CASE RecheckSocket(d)
  <2>1. st'[d].pc = "remove" /\ UNCHANGED socket /\ At(d, "recheck")
    BY <1>0, <1>6, SocketFree, MoveIs, PlacesAre DEF RecheckSocket
  <2> QED
    BY <1>1, <2>1 DEF At
<1>7. CASE RemoveSocket(d)
  <2>1. /\ st'[d].pc = "listen" /\ socket' = [socket EXCEPT ![s] = NoFile]
        /\ st[d].pc \in Owning
    BY <1>0, <1>7, MoveIs, PlacesAre DEF RemoveSocket, At
  <2>2. socket'[s] = NoFile /\ socket' \in [Sockets -> {NoFile} \cup SocketFiles]
    BY <1>0, <2>1
  <2>3. SocketOK(d)'
    BY <2>1, <2>2 DEF SocketOK, At
  <2> QED
    BY <1>0, <2>1, <2>2, <2>3, SocketMine
<1>8. CASE Listen(d)
  <2> DEFINE x == [inode |-> Inode(d), live |-> TRUE]
  <2>1. /\ st'[d].pc = "serving" /\ st'[d].starts = st[d].starts
        /\ socket' = [socket EXCEPT ![s] = x] /\ st[d].pc \in Owning
    BY <1>0, <1>8, SocketFree, MoveIs, PlacesAre DEF Listen, At
  <2>2. x \in SocketFiles
    BY <1>0, Placed DEF SocketFiles, Inode, DaemonRecord
  <2>3. Inode(d)' = Inode(d)
    BY <2>1 DEF Inode
  <2>4. socket'[s] = x /\ socket' \in [Sockets -> {NoFile} \cup SocketFiles]
    BY <1>0, <2>1, <2>2
  <2>5. SocketOK(d)'
    BY <2>1, <2>3, <2>4 DEF SocketOK, At
  <2>6. At(d, "serving")' /\ \A z \in Sockets \ {s} : socket'[z] = socket[z]
    BY <1>0, <2>1 DEF At
  <2> QED
    BY <1>0, <2>1, <2>4, <2>5, <2>6, SocketMine
<1>9. CASE BeginRequest(d) \/ CommitRequest(d)
  <2>1. /\ st'[d].pc = st[d].pc /\ st'[d].seen = st[d].seen /\ st'[d].starts = st[d].starts
        /\ UNCHANGED socket
    BY <1>0, <1>9, BusyStepped DEF BeginRequest, CommitRequest, WentOn
  <2>2. SocketOK(d)'
    BY <1>0, <2>1 DEF SocketOK, At, Inode
  <2> QED
    BY <1>0, <2>1, <2>2, SocketSame DEF At
<1>10. CASE Shutdown(d)
  BY <1>0, <1>10, MoveIs, PlacesAre, SocketDead DEF Shutdown
<1>11. CASE Exit(d)
  BY <1>0, <1>11, LeaveIs, SocketDead DEF Exit
<1>12. CASE removeOwnedSocket(d)
  <2>1. /\ st'[d].pc = "closed" /\ st[d].pc = "closing"
        /\ socket' = socket \/ socket' = [socket EXCEPT ![s] = NoFile]
    BY <1>0, <1>12, MoveIs, PlacesAre DEF removeOwnedSocket, At
  <2>2. CASE socket' = socket
    BY <1>1, <2>1, <2>2 DEF At
  <2>3. CASE socket' = [socket EXCEPT ![s] = NoFile]
    <3>1. socket'[s] = NoFile /\ socket' \in [Sockets -> {NoFile} \cup SocketFiles]
      BY <1>0, <2>3
    <3>2. SocketOK(d)' /\ st[d].pc \in Owning
      BY <2>1, PlacesAre DEF SocketOK, At
    <3> QED
      BY <1>0, <2>3, <3>1, <3>2, SocketMine
  <2> QED
    BY <2>1, <2>2, <2>3
<1> QED
  BY <1>2, <1>3, <1>4, <1>5, <1>6, <1>7, <1>8, <1>9, <1>10, <1>11, <1>12 DEF DaemonStep

-----------------------------------------------------------------------------
(* Initializers: the files and what is known of them *)

LEMMA GotoIs ==
  ASSUME FilesInv, NEW p \in Initializers, NEW where \in InitPlaces, Goto(p, where)
  PROVE  /\ ipc' \in [Initializers -> InitPlaces] /\ ipc'[p] = where
         /\ \A q \in Initializers \ {p} : ipc'[q] = ipc[q]
  BY DEF Goto, FilesInv

\* Initializer p took a step that leaves the files and its own notes in order.
LEMMA FilesFrame ==
  ASSUME FilesInv, NEW p \in Initializers, NEW where \in InitPlaces, Goto(p, where),
         profiles' \in {NoFile} \cup Documents, ignore' \in {NoFile, "lacking", "complete"},
         identity' \in Initializers \cup {NoFile, Partial},
         seen' \in [Initializers -> {NoFile} \cup Documents],
         wrote' \in [Initializers -> WroteRecord],
         \A q \in Initializers \ {p} : seen'[q] = seen[q] /\ wrote'[q] = wrote[q],
         beside' \in [Initializers -> SUBSET Initializers], issued' \subseteq Initializers,
         ReadOK(p)'
  PROVE  FilesInv'
<1>1. \A q \in Initializers \ {p} : ipc'[q] = ipc[q]
  BY GotoIs
<1>2. \A q \in Initializers : ReadOK(q)'
  BY <1>1 DEF FilesInv, ReadOK
<1> QED
  BY <1>2, GotoIs DEF FilesInv

\* The notes of p do not change, and it does not go where they would not do.
LEMMA FilesMoved ==
  ASSUME FilesInv, NEW p \in Initializers, NEW where \in InitPlaces, Goto(p, where),
         profiles' \in {NoFile} \cup Documents, ignore' \in {NoFile, "lacking", "complete"},
         identity' \in Initializers \cup {NoFile, Partial}, UNCHANGED <<seen, wrote>>,
         beside' \in [Initializers -> SUBSET Initializers], issued' \subseteq Initializers,
         \/ where \notin Early
         \/ ipc[p] = "idle" /\ where = "profiles"
         \/ ipc[p] = "profiles" /\ where = "ignore"
         \/ ipc[p] = "create profiles" /\ where = "write profiles"
         \/ ipc[p] = "replace profiles" /\ where = "rename profiles"
  PROVE  FilesInv'
<1>1. ReadOK(p) /\ ipc'[p] = where
  BY GotoIs DEF FilesInv
<1>2. ReadOK(p)'
  BY <1>1 DEF ReadOK, Early
<1>3. /\ seen' \in [Initializers -> {NoFile} \cup Documents]
      /\ wrote' \in [Initializers -> WroteRecord]
  BY DEF FilesInv
<1> QED
  BY <1>2, <1>3, FilesFrame

LEMMA DocumentIs ==
  ASSUME NEW p \in Initializers, NEW v \in {"new", "restored"},
         NEW content \in {Partial} \cup SUBSET Profiles
  PROVE  /\ Document(p, v, content) \in Documents /\ Document(p, v, content) # NoFile
         /\ Document(p, v, content).inode = <<p, v>> /\ Document(p, v, content).content = content
<1>1. Document(p, v, content) \in Documents
  BY DEF Document, Documents, Inodes
<1> QED
  BY <1>1, InitializersAssumption DEF Document

LEMMA FilesProfiles ==
  ASSUME FilesInv, NEW p \in Initializers,
         ReadProfiles(p) \/ CreateProfiles(p) \/ WriteProfiles(p) \/ RenameProfiles(p)
  PROVE  FilesInv'
<1> USE DEF FilesInv
<1>0. ReadOK(p) /\ {"ignore", "failed", "create profiles", "write profiles", "replace profiles",
                    "rename profiles"} \subseteq InitPlaces
  BY DEF InitPlaces
<1>1. CASE ReadProfiles(p)
  <2>0. UNCHANGED <<profiles, ignore, identity, wrote, beside, issued>>
    BY <1>1 DEF ReadProfiles
  <2>1. CASE ProfileOf[p] = NoProfile
    BY <1>0, <1>1, <2>0, <2>1, FilesMoved DEF ReadProfiles, Early
  <2>2. CASE ProfileOf[p] # NoProfile /\ profiles = NoFile
    <3>1. Goto(p, "create profiles") /\ UNCHANGED seen
      BY <1>1, <2>2 DEF ReadProfiles
    <3>2. ipc'[p] = "create profiles"
      BY <1>0, <3>1, GotoIs
    <3>3. ReadOK(p)'
      BY <1>0, <1>1, <2>0, <2>2, <3>1, <3>2 DEF ReadOK, ReadProfiles, Early
    <3> QED
      BY <1>0, <2>0, <3>1, <3>3, FilesFrame
  <2>3. CASE ProfileOf[p] # NoProfile /\ profiles # NoFile
    <3>1. PICK where \in {"failed", "ignore", "replace profiles"} :
            /\ Goto(p, where)
            /\ where = "replace profiles" =>
                 mergeAgentProfileDocument(p, profiles.content) # "refused"
      BY <1>1, <2>3 DEF ReadProfiles
    <3>2. seen' = [seen EXCEPT ![p] = profiles] /\ profiles \in Documents
      BY <1>1, <2>3 DEF ReadProfiles
    <3>3. where = "replace profiles" => profiles \in FullDocuments
      BY <3>1, <3>2 DEF mergeAgentProfileDocument, Documents, FullDocuments
    <3>4. ipc'[p] = where
      BY <1>0, <3>1, GotoIs
    <3>5. wrote[p].profile = "no" /\ wrote[p].ignore = "no"
      BY <1>0, <1>1 DEF ReadOK, ReadProfiles, Early
    <3>6. seen'[p] = profiles /\ seen' \in [Initializers -> {NoFile} \cup Documents]
      BY <3>2
    <3>7. ReadOK(p)'
      BY <2>0, <2>3, <3>3, <3>4, <3>5, <3>6 DEF ReadOK
    <3> QED
      BY <1>0, <2>0, <3>1, <3>2, <3>6, <3>7, FilesFrame
  <2> QED
    BY <2>1, <2>2, <2>3
<1>2. CASE CreateProfiles(p)
  <2>0. UNCHANGED <<ignore, identity, seen, wrote, beside, issued>>
    BY <1>2 DEF CreateProfiles
  <2>1. \/ profiles' = Document(p, "new", Partial) /\ Goto(p, "write profiles")
        \/ UNCHANGED profiles /\ Goto(p, "failed")
    BY <1>2 DEF CreateProfiles
  <2>2. Document(p, "new", Partial) \in Documents
    BY DocumentIs
  <2>3. ipc[p] = "create profiles"
    BY <1>2 DEF CreateProfiles
  <2> QED
    BY <1>0, <2>0, <2>1, <2>2, <2>3, FilesMoved DEF Early
<1>3. CASE WriteProfiles(p)
  <2>0. UNCHANGED <<ignore, identity, seen, beside, issued>>
    BY <1>3 DEF WriteProfiles
  <2>1. CASE profiles' = NoFile /\ UNCHANGED wrote /\ Goto(p, "failed")
    BY <1>0, <2>0, <2>1, FilesMoved DEF Early
  <2>2. CASE /\ profiles # NoFile
             /\ profiles' = IF profiles.inode = <<p, "new">>
                            THEN Document(p, "new", {ProfileOf[p]}) ELSE profiles
             /\ wrote' = [wrote EXCEPT ![p].profile = "created", ![p].inode = profiles.inode]
             /\ Goto(p, "ignore")
    <3>1. ProfileOf[p] \in Profiles
      BY <1>0, <1>3, InitializersAssumption DEF ReadOK, WriteProfiles
    <3>2. Document(p, "new", {ProfileOf[p]}) \in Documents
      BY <3>1, DocumentIs
    <3>3. profiles' \in Documents /\ profiles.inode \in Inodes
      BY <2>2, <3>2 DEF Documents
    <3> DEFINE x == [wrote[p] EXCEPT !.profile = "created", !.inode = profiles.inode]
    <3>4. wrote' = [wrote EXCEPT ![p] = x] /\ wrote[p] \in WroteRecord
      BY <2>2
    <3>5. x \in WroteRecord /\ x.profile = "created" /\ x.ignore = wrote[p].ignore
      BY <3>3, <3>4 DEF WroteRecord
    <3> HIDE DEF x
    <3>6. ipc'[p] = "ignore"
      BY <1>0, <2>2, GotoIs
    <3>7. wrote'[p] = x /\ wrote' \in [Initializers -> WroteRecord]
      BY <3>4, <3>5
    <3>8. ReadOK(p)'
      BY <1>0, <1>3, <3>5, <3>6, <3>7 DEF ReadOK, Early, WriteProfiles
    <3> QED
      BY <1>0, <2>0, <2>2, <3>3, <3>4, <3>7, <3>8, FilesFrame
  <2> QED
    BY <1>3, <2>1, <2>2 DEF WriteProfiles
<1>4. CASE RenameProfiles(p)
  <2>0. /\ UNCHANGED <<ignore, identity, seen, beside, issued>>
        /\ Goto(p, "ignore")
    BY <1>4 DEF RenameProfiles
  <2>1. ProfileOf[p] \in Profiles /\ seen[p] \in FullDocuments
    BY <1>0, <1>4, InitializersAssumption DEF ReadOK, RenameProfiles
  <2>2. seen[p].content \cup {ProfileOf[p]} \in SUBSET Profiles
    BY <2>1 DEF FullDocuments
  <2>3. profiles' \in Documents
    BY <1>4, <2>2, DocumentIs DEF RenameProfiles
  <2> DEFINE x == [wrote[p] EXCEPT !.profile = "updated", !.inode = <<p, "new">>]
  <2>4. wrote' = [wrote EXCEPT ![p] = x] /\ wrote[p] \in WroteRecord /\ <<p, "new">> \in Inodes
    BY <1>4 DEF RenameProfiles, Inodes
  <2>5. x \in WroteRecord /\ x.ignore = wrote[p].ignore
    BY <2>4 DEF WroteRecord
  <2> HIDE DEF x
  <2>6. ipc'[p] = "ignore"
    BY <1>0, <2>0, GotoIs
  <2>7. wrote' \in [Initializers -> WroteRecord] /\ wrote'[p] = x
    BY <2>4, <2>5
  <2>8. ReadOK(p)'
    BY <1>0, <1>4, <2>0, <2>1, <2>5, <2>6, <2>7 DEF ReadOK, Early, RenameProfiles
  <2> QED
    BY <1>0, <2>0, <2>3, <2>4, <2>7, <2>8, FilesFrame
<1> QED
  BY <1>1, <1>2, <1>3, <1>4

LEMMA FilesIgnore ==
  ASSUME FilesInv, NEW p \in Initializers, WriteIgnore(p)
  PROVE  FilesInv'
<1> USE DEF FilesInv
<1>0. /\ ReadOK(p) /\ {"identity", "roll back"} \subseteq InitPlaces
      /\ UNCHANGED <<profiles, identity, seen, beside, issued>>
  BY DEF InitPlaces, WriteIgnore
<1>1. CASE Goto(p, "roll back") /\ ignore' \in {ignore, "complete"} /\ UNCHANGED wrote
  BY <1>0, <1>1, FilesMoved DEF Early
<1>2. ASSUME NEW i \in {"no", "created", "updated"}, wrote' = [wrote EXCEPT ![p].ignore = i],
             ignore' = "complete", Goto(p, "identity")
      PROVE  FilesInv'
  <2> DEFINE x == [wrote[p] EXCEPT !.ignore = i]
  <2>1. wrote' = [wrote EXCEPT ![p] = x] /\ wrote[p] \in WroteRecord
    BY <1>2
  <2>2. x \in WroteRecord /\ x.profile = wrote[p].profile
    BY <2>1 DEF WroteRecord
  <2> HIDE DEF x
  <2>3. ipc'[p] = "identity"
    BY <1>0, <1>2, GotoIs
  <2>4. wrote'[p] = x /\ wrote' \in [Initializers -> WroteRecord]
    BY <2>1, <2>2
  <2>5. ReadOK(p)'
    BY <1>0, <2>2, <2>3, <2>4 DEF ReadOK, Early
  <2> QED
    BY <1>0, <1>2, <2>1, <2>4, <2>5, FilesFrame
<1>3. \/ Goto(p, "roll back") /\ ignore' \in {ignore, "complete"} /\ UNCHANGED wrote
      \/ \E i \in {"no", "created", "updated"} :
           /\ wrote' = [wrote EXCEPT ![p].ignore = i] /\ ignore' = "complete"
           /\ Goto(p, "identity")
  <2>1. CASE ignore = NoFile
    BY <2>1, InitializersAssumption DEF WriteIgnore
  <2>2. CASE ignore # NoFile
    BY <2>2 DEF WriteIgnore
  <2> QED
    BY <2>1, <2>2
<1> QED
  BY <1>1, <1>2, <1>3

LEMMA FilesStep ==
  ASSUME FilesInv, NEW p \in Initializers, InitializerStep(p)
  PROVE  FilesInv'
<1> USE DEF FilesInv
<1>0. /\ ReadOK(p)
      /\ {"profiles", "failed", "rename profiles", "create identity", "write identity",
          "sync identity", "roll back", "roll back ignore", "done", "crashed"} \subseteq InitPlaces
  BY DEF InitPlaces
<1>1. CASE BeginInit(p)
  <2>1. \E where \in {"profiles", "failed"} : Goto(p, where)
    BY <1>1 DEF BeginInit
  <2>2. /\ UNCHANGED <<profiles, ignore, identity, seen, wrote, issued>>
        /\ ipc[p] = "idle" /\ beside' \in [Initializers -> SUBSET Initializers]
    BY <1>1 DEF BeginInit
  <2> QED
    BY <1>0, <2>1, <2>2, FilesMoved DEF Early
<1>2. CASE CheckProfiles(p)
  BY <1>0, <1>2, FilesMoved DEF CheckProfiles, Early
<1>3. CASE InspectIdentity(p)
  <2>1. /\ UNCHANGED <<profiles, ignore, identity, seen, wrote, beside>>
        /\ \E where \in {"roll back", "create identity", "done"} : Goto(p, where)
        /\ issued' \subseteq Initializers
    BY <1>3 DEF InspectIdentity, Return, Loadable
  <2> QED
    BY <1>0, <2>1, FilesMoved DEF Early
<1>4. CASE CreateIdentity(p)
  <2>1. /\ UNCHANGED <<profiles, ignore, seen, wrote, beside>>
        /\ \E where \in {"roll back", "write identity", "done"} : Goto(p, where)
        /\ issued' \subseteq Initializers /\ identity' \in {identity, Partial}
    BY <1>4, InitializersAssumption DEF CreateIdentity, Return
  <2> QED
    BY <1>0, <2>1, FilesMoved DEF Early
<1>5. CASE WriteIdentity(p)
  BY <1>0, <1>5, FilesMoved DEF WriteIdentity, Early
<1>6. CASE SyncIdentity(p)
  <2>1. /\ UNCHANGED <<profiles, ignore, seen, wrote, beside>>
        /\ \E where \in {"roll back", "done"} : Goto(p, where)
        /\ issued' \subseteq Initializers /\ identity' \in {identity, NoFile}
    BY <1>6 DEF SyncIdentity, Return
  <2> QED
    BY <1>0, <2>1, FilesMoved DEF Early
<1>7. CASE RollbackProfile(p)
  <2>1. rollbackProfile(p) \in {NoFile} \cup Documents
    <3>1. CASE wrote[p].profile = "updated"
      <4>1. seen[p].content \in SUBSET Profiles
        BY <1>0, <3>1 DEF ReadOK, FullDocuments
      <4>2. Document(p, "restored", seen[p].content) \in Documents
        BY <4>1, DocumentIs
      <4> QED
        BY <3>1, <4>2 DEF rollbackProfile
    <3>2. CASE wrote[p].profile # "updated"
      <4>1. wrote[p].profile \in {"no", "created"}
        BY <3>2 DEF WroteRecord
      <4> QED
        BY <4>1 DEF rollbackProfile
    <3> QED
      BY <3>1, <3>2
  <2> QED
    BY <1>0, <1>7, <2>1, FilesMoved DEF RollbackProfile, Early
<1>8. CASE RollbackIgnore(p)
  <2>1. /\ UNCHANGED <<profiles, identity, seen, wrote, beside, issued>>
        /\ Goto(p, "failed") /\ ignore' \in {NoFile, "lacking", "complete"}
    BY <1>8 DEF RollbackIgnore
  <2> QED
    BY <1>0, <2>1, FilesMoved DEF Early
<1>9. CASE CrashInit(p)
  BY <1>0, <1>9, FilesMoved DEF CrashInit, Early
<1> QED
  BY <1>1, <1>2, <1>3, <1>4, <1>5, <1>6, <1>7, <1>8, <1>9, FilesProfiles, FilesIgnore
     DEF InitializerStep

-----------------------------------------------------------------------------
(* Initializers: one identity *)

LEMMA IdentityStep ==
  ASSUME FilesInv, IdentityInv, NEW p \in Initializers, InitializerStep(p)
  PROVE  IdentityInv'
<1>0. /\ identity \in Initializers \cup {NoFile, Partial} /\ issued \subseteq Initializers
      /\ NoFile \notin Initializers /\ Partial \notin Initializers \cup {NoFile}
      /\ {"write identity", "sync identity", "done", "roll back"} \subseteq InitPlaces
  BY InitializersAssumption DEF FilesInv, InitPlaces
<1>1. ASSUME NEW where \in InitPlaces \ {"write identity", "sync identity"}, Goto(p, where),
             UNCHANGED identity, issued' \subseteq issued \cup {identity},
             ipc[p] \in Failing => where \in Failing
      PROVE  IdentityInv'
  <2>1. ipc'[p] = where /\ \A q \in Initializers \ {p} : ipc'[q] = ipc[q]
    BY <1>1, GotoIs
  <2>2. /\ \A q \in Initializers : ipc'[q] = "write identity" => ipc[q] = "write identity"
        /\ \A q \in Initializers : ipc'[q] = "sync identity" => ipc[q] = "sync identity"
    BY <1>1, <2>1
  <2>3. IdentityAgreement'
    BY <1>0, <1>1, <2>1 DEF IdentityInv, IdentityAgreement
  <2> QED
    BY <1>1, <2>2, <2>3 DEF IdentityInv
<1>2. CASE \/ BeginInit(p) \/ ReadProfiles(p) \/ CreateProfiles(p) \/ WriteProfiles(p)
           \/ CheckProfiles(p) \/ RenameProfiles(p) \/ WriteIgnore(p) \/ InspectIdentity(p)
           \/ RollbackProfile(p) \/ RollbackIgnore(p) \/ CrashInit(p)
  <2>1. UNCHANGED identity /\ issued' \subseteq issued \cup {identity}
    BY <1>2 DEF BeginInit, ReadProfiles, CreateProfiles, WriteProfiles, CheckProfiles,
                RenameProfiles, WriteIgnore, InspectIdentity, RollbackProfile, RollbackIgnore,
                CrashInit, Return
  <2>2. \E where \in {"profiles", "failed", "ignore", "create profiles", "write profiles",
                      "replace profiles", "rename profiles", "identity", "roll back",
                      "roll back ignore", "create identity", "done", "crashed"} :
          Goto(p, where) /\ (ipc[p] \in Failing => where \in Failing)
    BY <1>2 DEF BeginInit, ReadProfiles, CreateProfiles, WriteProfiles, CheckProfiles,
                RenameProfiles, WriteIgnore, InspectIdentity, RollbackProfile, RollbackIgnore,
                CrashInit, Return, Failing
  <2> QED
    BY <1>1, <2>1, <2>2 DEF InitPlaces
<1>3. CASE CreateIdentity(p)
  <2>0. ipc[p] \notin Failing
    BY <1>3 DEF CreateIdentity, Failing
  <2>1. CASE identity = NoFile /\ identity' = Partial /\ Goto(p, "write identity")
    <3>2. \A q \in Initializers : ipc[q] \notin {"write identity", "sync identity"}
      BY <1>0, <2>1 DEF IdentityInv
    <3>3. ipc'[p] = "write identity" /\ \A q \in Initializers \ {p} : ipc'[q] = ipc[q]
      BY <1>0, <2>1, GotoIs
    <3>4. UNCHANGED issued
      BY <1>0, <1>3, <2>1 DEF CreateIdentity
    <3>5. IdentityAgreement'
      BY <1>0, <2>0, <2>1, <3>3, <3>4 DEF IdentityInv, IdentityAgreement
    <3> QED
      BY <2>1, <3>2, <3>3, <3>5 DEF IdentityInv
  <2>2. CASE /\ UNCHANGED identity /\ issued' \subseteq issued \cup {identity}
             /\ \E where \in {"roll back", "done"} : Goto(p, where)
    BY <1>0, <1>1, <2>0, <2>2
  <2> QED
    BY <1>3, <2>1, <2>2 DEF CreateIdentity, Return
<1>4. CASE WriteIdentity(p)
  <2>1. /\ identity = Partial /\ ipc[p] = "write identity" /\ UNCHANGED issued
        /\ \A q \in Initializers \ {p} : ipc[q] \notin {"write identity", "sync identity"}
    BY <1>0, <1>4 DEF WriteIdentity, IdentityInv
  <2>2. \A id \in issued : ipc[id] \in Failing /\ id # p
    BY <1>0, <2>1 DEF IdentityInv, IdentityAgreement, Failing
  <2>3. PICK where \in {"sync identity", "roll back"} :
          Goto(p, where) /\ (where = "sync identity" => identity' = p)
    BY <1>4 DEF WriteIdentity
  <2>4. ipc'[p] = where /\ \A q \in Initializers \ {p} : ipc'[q] = ipc[q]
    BY <1>0, <2>3, GotoIs
  <2>5. IdentityAgreement'
    BY <1>0, <2>1, <2>2, <2>4 DEF IdentityAgreement
  <2> QED
    BY <2>1, <2>3, <2>4, <2>5 DEF IdentityInv
<1>5. CASE SyncIdentity(p)
  <2>1. identity = p /\ ipc[p] = "sync identity" /\ ipc[p] \notin Failing
    BY <1>5 DEF SyncIdentity, IdentityInv, Failing
  <2>2. CASE Return(p, p) /\ UNCHANGED identity
    BY <1>0, <1>1, <2>1, <2>2 DEF Return
  <2>3. CASE UNCHANGED issued /\ Goto(p, "roll back")
    <3>1. \A q \in Initializers \ {p} : ipc[q] \notin {"write identity", "sync identity"}
      BY <1>0, <2>1 DEF IdentityInv
    <3>2. ipc'[p] = "roll back" /\ \A q \in Initializers \ {p} : ipc'[q] = ipc[q]
      BY <1>0, <2>3, GotoIs
    <3>3. IdentityAgreement'
      BY <1>0, <2>1, <2>3, <3>2 DEF IdentityInv, IdentityAgreement, Failing
    <3> QED
      BY <3>1, <3>2, <3>3 DEF IdentityInv
  <2> QED
    BY <1>5, <2>2, <2>3 DEF SyncIdentity
<1> QED
  BY <1>2, <1>3, <1>4, <1>5 DEF InitializerStep

-----------------------------------------------------------------------------
(* Initializers: what one has done stays *)

\* Initializer p moves on from where it was, and nobody else moves; who fails
\* goes on failing.
LEMMA InitMoves ==
  ASSUME FilesInv, NEW p \in Initializers, InitializerStep(p)
  PROVE  /\ \A q \in Initializers \ {p} :
              ipc'[q] = ipc[q] /\ wrote'[q] = wrote[q] /\ seen'[q] = seen[q]
         /\ ipc[p] \notin {"done", "failed", "crashed"}
         /\ ipc[p] \in Failing => ipc'[p] \in Failing
         /\ BeginInit(p) \/ (Active(p) /\ UNCHANGED beside)
<1> USE DEF FilesInv
<1>1. PICK where \in InitPlaces :
        Goto(p, where) /\ (ipc[p] \in Failing => where \in Failing)
  BY DEF InitializerStep, BeginInit, ReadProfiles, CreateProfiles, WriteProfiles, CheckProfiles,
         RenameProfiles, WriteIgnore, InspectIdentity, CreateIdentity, WriteIdentity,
         SyncIdentity, RollbackProfile, RollbackIgnore, CrashInit, Return, Failing, InitPlaces
<1>2. ipc'[p] = where /\ \A q \in Initializers \ {p} : ipc'[q] = ipc[q]
  BY <1>1, GotoIs
<1>3. \A q \in Initializers \ {p} : wrote'[q] = wrote[q] /\ seen'[q] = seen[q]
  <2>1. CASE ReadProfiles(p)
    BY <2>1 DEF ReadProfiles
  <2>2. CASE WriteProfiles(p) \/ RenameProfiles(p)
    BY <2>2 DEF WriteProfiles, RenameProfiles
  <2>3. CASE WriteIgnore(p)
    BY <2>3 DEF WriteIgnore
  <2>4. CASE ~(ReadProfiles(p) \/ WriteProfiles(p) \/ RenameProfiles(p) \/ WriteIgnore(p))
    BY <2>4 DEF InitializerStep, BeginInit, CreateProfiles, CheckProfiles, InspectIdentity,
                CreateIdentity, WriteIdentity, SyncIdentity, RollbackProfile, RollbackIgnore,
                CrashInit
  <2> QED
    BY <2>1, <2>2, <2>3, <2>4
<1>4. ipc[p] \notin {"done", "failed", "crashed"}
  BY DEF InitializerStep, BeginInit, ReadProfiles, CreateProfiles, WriteProfiles, CheckProfiles,
         RenameProfiles, WriteIgnore, InspectIdentity, CreateIdentity, WriteIdentity,
         SyncIdentity, RollbackProfile, RollbackIgnore, CrashInit, Ended
<1>5. BeginInit(p) \/ (Active(p) /\ UNCHANGED beside)
  BY DEF InitializerStep, ReadProfiles, CreateProfiles, WriteProfiles, CheckProfiles,
         RenameProfiles, WriteIgnore, InspectIdentity, CreateIdentity, WriteIdentity,
         SyncIdentity, RollbackProfile, RollbackIgnore, CrashInit, Ended, Active
<1> QED
  BY <1>1, <1>2, <1>3, <1>4, <1>5

\* Whom p is beside: it grows while p is under way and stays after that.
LEMMA BesideStep ==
  ASSUME FilesInv, BesideInv, NEW p \in Initializers, InitializerStep(p)
  PROVE  /\ BesideInv'
         /\ \A q \in Initializers \ {p} :
              /\ beside[q] \subseteq beside'[q] /\ beside'[q] \subseteq Initializers
              /\ ~Active(q) => beside'[q] = beside[q]
<1>1. CASE BeginInit(p)
  <2>1. /\ ipc[p] = "idle" /\ beside \in [Initializers -> SUBSET Initializers]
        /\ \A q \in Initializers :
             beside'[q] = IF q = p THEN {x \in Initializers : Active(x)}
                          ELSE IF Active(q) THEN beside[q] \cup {p} ELSE beside[q]
    BY <1>1 DEF BeginInit, Active, FilesInv
  <2>2. \A q \in Initializers \ {p} : Active(q)' <=> Active(q)
    BY InitMoves DEF Active
  <2>3. ASSUME NEW x \in Initializers, NEW y \in Initializers, Active(x)', Active(y)', x # y
        PROVE  y \in beside'[x]
    <3>1. CASE x = p
      BY <2>1, <2>2, <2>3, <3>1
    <3>2. CASE y = p
      BY <2>1, <2>2, <2>3, <3>2
    <3>3. CASE x # p /\ y # p
      BY <2>1, <2>2, <2>3, <3>3 DEF BesideInv
    <3> QED
      BY <3>1, <3>2, <3>3
  <2> QED
    BY <2>1, <2>3 DEF BesideInv
<1>2. CASE Active(p) /\ UNCHANGED beside
  <2>1. \A q \in Initializers : Active(q)' => Active(q)
    BY <1>2, InitMoves DEF Active
  <2> QED
    BY <1>2, <2>1 DEF BesideInv, FilesInv
<1> QED
  BY <1>1, <1>2, InitMoves

\* So who is undisturbed, or alone, was so before.
LEMMA BesideBefore ==
  ASSUME FilesInv, BesideInv, NEW p \in Initializers, InitializerStep(p), NEW q \in Initializers,
         q # p \/ Active(p)
  PROVE  /\ Undisturbed(q)' => Undisturbed(q)
         /\ Alone(q)' => Alone(q)
<1>1. beside[q] \subseteq beside'[q] /\ beside'[q] \subseteq Initializers
  <2>1. CASE q # p
    BY <2>1, BesideStep
  <2>2. CASE q = p
    <3>1. ~BeginInit(p)
      BY <2>2 DEF BeginInit, Active, Ended
    <3> QED
      BY <2>2, <3>1, InitMoves DEF FilesInv
  <2> QED
    BY <2>1, <2>2
<1>2. \A x \in Initializers : ipc[x] \in Failing => ipc'[x] \in Failing
  BY InitMoves
<1> QED
  BY <1>1, <1>2 DEF Undisturbed, Alone

\* Which steps change the ignore file and the identity, or may have to undo it.
LEMMA FilesChange ==
  ASSUME FilesInv, IdentityInv, NEW p \in Initializers, InitializerStep(p)
  PROVE  /\ ignore = "complete" /\ ignore' # "complete" =>
              ipc[p] = "roll back ignore" /\ ipc'[p] = "failed" /\ wrote[p].ignore # "no"
         /\ identity \in Initializers /\ identity' # identity =>
              ipc[p] = "sync identity" /\ ipc'[p] = "roll back"
         /\ wrote'[p].ignore # "no" /\ ignore = "complete" => wrote[p].ignore # "no"
         /\ ipc'[p] = "sync identity" => ipc[p] = "write identity" /\ identity = Partial
         /\ ipc[p] # "rename profiles" /\ ipc[p] # "write profiles" =>
              wrote'[p].profile = wrote[p].profile
<1> USE DEF FilesInv
<1>0. {"sync identity", "roll back", "roll back ignore", "failed", "identity", "done",
       "write identity", "create identity", "ignore"} \subseteq InitPlaces
  BY DEF InitPlaces
<1>1. CASE WriteIgnore(p)
  <2>1. /\ ipc[p] = "ignore" /\ UNCHANGED identity
        /\ ipc'[p] \in {"identity", "roll back"}
    BY <1>0, <1>1, GotoIs DEF WriteIgnore
  <2>2. ignore = "complete" => ignore' = "complete"
    BY <1>1 DEF WriteIgnore
  <2>3. wrote[p] \in WroteRecord
    OBVIOUS
  <2>4. PICK i : wrote' = [wrote EXCEPT ![p].ignore = i] \/ UNCHANGED wrote
    BY <1>1 DEF WriteIgnore
  <2>5. wrote'[p].profile = wrote[p].profile
    BY <2>3, <2>4 DEF WroteRecord
  <2>6. ignore = "complete" => wrote' = [wrote EXCEPT ![p].ignore = "no"] \/ UNCHANGED wrote
    BY <1>1, InitializersAssumption DEF WriteIgnore
  <2>7. ignore = "complete" => wrote'[p].ignore = "no" \/ UNCHANGED wrote
    BY <2>3, <2>6 DEF WroteRecord
  <2> QED
    BY <2>1, <2>2, <2>5, <2>7
<1>2. CASE RollbackIgnore(p)
  <2>1. ipc[p] = "roll back ignore" /\ ipc'[p] = "failed" /\ UNCHANGED <<identity, wrote>>
    BY <1>0, <1>2, GotoIs DEF RollbackIgnore
  <2>2. wrote[p].ignore = "no" => ignore' = ignore
    BY <1>2 DEF RollbackIgnore
  <2> QED
    BY <2>1, <2>2
<1>3. CASE SyncIdentity(p)
  <2>1. /\ ipc[p] = "sync identity" /\ UNCHANGED <<ignore, wrote>>
        /\ UNCHANGED identity \/ Goto(p, "roll back")
        /\ \E where \in {"done", "roll back"} : Goto(p, where)
    BY <1>3 DEF SyncIdentity, Return
  <2> QED
    BY <1>0, <2>1, GotoIs
<1>4. CASE CreateIdentity(p) \/ WriteIdentity(p)
  <2>1. /\ UNCHANGED <<ignore, wrote>>
        /\ identity' # identity => identity \in {NoFile, Partial}
        /\ \E where \in {"write identity", "sync identity", "done", "roll back"} :
             /\ Goto(p, where)
             /\ where = "sync identity" => ipc[p] = "write identity"
    BY <1>4, InitializersAssumption DEF CreateIdentity, WriteIdentity, Return, IdentityInv
  <2>2. ipc'[p] = "sync identity" => ipc[p] = "write identity"
    BY <1>0, <2>1, GotoIs
  <2> QED
    BY <2>1, <2>2, InitializersAssumption DEF IdentityInv
<1>5. CASE WriteProfiles(p) \/ RenameProfiles(p)
  <2>1. /\ UNCHANGED <<ignore, identity>> /\ (Goto(p, "ignore") \/ Goto(p, "failed"))
        /\ ipc[p] \in {"rename profiles", "write profiles"} /\ wrote[p] \in WroteRecord
    BY <1>5 DEF WriteProfiles, RenameProfiles
  <2>2. \/ UNCHANGED wrote
        \/ \E v, i : wrote' = [wrote EXCEPT ![p].profile = v, ![p].inode = i]
    BY <1>5 DEF WriteProfiles, RenameProfiles
  <2>3. wrote'[p].ignore = wrote[p].ignore
    <3>1. CASE UNCHANGED wrote
      BY <3>1
    <3>2. ASSUME NEW v, NEW i, wrote' = [wrote EXCEPT ![p].profile = v, ![p].inode = i]
          PROVE  wrote'[p].ignore = wrote[p].ignore
      <4> DEFINE x == [wrote[p] EXCEPT !.profile = v, !.inode = i]
      <4>1. x.ignore = wrote[p].ignore
        BY <2>1 DEF WroteRecord
      <4>2. wrote' = [wrote EXCEPT ![p] = x]
        BY <3>2
      <4> HIDE DEF x
      <4>3. wrote'[p] = x
        BY <4>2, <1>0
      <4> QED
        BY <4>1, <4>3
    <3> QED
      BY <2>2, <3>1, <3>2
  <2>4. ipc'[p] \in {"ignore", "failed"}
    BY <1>0, <2>1, GotoIs
  <2> QED
    BY <2>1, <2>3, <2>4
<1>6. CASE \/ BeginInit(p) \/ ReadProfiles(p) \/ CreateProfiles(p) \/ CheckProfiles(p)
           \/ InspectIdentity(p) \/ RollbackProfile(p) \/ CrashInit(p)
  <2>1. UNCHANGED <<ignore, identity, wrote>>
    BY <1>6 DEF BeginInit, ReadProfiles, CreateProfiles, CheckProfiles, InspectIdentity,
                RollbackProfile, CrashInit
  <2>2. \E where \in InitPlaces \ {"sync identity"} : Goto(p, where)
    BY <1>6 DEF BeginInit, ReadProfiles, CreateProfiles, CheckProfiles, InspectIdentity,
                RollbackProfile, CrashInit, Return, InitPlaces
  <2>3. ipc'[p] # "sync identity"
    BY <2>2, GotoIs
  <2> QED
    BY <2>1, <2>3
<1> QED
  BY <1>1, <1>2, <1>3, <1>4, <1>5, <1>6 DEF InitializerStep

LEMMA LoadStep ==
  ASSUME FilesInv, IdentityInv, LastsInv, NEW p \in Initializers, InitializerStep(p),
         NEW q \in Initializers
  PROVE  LoadOK(q)'
<1>0. /\ BesideInv /\ LoadOK(q) /\ BesideInv'
      /\ {"profiles", "failed", "create identity", "write identity", "sync identity", "done",
          "roll back"} \subseteq InitPlaces
  BY BesideStep DEF LastsInv, InitPlaces
<1> SUFFICES ASSUME Undisturbed(q)' PROVE LoadOK(q)'
  BY DEF LoadOK
<1>1. CASE BeginInit(p) /\ q = p
  <2>1. ipc'[p] \in {"profiles", "failed"}
    BY <1>0, <1>1, GotoIs DEF BeginInit
  <2> QED
    BY <1>1, <2>1 DEF LoadOK, Creating, Done
<1>2. CASE Active(p) /\ q = p
  <2>1. Undisturbed(p) /\ UNCHANGED beside
    BY <1>0, <1>2, BesideBefore, InitMoves DEF BeginInit, Active, Ended
  <2>2. ipc[p] \in Creating => ignore = "complete"
    BY <1>0, <1>2, <2>1 DEF LoadOK
  <2>3. CASE InspectIdentity(p) \/ CreateIdentity(p) \/ WriteIdentity(p) \/ SyncIdentity(p)
    <3>1. UNCHANGED <<ignore, wrote>>
      BY <2>3 DEF InspectIdentity, CreateIdentity, WriteIdentity, SyncIdentity
    <3>2. PICK where \in {"create identity", "write identity", "sync identity", "done",
                          "roll back"} : Goto(p, where)
      BY <2>3 DEF InspectIdentity, CreateIdentity, WriteIdentity, SyncIdentity, Return
    <3>3. ipc'[p] = where
      BY <1>0, <3>2, GotoIs
    <3>4. where # "roll back" => ignore = "complete"
      <4>1. CASE InspectIdentity(p)
        <5>1. ignore = "complete" \/ Goto(p, "roll back")
          BY <4>1 DEF InspectIdentity, Loadable
        <5> QED
          BY <1>0, <3>3, <5>1, GotoIs
      <4>2. CASE ~InspectIdentity(p)
        BY <2>2, <2>3, <4>2 DEF CreateIdentity, WriteIdentity, SyncIdentity, Creating
      <4> QED
        BY <4>1, <4>2
    <3>5. where = "done" => identity \in Initializers /\ UNCHANGED identity
      <4>1. \/ identity \in Initializers /\ UNCHANGED identity
            \/ Goto(p, "roll back") \/ Goto(p, "create identity") \/ Goto(p, "write identity")
            \/ Goto(p, "sync identity")
        BY <2>3 DEF InspectIdentity, CreateIdentity, WriteIdentity, SyncIdentity, Return,
                    Loadable, IdentityInv
      <4> QED
        BY <1>0, <3>3, <4>1, GotoIs
    <3>6. ASSUME where = "done", NEW x \in Initializers, Active(x)' PROVE x \in beside'[p]
      <4>1. x # p /\ Active(x)
        BY <3>3, <3>6, InitMoves DEF Active, Ended
      <4> QED
        BY <1>0, <1>2, <2>1, <4>1 DEF BesideInv
    <3> QED
      BY <1>2, <3>1, <3>3, <3>4, <3>5, <3>6 DEF LoadOK, Creating, Done, Loadable
  <2>4. CASE ~(InspectIdentity(p) \/ CreateIdentity(p) \/ WriteIdentity(p) \/ SyncIdentity(p))
    <3>1. \E where \in InitPlaces \ (Creating \cup {"done"}) : Goto(p, where)
      BY <1>0, <2>4 DEF InitializerStep, BeginInit, ReadProfiles, CreateProfiles, WriteProfiles,
                  CheckProfiles, RenameProfiles, WriteIgnore, RollbackProfile, RollbackIgnore,
                  CrashInit, InitPlaces, Creating
    <3>2. ipc'[p] \notin Creating \cup {"done"}
      BY <3>1, GotoIs
    <3> QED
      BY <1>2, <3>2 DEF LoadOK, Done
  <2> QED
    BY <2>3, <2>4
<1>3. CASE q # p
  <2>1. Undisturbed(q) /\ ipc'[q] = ipc[q]
    BY <1>0, <1>3, BesideBefore, InitMoves
  <2>2. p \in beside'[q] => ipc'[p] \notin Failing
    BY DEF Undisturbed
  <2>3. beside[q] \subseteq beside'[q] /\ (~Active(q) => beside'[q] = beside[q])
    BY <1>0, <1>3, BesideStep
  <2>4. ipc'[q] \in Creating => ignore' = "complete"
    <3> SUFFICES ASSUME ipc[q] \in Creating, ignore' # "complete" PROVE FALSE
      BY <2>1
    <3>1. ignore = "complete" /\ Active(q)
      BY <1>0, <2>1 DEF LoadOK, Active, Ended, Creating
    <3>2. ipc[p] = "roll back ignore" /\ ipc'[p] = "failed"
      BY <3>1, FilesChange
    <3>3. p \in beside[q]
      BY <1>0, <1>3, <3>1, <3>2 DEF BesideInv, Active, Ended
    <3> QED
      BY <2>2, <2>3, <3>2, <3>3 DEF Failing
  <2>5. ASSUME Done(q)'
        PROVE  /\ Loadable'
               /\ \A x \in Initializers : Active(x)' /\ x \notin beside'[q] =>
                    wrote'[x].ignore = "no" /\ ipc'[x] # "sync identity"
    <3>1. /\ Done(q) /\ ~Active(q) /\ Loadable /\ beside'[q] = beside[q]
          /\ \A x \in Initializers : Active(x) /\ x \notin beside[q] =>
               wrote[x].ignore = "no" /\ ipc[x] # "sync identity"
      BY <1>0, <2>1, <2>3, <2>5 DEF LoadOK, Done, Active, Ended
    <3>2. identity \in Initializers /\ ignore = "complete"
      BY <3>1 DEF Loadable
    <3>3. ignore' = "complete"
      <4> SUFFICES ASSUME ignore' # "complete" PROVE FALSE
        OBVIOUS
      <4>1. ipc[p] = "roll back ignore" /\ ipc'[p] = "failed" /\ wrote[p].ignore # "no"
        BY <3>2, FilesChange
      <4> QED
        BY <2>2, <3>1, <4>1 DEF Failing, Active, Ended
    <3>4. identity' = identity
      <4> SUFFICES ASSUME identity' # identity PROVE FALSE
        OBVIOUS
      <4>1. ipc[p] = "sync identity" /\ ipc'[p] = "roll back"
        BY <3>2, FilesChange
      <4> QED
        BY <2>2, <3>1, <4>1 DEF Failing, Active, Ended
    <3>5. ASSUME NEW x \in Initializers, Active(x)', x \notin beside'[q]
          PROVE  wrote'[x].ignore = "no" /\ ipc'[x] # "sync identity"
      <4>1. CASE x # p
        BY <3>1, <3>5, <4>1, InitMoves DEF Active
      <4>2. CASE x = p
        <5>1. ipc'[p] # "sync identity"
          BY <3>2, FilesChange, InitializersAssumption
        <5>2. wrote[p].ignore = "no"
          <6>1. CASE Active(p)
            BY <3>1, <3>5, <4>2, <6>1
          <6>2. CASE BeginInit(p)
            BY <6>2 DEF BeginInit, FilesInv, ReadOK, Early
          <6> QED
            BY <6>1, <6>2, InitMoves
        <5>3. wrote'[p].ignore = "no"
          BY <3>2, <5>2, FilesChange
        <5> QED
          BY <4>2, <5>1, <5>3
      <4> QED
        BY <4>1, <4>2
    <3> QED
      BY <3>2, <3>3, <3>4, <3>5 DEF Loadable
  <2> QED
    BY <2>4, <2>5 DEF LoadOK
<1> QED
  BY <1>1, <1>2, <1>3, InitMoves

\* Only who registers a profile changes the document.
LEMMA ProfilesChange ==
  ASSUME FilesInv, NEW p \in Initializers, InitializerStep(p)
  PROVE  \/ UNCHANGED profiles
         \/ /\ ProfileOf[p] # NoProfile /\ Active(p)
            /\ CreateProfiles(p) \/ WriteProfiles(p) \/ RenameProfiles(p) \/ RollbackProfile(p)
<1>0. ReadOK(p)
  BY DEF FilesInv
<1>1. CASE CreateProfiles(p) \/ WriteProfiles(p) \/ RenameProfiles(p)
  BY <1>0, <1>1 DEF CreateProfiles, WriteProfiles, RenameProfiles, ReadOK, Active, Ended
<1>2. CASE RollbackProfile(p)
  BY <1>0, <1>2 DEF RollbackProfile, rollbackProfile, ReadOK, Active, Ended
<1>3. CASE ~(CreateProfiles(p) \/ WriteProfiles(p) \/ RenameProfiles(p) \/ RollbackProfile(p))
  BY <1>3 DEF InitializerStep, BeginInit, ReadProfiles, CheckProfiles, WriteIgnore,
              InspectIdentity, CreateIdentity, WriteIdentity, SyncIdentity, RollbackIgnore,
              CrashInit
<1> QED
  BY <1>1, <1>2, <1>3

\* The one that moves is the one whose profile is to stay.
LEMMA RegisterOwn ==
  ASSUME FilesInv, LastsInv, NEW p \in Initializers, InitializerStep(p), Active(p),
         Alone(p), ProfileOf[p] # NoProfile
  PROVE  /\ ipc'[p] = "write profiles" => profiles' # NoFile /\ profiles'.inode = <<p, "new">>
         /\ ipc'[p] \in Settled => Holds(p, profiles')
<1>0. /\ RegisterOK(p) /\ ReadOK(p) /\ ProfileOf[p] \in Profiles
      /\ {"failed", "ignore", "create profiles", "write profiles", "replace profiles",
          "rename profiles", "identity", "roll back", "done"} \cup Creating \subseteq InitPlaces
  BY InitializersAssumption DEF LastsInv, FilesInv, InitPlaces, Creating
<1>1. CASE ReadProfiles(p)
  <2>1. CASE profiles = NoFile
    <3>1. ipc'[p] = "create profiles"
      BY <1>0, <1>1, <2>1, GotoIs DEF ReadProfiles
    <3> QED
      BY <3>1 DEF Settled, Creating
  <2>2. CASE profiles # NoFile
    <3>1. PICK where \in {"failed", "ignore", "replace profiles"} :
            /\ Goto(p, where)
            /\ where = "ignore" =>
                 mergeAgentProfileDocument(p, profiles.content) = "unchanged"
      BY <1>1, <2>2 DEF ReadProfiles
    <3>2. ipc'[p] = where
      BY <1>0, <3>1, GotoIs
    <3>3. where = "ignore" => Holds(p, profiles)
      BY <2>2, <3>1 DEF mergeAgentProfileDocument, Holds, FullDocuments, FilesInv, Documents
    <3>4. UNCHANGED profiles
      BY <1>1 DEF ReadProfiles
    <3> QED
      BY <3>1, <3>2, <3>3, <3>4 DEF Settled, Creating, Holds
  <2> QED
    BY <2>1, <2>2
<1>2. CASE CreateProfiles(p)
  <2>1. \/ profiles' = Document(p, "new", Partial) /\ ipc'[p] = "write profiles"
        \/ ipc'[p] = "failed"
    BY <1>0, <1>2, GotoIs DEF CreateProfiles
  <2> DEFINE d == Document(p, "new", Partial)
  <2>2. d # NoFile /\ d.inode = <<p, "new">>
    BY DocumentIs
  <2> HIDE DEF d
  <2>3. "write profiles" \notin Settled /\ "failed" \notin Settled
    BY DEF Settled, Creating
  <2> QED
    BY <2>1, <2>2, <2>3 DEF d
<1>3. CASE WriteProfiles(p)
  <2>1. profiles # NoFile /\ profiles.inode = <<p, "new">>
    BY <1>0, <1>3 DEF RegisterOK, WriteProfiles
  <2>2. \/ profiles' = Document(p, "new", {ProfileOf[p]}) /\ ipc'[p] = "ignore"
        \/ ipc'[p] = "failed"
    BY <1>0, <1>3, <2>1, GotoIs DEF WriteProfiles
  <2>3. Holds(p, Document(p, "new", {ProfileOf[p]}))
    BY <1>0 DEF Holds, Document, FullDocuments, Inodes
  <2> QED
    BY <2>2, <2>3 DEF Settled, Creating, Holds
<1>4. CASE CheckProfiles(p)
  <2>1. ipc'[p] \in {"rename profiles", "failed"}
    BY <1>0, <1>4, GotoIs DEF CheckProfiles
  <2> QED
    BY <2>1 DEF Settled, Creating
<1>5. CASE RenameProfiles(p)
  <2> DEFINE content == seen[p].content \cup {ProfileOf[p]}
  <2>1. ipc'[p] = "ignore" /\ profiles' = Document(p, "new", content)
    BY <1>0, <1>5, GotoIs DEF RenameProfiles
  <2>2. content \in SUBSET Profiles
    BY <1>0, <1>5 DEF ReadOK, RenameProfiles, FullDocuments
  <2>3. Holds(p, Document(p, "new", content))
    BY <2>2 DEF Holds, Document, FullDocuments, Inodes
  <2> QED
    BY <2>1, <2>3 DEF Settled, Creating, Holds
<1>6. CASE \/ WriteIgnore(p) \/ InspectIdentity(p) \/ CreateIdentity(p) \/ WriteIdentity(p)
           \/ SyncIdentity(p)
  <2>1. ipc[p] \in Settled /\ UNCHANGED profiles
    BY <1>6 DEF WriteIgnore, InspectIdentity, CreateIdentity, WriteIdentity, SyncIdentity,
                Settled, Creating
  <2>2. \E where \in {"identity", "roll back", "done"} \cup Creating : Goto(p, where)
    BY <1>6 DEF WriteIgnore, InspectIdentity, CreateIdentity, WriteIdentity, SyncIdentity,
                Creating, Return
  <2>3. ipc'[p] # "write profiles"
    BY <1>0, <2>2, GotoIs DEF Creating
  <2> QED
    BY <1>0, <2>1, <2>3 DEF RegisterOK, Holds
<1>7. CASE RollbackProfile(p) \/ RollbackIgnore(p) \/ CrashInit(p)
  <2>1. \E where \in {"roll back ignore", "failed", "crashed"} : Goto(p, where)
    BY <1>7 DEF RollbackProfile, RollbackIgnore, CrashInit
  <2>2. ipc'[p] \in {"roll back ignore", "failed", "crashed"}
    BY <2>1, GotoIs DEF InitPlaces
  <2> QED
    BY <2>2 DEF Settled, Creating
<1> QED
  BY <1>1, <1>2, <1>3, <1>4, <1>5, <1>6, <1>7 DEF InitializerStep, BeginInit, Active, Ended

\* Somebody moves who came after q was done.
LEMMA RegisterLater ==
  ASSUME FilesInv, NEW p \in Initializers, InitializerStep(p), ProfileOf[p] # NoProfile,
         NEW q \in Initializers, Holds(q, profiles), ~BeginInit(p) => LaterOK(q, p)
  PROVE  Holds(q, profiles') /\ (Active(p)' => LaterOK(q, p)')
<1>00. \A d \in FullDocuments : d # NoFile
  BY InitializersAssumption DEF FullDocuments, Documents
<1>0. /\ ReadOK(p) /\ ProfileOf[p] \in Profiles /\ profiles # NoFile
      /\ {"failed", "ignore", "replace profiles", "rename profiles", "profiles",
          "roll back ignore", "crashed"} \subseteq InitPlaces
      /\ wrote[p] \in WroteRecord
  BY <1>00, InitializersAssumption DEF FilesInv, InitPlaces, Holds
<1>1. CASE BeginInit(p)
  <2>1. UNCHANGED <<profiles, wrote, seen>> /\ wrote[p].profile = "no"
    BY <1>0, <1>1 DEF BeginInit, ReadOK
  <2>2. ipc'[p] \in {"profiles", "failed"}
    BY <1>0, <1>1, GotoIs DEF BeginInit
  <2> QED
    BY <2>1, <2>2 DEF LaterOK, Holds
<1>2. CASE ReadProfiles(p)
  <2>1. /\ UNCHANGED <<profiles, wrote>> /\ wrote[p].profile = "no"
        /\ seen' = [seen EXCEPT ![p] = profiles]
        /\ \E where \in {"failed", "ignore", "replace profiles"} : Goto(p, where)
    BY <1>0, <1>2 DEF ReadProfiles, ReadOK
  <2>2. seen'[p] = profiles /\ ipc'[p] \in {"failed", "ignore", "replace profiles"}
    BY <1>0, <2>1, GotoIs DEF FilesInv
  <2> QED
    BY <2>1, <2>2 DEF LaterOK, Holds
<1>3. CASE CreateProfiles(p) \/ WriteProfiles(p)
  BY <1>3 DEF CreateProfiles, WriteProfiles, LaterOK, BeginInit
<1>4. CASE CheckProfiles(p)
  <2>1. UNCHANGED <<profiles, wrote, seen>> /\ ipc[p] = "replace profiles" /\ ~BeginInit(p)
    BY <1>4 DEF CheckProfiles, BeginInit
  <2>2. ipc'[p] \in {"rename profiles", "failed"}
    BY <1>0, <1>4, GotoIs DEF CheckProfiles
  <2> QED
    BY <2>1, <2>2 DEF LaterOK, Holds
<1>5. CASE RenameProfiles(p)
  <2> DEFINE content == seen[p].content \cup {ProfileOf[p]}
  <2>1. /\ ipc'[p] = "ignore" /\ profiles' = Document(p, "new", content) /\ UNCHANGED seen
        /\ ipc[p] = "rename profiles" /\ ~BeginInit(p)
        /\ wrote' = [wrote EXCEPT ![p].profile = "updated", ![p].inode = <<p, "new">>]
    BY <1>0, <1>5, GotoIs DEF RenameProfiles, BeginInit
  <2>2. content \in SUBSET Profiles /\ Holds(q, seen[p])
    BY <1>0, <2>1 DEF ReadOK, FullDocuments, LaterOK
  <2>3. Holds(q, Document(p, "new", content))
    BY <2>2 DEF Holds, Document, FullDocuments, Inodes
  <2>4. wrote'[p].profile = "updated"
    BY <1>0, <2>1 DEF FilesInv, WroteRecord
  <2> QED
    BY <2>1, <2>2, <2>3, <2>4 DEF LaterOK, Holds
<1>6. CASE RollbackProfile(p)
  <2>1. /\ ipc'[p] = "roll back ignore" /\ profiles' = rollbackProfile(p) /\ ~BeginInit(p)
        /\ UNCHANGED <<wrote, seen>>
    BY <1>0, <1>6, GotoIs DEF RollbackProfile, BeginInit
  <2>2. LaterOK(q, p)'
    BY <2>1 DEF LaterOK, Holds
  <2>3. CASE UNCHANGED profiles
    BY <2>2, <2>3 DEF Holds
  <2>4. CASE ~UNCHANGED profiles
    <3>1. wrote[p].profile = "updated"
      BY <1>0, <2>1, <2>4 DEF rollbackProfile, LaterOK, WroteRecord
    <3>2. /\ profiles' = Document(p, "restored", seen[p].content)
          /\ Holds(q, seen[p])
      BY <2>1, <2>4, <3>1 DEF rollbackProfile, LaterOK
    <3>3. Holds(q, Document(p, "restored", seen[p].content))
      BY <3>2 DEF Holds, Document, FullDocuments, Inodes
    <3> QED
      BY <2>2, <3>2, <3>3 DEF Holds
  <2> QED
    BY <2>3, <2>4
<1>7. CASE \/ WriteIgnore(p) \/ InspectIdentity(p) \/ CreateIdentity(p) \/ WriteIdentity(p)
           \/ SyncIdentity(p) \/ RollbackIgnore(p) \/ CrashInit(p)
  <2>1. UNCHANGED <<profiles, seen>> /\ ~BeginInit(p)
    BY <1>7 DEF WriteIgnore, InspectIdentity, CreateIdentity, WriteIdentity, SyncIdentity,
                RollbackIgnore, CrashInit, BeginInit, Ended
  <2>2. wrote'[p].profile = wrote[p].profile
    <3>1. CASE WriteIgnore(p)
      <4>1. PICK i : wrote' = [wrote EXCEPT ![p].ignore = i] \/ UNCHANGED wrote
        BY <3>1 DEF WriteIgnore
      <4> QED
        BY <1>0, <4>1 DEF FilesInv, WroteRecord
    <3>2. CASE ~WriteIgnore(p)
      BY <1>7, <3>2 DEF InspectIdentity, CreateIdentity, WriteIdentity, SyncIdentity,
                        RollbackIgnore, CrashInit
    <3> QED
      BY <3>1, <3>2
  <2>3. \E where \in {"identity", "roll back", "create identity", "write identity",
                      "sync identity", "done", "failed", "crashed"} : Goto(p, where)
    BY <1>7 DEF WriteIgnore, InspectIdentity, CreateIdentity, WriteIdentity, SyncIdentity,
                RollbackIgnore, CrashInit, Return
  <2>4. ipc'[p] \in {"identity", "roll back", "create identity", "write identity",
                     "sync identity", "done", "failed", "crashed"}
    BY <2>3, GotoIs DEF InitPlaces
  <2> QED
    BY <2>1, <2>2, <2>4 DEF LaterOK, Holds
<1> QED
  BY <1>1, <1>2, <1>3, <1>4, <1>5, <1>6, <1>7 DEF InitializerStep

LEMMA RegisterStep ==
  ASSUME FilesInv, LastsInv, NEW p \in Initializers, InitializerStep(p),
         NEW q \in Initializers
  PROVE  RegisterOK(q)'
<1>0. BesideInv /\ RegisterOK(q) /\ {"profiles", "failed"} \subseteq InitPlaces
  BY DEF LastsInv, InitPlaces
<1> SUFFICES ASSUME Alone(q)', ProfileOf[q] # NoProfile PROVE RegisterOK(q)'
  BY DEF RegisterOK
<1>1. CASE BeginInit(p) /\ q = p
  <2>1. ipc'[p] \in {"profiles", "failed"}
    BY <1>0, <1>1, GotoIs DEF BeginInit
  <2> QED
    BY <1>1, <2>1 DEF RegisterOK, Settled, Creating, Done
<1>2. CASE Active(p) /\ q = p
  <2>1. Alone(p)
    BY <1>0, <1>2, BesideBefore
  <2>2. ASSUME Done(p)', NEW x \in Initializers, Active(x)', ProfileOf[x] # NoProfile
        PROVE  FALSE
    <3>1. x # p /\ Active(x)
      BY <2>2, InitMoves DEF Active, Done, Ended
    <3> QED
      BY <1>0, <1>2, <2>1, <2>2, <3>1 DEF BesideInv, Alone
  <2> QED
    BY <1>2, <2>1, <2>2, RegisterOwn DEF RegisterOK
<1>3. CASE q # p
  <2>1. Alone(q) /\ ipc'[q] = ipc[q]
    BY <1>0, <1>3, BesideBefore, InitMoves
  <2>2. CASE Active(q)
    <3>1. UNCHANGED profiles
      BY <1>0, <1>3, <2>1, <2>2, ProfilesChange DEF BesideInv, Alone
    <3> QED
      BY <1>0, <2>1, <2>2, <3>1 DEF RegisterOK, Holds, Done, Active, Ended
  <2>3. CASE Done(q)
    <3>1. /\ Holds(q, profiles)
          /\ \A x \in Initializers : Active(x) /\ ProfileOf[x] # NoProfile => LaterOK(q, x)
      BY <1>0, <2>1, <2>3 DEF RegisterOK, Settled, Done
    <3>2. ASSUME NEW x \in Initializers \ {p}, Active(x)', ProfileOf[x] # NoProfile
          PROVE  LaterOK(q, x)'
      <4>1. /\ Active(x) /\ LaterOK(q, x)
            /\ ipc'[x] = ipc[x] /\ wrote'[x] = wrote[x] /\ seen'[x] = seen[x]
        BY <3>1, <3>2, InitMoves DEF Active
      <4> QED
        BY <4>1 DEF LaterOK, Holds
    <3>3. CASE ProfileOf[p] # NoProfile
      <4>1. Holds(q, profiles') /\ (Active(p)' => LaterOK(q, p)')
        BY <3>1, <3>3, RegisterLater, InitMoves
      <4> QED
        BY <2>1, <2>3, <3>2, <4>1 DEF RegisterOK, Done
    <3>4. CASE ProfileOf[p] = NoProfile
      <4>1. UNCHANGED profiles
        BY <3>4, ProfilesChange
      <4> QED
        BY <2>1, <2>3, <3>1, <3>2, <3>4, <4>1 DEF RegisterOK, Done, Holds
    <3> QED
      BY <3>3, <3>4
  <2>4. CASE ~Active(q) /\ ~Done(q)
    BY <2>1, <2>4 DEF RegisterOK, Active, Done, Ended, Settled, Creating
  <2> QED
    BY <2>2, <2>3, <2>4
<1> QED
  BY <1>1, <1>2, <1>3, InitMoves

LEMMA LastsStep ==
  ASSUME InitializersInv, NEW p \in Initializers, InitializerStep(p)
  PROVE  LastsInv'
  BY BesideStep, LoadStep, RegisterStep DEF InitializersInv, LastsInv

-----------------------------------------------------------------------------
(* Steps of one side leave alone what is known of the other *)

\* A daemon reads the identity, and changes none of the files.
LEMMA DaemonKeepsFiles ==
  ASSUME InitializersInv, NEW d \in Daemons, DaemonStep(d)
  PROVE  InitializersInv'
<1>1. /\ UNCHANGED <<profiles, ignore, identity, ipc, seen, wrote, beside>>
      /\ \/ issued' = issued
         \/ identity \in Initializers /\ issued' = issued \cup {identity}
  <2>1. ASSUME NEW profile \in EnforcementProfiles, Start(d, profile)
        PROVE  \/ issued' = issued
               \/ identity \in Initializers /\ issued' = issued \cup {identity}
    <3> DEFINE id == IF placed[d].repository # Home THEN OtherID
                     ELSE IF Loadable THEN identity ELSE NoFile
    <3>1. issued' = IF id \in Initializers THEN issued \cup {id} ELSE issued
      BY <2>1 DEF Start
    <3>2. id \in Initializers => id = identity
      BY DaemonsAssumption, InitializersAssumption
    <3> QED
      BY <3>1, <3>2
  <2>2. ASSUME NEW profile \in EnforcementProfiles, Start(d, profile)
        PROVE  UNCHANGED <<profiles, ignore, identity, ipc, seen, wrote, beside>>
    BY <2>2 DEF Start
  <2>3. (\E profile \in EnforcementProfiles : Start(d, profile)) \/ UNCHANGED initVars
    BY DEF DaemonStep, RefuseConfiguration, acquireRuntimeLock,
           inspectTransactionDirectoryPath, revalidateTransactionDirectorySnapshots,
           acquireProcessLock, InspectLedger, initialize, BindRuntimeMetadata, Recover,
           FindSocket, Dial, RecheckSocket, RemoveSocket, Listen, BeginRequest, CommitRequest,
           Shutdown, removeOwnedSocket, ReleaseLocks, Exit
  <2> QED
    BY <2>1, <2>2, <2>3 DEF initVars
<1>2. FilesInv'
  BY <1>1 DEF InitializersInv, FilesInv, ReadOK
<1>3. IdentityInv'
  BY <1>1 DEF InitializersInv, IdentityInv, IdentityAgreement
<1>4. LastsInv'
  BY <1>1 DEF InitializersInv, LastsInv, BesideInv, LoadOK, RegisterOK, LaterOK, Holds, Alone,
              Undisturbed, Active, Done, Loadable
<1> QED
  BY <1>2, <1>3, <1>4 DEF InitializersInv

LEMMA FilesSame ==
  ASSUME InitializersInv, UNCHANGED initVars
  PROVE  InitializersInv'
<1>1. UNCHANGED <<profiles, ignore, identity, ipc, seen, wrote, beside, issued>>
  BY DEF initVars
<1>2. FilesInv'
  BY <1>1 DEF InitializersInv, FilesInv, ReadOK
<1>3. IdentityInv'
  BY <1>1 DEF InitializersInv, IdentityInv, IdentityAgreement
<1>4. LastsInv'
  BY <1>1 DEF InitializersInv, LastsInv, BesideInv, LoadOK, RegisterOK, LaterOK, Holds, Alone,
              Undisturbed, Active, Done, Loadable
<1> QED
  BY <1>2, <1>3, <1>4 DEF InitializersInv

LEMMA DaemonsSame ==
  ASSUME StateInv, LockInv, LedgerInv, SocketInv,
         UNCHANGED <<placed, st, runtimeLock, dbLock, ledger, socket>>
  PROVE  StateInv' /\ LockInv' /\ LedgerInv' /\ SocketInv'
<1>1. StateInv'
  BY DEF StateInv
<1>2. LockInv'
  BY DEF LockInv
<1>3. LedgerInv'
  BY DEF LedgerInv, HistoryOfOneRuntime, At
<1>4. SocketInv'
  BY DEF SocketInv, SocketOK, At, Inode
<1> QED
  BY <1>1, <1>2, <1>3, <1>4

\* Who may replace the root found no daemon that had accepted it.
LEMMA IntrudeStep ==
  ASSUME DaemonInv, Intrude
  PROVE  DaemonInv'
<1>1. InitializersInv'
  BY FilesSame DEF DaemonInv, Intrude
<1>2. StateInv' /\ LockInv' /\ LedgerInv' /\ SocketInv'
  BY DaemonsSame DEF DaemonInv, Intrude
<1>3. RootInv'
  BY DaemonsAssumption DEF DaemonInv, Intrude, RootInv
<1> QED
  BY <1>1, <1>2, <1>3 DEF DaemonInv

LEMMA DaemonInvStep ==
  ASSUME DaemonInv, [Next]_vars
  PROVE  DaemonInv'
<1>1. ASSUME NEW p \in Initializers, InitializerStep(p), UNCHANGED daemonVars
      PROVE  DaemonInv'
  <2>1. InitializersInv'
    BY <1>1, FilesStep, IdentityStep, LastsStep DEF DaemonInv, InitializersInv
  <2>2. StateInv' /\ LockInv' /\ LedgerInv' /\ SocketInv'
    BY <1>1, DaemonsSame DEF DaemonInv, daemonVars
  <2>3. RootInv'
    BY <1>1 DEF DaemonInv, RootInv, daemonVars
  <2> QED
    BY <2>1, <2>2, <2>3 DEF DaemonInv
<1>2. ASSUME NEW d \in Daemons, DaemonStep(d)
      PROVE  DaemonInv'
  <2>1. InitializersInv'
    BY <1>2, DaemonKeepsFiles DEF DaemonInv
  <2> QED
    BY <1>2, <2>1, StateStep, LockStep, RootStep, LedgerStep, SocketStep DEF DaemonInv
<1>3. CASE Intrude
  BY <1>3, IntrudeStep
<1>4. CASE UNCHANGED vars
  <2>1. InitializersInv'
    BY <1>4, FilesSame DEF DaemonInv, vars
  <2>2. StateInv' /\ LockInv' /\ LedgerInv' /\ SocketInv'
    BY <1>4, DaemonsSame DEF DaemonInv, vars, daemonVars
  <2>3. RootInv'
    BY <1>4 DEF DaemonInv, RootInv, vars, daemonVars
  <2> QED
    BY <2>1, <2>2, <2>3 DEF DaemonInv
<1> QED
  BY <1>1, <1>2, <1>3, <1>4 DEF Next, InitializersNext, DaemonsNext

LEMMA InitInitializers ==
  ASSUME InitRuntime
  PROVE  InitializersInv
<1>1. /\ "idle" \in InitPlaces /\ Nothing \in WroteRecord
      /\ Nothing.profile = "no" /\ Nothing.ignore = "no"
  BY DEF InitPlaces, Nothing, WroteRecord
<1>2. /\ ipc \in [Initializers -> InitPlaces] /\ wrote \in [Initializers -> WroteRecord]
      /\ \A p \in Initializers : /\ ipc[p] = "idle" /\ wrote[p].profile = "no"
                                 /\ wrote[p].ignore = "no"
  BY <1>1 DEF InitRuntime
<1>3. FilesInv
  BY <1>2 DEF InitRuntime, FilesInv, ReadOK
<1>4. IdentityInv
  BY <1>2 DEF InitRuntime, IdentityInv, IdentityAgreement
<1>5. LastsInv
  BY <1>2 DEF LastsInv, BesideInv, LoadOK, RegisterOK, Active, Done, Ended, Creating, Settled
<1> QED
  BY <1>3, <1>4, <1>5 DEF InitializersInv

LEMMA InitIsDaemonInv ==
  ASSUME Init
  PROVE  DaemonInv
<1>1. InitializersInv
  BY InitInitializers DEF Init
<1>2. 0 \in 0..MaxStarts
  BY DaemonsAssumption
<1>3. /\ st \in [Daemons -> DaemonRecord] /\ placed \in Placements
      /\ \A d \in Daemons : st[d].pc = "stopped"
  BY <1>2, StoppedIs DEF Init, InitDaemons
<1>4. StateInv /\ RootInv
  BY <1>3, PlacesAre DEF StateInv, RootInv, Init, InitDaemons
<1>5. LockInv
  BY <1>3, PlacesAre DEF LockInv, Init, InitDaemons
<1>6. LedgerInv
  <2> DEFINE OK(l) == /\ l \in LedgerRecord
                      /\ l.runtime = NoFile <=> l.profile = "none"
                      /\ l.history \subseteq {<<l.runtime, l.profile>>, <<NoFile, "none">>}
                      /\ <<NoFile, "none">> \in l.history => l.profile # "production"
  <2>1. /\ NoLedger \in LedgerRecord /\ NoLedger.runtime = NoFile
        /\ NoLedger.profile = "none" /\ NoLedger.history = {}
    BY DEF NoLedger, LedgerRecord, Identities, LedgerProfiles
  <2>2. OK(LegacyLedger)
    <3>1. /\ LegacyLedger = [NoLedger EXCEPT !.schema = "old", !.history = {<<NoFile, "none">>}]
          /\ <<NoFile, "none">> \in Identities \X LedgerProfiles
      BY DEF LegacyLedger, Identities, LedgerProfiles
    <3>2. /\ LegacyLedger \in LedgerRecord /\ LegacyLedger.history = {<<NoFile, "none">>}
          /\ LegacyLedger.runtime = NoFile /\ LegacyLedger.profile = "none"
      BY <2>1, <3>1 DEF LedgerRecord
    <3> QED
      BY <3>2
  <2>3. OK(OtherLedger)
    BY DaemonsAssumption DEF OtherLedger, LedgerRecord, Identities, LedgerProfiles,
                             EnforcementProfiles
  <2>4. PICK l : OK(l) /\ ledger = [db \in Databases |-> l]
    BY <2>1, <2>2, <2>3 DEF Init, InitDaemons
  <2>5. \A db \in Databases : ledger[db] = l
    BY <2>4
  <2> QED
    BY <1>3, <2>4, <2>5 DEF LedgerInv, HistoryOfOneRuntime, At
<1>7. SocketInv
  <2>1. StaleSocket \in SocketFiles /\ ~StaleSocket.live
    BY <1>2 DEF StaleSocket, SocketFiles
  <2>2. socket \in [Sockets -> {NoFile, StaleSocket}]
    BY DEF Init, InitDaemons
  <2>3. socket \in [Sockets -> {NoFile} \cup SocketFiles]
    BY <2>1, <2>2
  <2>4. \A s \in Sockets : socket[s] # NoFile => ~socket[s].live
    BY <2>1, <2>2
  <2> QED
    BY <1>3, <2>3, <2>4 DEF SocketInv, SocketOK, At
<1> QED
  BY <1>1, <1>4, <1>5, <1>6, <1>7 DEF DaemonInv

-----------------------------------------------------------------------------
(* Theorems *)

\* Run, its starts, crashes and late commits, and initializers beside them
\* keep the inductive invariant.
THEOREM DaemonCorrect == Spec => []DaemonInv
<1>1. Init => DaemonInv
  BY InitIsDaemonInv
<1>2. DaemonInv /\ [Next]_vars => DaemonInv'
  BY DaemonInvStep
<1> QED
  BY <1>1, <1>2, PTL DEF Spec

\* Whoever creates or loads the identity of a runtime is given the one that
\* stays unless the command that created it fails; and what a command has done
\* stays, whatever later commands fail at and roll back: of those that ran
\* beside it only one that failed may have undone its identity, and only one
\* that registers a profile its profile (createOrLoad,
\* writeRuntimeInitialization).
THEOREM RuntimeCorrect == Spec => []RuntimeInv
<1>1. DaemonInv => RuntimeInv
  <2> SUFFICES ASSUME DaemonInv PROVE RuntimeInv
    OBVIOUS
  <2>1. \A d \in Daemons : st[d] \in DaemonRecord
    BY DEF DaemonInv, StateInv
  <2>2. TypeOK
    BY <2>1 DEF DaemonInv, InitializersInv, FilesInv, LockInv, RootInv, TypeOK, DaemonRecord,
                DaemonPlaces, Identities, LedgerProfiles
  <2>3. IdentityAgreement
    BY DEF DaemonInv, InitializersInv, IdentityInv
  <2>4. InitializationLasts
    <3>1. \A p \in Initializers : LoadOK(p) /\ RegisterOK(p)
      BY DEF DaemonInv, InitializersInv, LastsInv
    <3>2. \A d \in FullDocuments : d # NoFile
      BY InitializersAssumption DEF FullDocuments, Documents
    <3>3. ASSUME NEW p \in Initializers, Done(p), Alone(p) PROVE Registered(p)
      BY <3>1, <3>2, <3>3 DEF RegisterOK, Registered, Holds, Settled, Done
    <3> QED
      BY <3>1, <3>3 DEF InitializationLasts, LoadOK, Undisturbed, Alone, Done
  <2> QED
    BY <2>2, <2>3, <2>4 DEF RuntimeInv
<1> QED
  BY <1>1, DaemonCorrect, PTL

\* A ledger holds the history of the one runtime and profile it is bound to,
\* although a request may commit after Run has given up its locks:
\* BindRuntimeMetadata, requireStoredRuntimeBinding.
THEOREM HistoryCorrect == Spec => []HistoryOfOneRuntime
<1>1. DaemonInv => HistoryOfOneRuntime
  BY DEF DaemonInv, LedgerInv
<1> QED
  BY <1>1, DaemonCorrect, PTL

\* Once accepted the transaction root is nobody else's:
\* validateTransactionDirectoryInfo asks for the sticky bit.
THEOREM RootPrivate == Spec => []RootStaysPrivate
<1>1. DaemonInv => RootStaysPrivate
  BY DEF DaemonInv, RootInv, RootStaysPrivate
<1> QED
  BY <1>1, DaemonCorrect, PTL

\* The socket path leads to the daemon that serves on it, and what a killed
\* one left is never in the way: prepareSocketPath, removeOwnedSocket.
THEOREM SocketsCorrect == Spec => []SocketsServe
<1>1. DaemonInv => SocketsServe
  <2> SUFFICES ASSUME DaemonInv PROVE SocketsServe
    OBVIOUS
  <2>1. ServingIsReachable
    BY DEF DaemonInv, SocketInv, SocketOK, ServingIsReachable
  <2>2. StaleSocketNeverBlocks
    <3>1. \A d \in Daemons : st[d] \in DaemonRecord
      BY DEF DaemonInv, StateInv
    <3> QED
      BY <3>1 DEF StaleSocketNeverBlocks, DaemonRecord
  <2> QED
    BY <2>1, <2>2 DEF SocketsServe
<1> QED
  BY <1>1, DaemonCorrect, PTL

\* Only a daemon of the runtime a ledger is bound to, or the first one,
\* changes that ledger.
LEMMA LedgerChange ==
  ASSUME DaemonInv, NEW d \in Daemons, DaemonStep(d), NEW db \in Databases,
         ledger'[db] # ledger[db]
  PROVE  /\ placed[d].database = db /\ st'[d] # st[d]
         /\ ledger[db].runtime \in {NoFile, st[d].id}
<1> DEFINE home == placed[d].database
<1>1. StateInv /\ ledger \in [Databases -> LedgerRecord] /\ home \in Databases
  BY Placed DEF DaemonInv, LedgerInv
<1>2. initialize(d) \/ BindRuntimeMetadata(d) \/ CommitRequest(d)
  BY DEF DaemonStep, Start, RefuseConfiguration, acquireRuntimeLock,
         inspectTransactionDirectoryPath, revalidateTransactionDirectorySnapshots,
         acquireProcessLock, InspectLedger, Recover,
         FindSocket, Dial, RecheckSocket, RemoveSocket, Listen, BeginRequest,
         Shutdown, removeOwnedSocket, ReleaseLocks, Exit
<1>3. CASE initialize(d)
  <2>1. home = db
    BY <1>1, <1>3 DEF initialize
  <2>2. st'[d].pc = "bind" /\ st[d].pc = "initialize"
    BY <1>1, <1>3, MoveIs, PlacesAre DEF initialize, At
  <2> QED
    BY <1>3, <2>1, <2>2 DEF DaemonInv, LedgerInv, At
<1>4. CASE BindRuntimeMetadata(d)
  <2>1. /\ MayBind(ledger[home], st[d].id, st[d].profile) /\ Move(d, "recover")
        /\ ledger' = [ledger EXCEPT ![home].runtime = st[d].id, ![home].profile = st[d].profile]
    BY <1>4 DEF BindRuntimeMetadata
  <2>2. home = db
    BY <1>1, <2>1
  <2>3. st'[d].pc = "recover" /\ st[d].pc = "bind"
    BY <1>1, <1>4, <2>1, MoveIs, PlacesAre DEF BindRuntimeMetadata, At
  <2> QED
    BY <2>1, <2>2, <2>3 DEF MayBind
<1>5. CASE CommitRequest(d)
  <2>1. /\ requireStoredRuntimeBinding(ledger[home], st[d].id, st[d].profile)
        /\ ledger' = [ledger EXCEPT ![home].history = @ \cup {<<st[d].id, st[d].profile>>}]
    BY <1>5 DEF CommitRequest
  <2>2. home = db
    BY <1>1, <2>1
  <2>3. st[d].busy /\ st' = [st EXCEPT ![d].busy = FALSE] /\ st \in [Daemons -> DaemonRecord]
    BY <1>1, <1>5 DEF CommitRequest, StateInv
  <2>4. ~st'[d].busy
    BY <2>3 DEF DaemonRecord
  <2> QED
    BY <2>1, <2>2, <2>3, <2>4 DEF requireStoredRuntimeBinding
<1> QED
  BY <1>2, <1>3, <1>4, <1>5

\* A ledger that is refused is left as it was, schema included: openSQLite
\* inspects the binding before it touches anything, and every later write
\* looks at it again.
THEOREM ForeignUntouched == Spec => ForeignLedgerUntouched
<1> DEFINE Owned == \A db \in Databases : ledger'[db] # ledger[db] =>
                      \E d \in Daemons : /\ placed[d].database = db
                                         /\ st'[d] # st[d]
                                         /\ ledger[db].runtime \in {NoFile, st[d].id}
<1>1. DaemonInv /\ [Next]_vars => [Owned]_vars
  <2> SUFFICES ASSUME DaemonInv, Next PROVE Owned
    OBVIOUS
  <2>1. CASE InitializersNext \/ Intrude
    BY <2>1 DEF InitializersNext, Intrude, daemonVars
  <2>2. ASSUME NEW d \in Daemons, DaemonStep(d) PROVE Owned
    BY <2>2, LedgerChange
  <2> QED
    BY <2>1, <2>2 DEF Next, DaemonsNext
<1> QED
  BY <1>1, DaemonCorrect, PTL DEF Spec, ForeignLedgerUntouched

=============================================================================
