--------------------------- MODULE MCDaemonStart ---------------------------
(***************************************************************************)
(* Three initializers of one repository that register different profiles:  *)
(* two may replace a document that is there.  Two daemons given one        *)
(* socket, both of that repository with one or two databases, or of two    *)
(* repositories with one database.  All interleavings of the initializers  *)
(* are explored while no daemon runs, and all of the daemons with the last *)
(* steps of two initializers, which decide what identity a daemon finds.   *)
(***************************************************************************)
EXTENDS DaemonStart

CONSTANTS p1, p2, p3, a, b

MCInitializers == {p1, p2, p3}
MCProfiles == {[name |-> "coder", image |-> "one"], [name |-> "tester", image |-> "two"],
               [name |-> "reviewer", image |-> "one"]}
MCProfileOf == p1 :> [name |-> "coder", image |-> "one"]
            @@ p2 :> [name |-> "tester", image |-> "two"] @@ p3 :> [name |-> "reviewer", image |-> "one"]
MCDaemons == {a, b}
On(repo, db) == [repository |-> repo, database |-> db]
MCPlacements == {a :> On("home", "db") @@ b :> On("home", "db"),
                 a :> On("home", "db") @@ b :> On("home", "spare"),
                 a :> On("home", "db") @@ b :> On("other", "db")}
MCSocketOf == a :> "socket" @@ b :> "socket"

VARIABLE focus \* what is explored: "initializers" alone, or "daemons" beside them
mcVars == <<vars, focus>>

\* Initialization has got as far as the identity: all profiles are there, p1
\* has written its identity and not synced it, or it crashed on the way, and
\* p2 has still to look; p3 failed at once.
AlmostInitialized ==
  /\ profiles = Document(p1, "new", Profiles)
  /\ ipc \in {p1 :> pc @@ p2 :> "identity" @@ p3 :> "failed" : pc \in {"sync identity", "crashed"}}
  /\ \/ identity = p1 /\ ignore = "complete" /\ ipc[p1] = "sync identity"
     \/ identity = Partial /\ ignore = "complete" /\ ipc[p1] = "crashed"
     \/ identity = p1 /\ ignore = "lacking" /\ ipc[p1] = "crashed"
  /\ beside = p1 :> {p2} @@ p2 :> {p1} @@ p3 :> {} /\ issued = {}
  /\ seen = [p \in Initializers |-> NoFile]
  /\ wrote = [p \in Initializers |-> Nothing]

MCInit ==
  \/ /\ focus = "initializers" /\ Init /\ base = "open"
     /\ placed = a :> On("home", "db") @@ b :> On("home", "db")
     /\ ledger["db"] = NoLedger /\ socket["socket"] = NoFile
  \/ focus = "daemons" /\ AlmostInitialized /\ InitDaemons

\* Beside daemons an initializer that crashes is one that takes no more steps, and
\* one that fails has nothing to roll back: neither is explored a second time.
MCNext ==
  \/ focus = "initializers" /\ InitializersNext /\ UNCHANGED focus
  \/ /\ focus = "daemons" /\ Next /\ UNCHANGED focus
     /\ \A p \in Initializers :
          ipc'[p] # ipc[p] => ipc'[p] \notin {"crashed", "roll back ignore"}

MCSpec == MCInit /\ [][MCNext]_mcVars

=============================================================================
