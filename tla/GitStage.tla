------------------------------ MODULE GitStage ------------------------------
(***************************************************************************)
(* The Git worktree of one transaction: gitstage.Manager creates it, turns *)
(* it into an immutable tree and the effects that lead there from the base *)
(* revision, materializes that tree for verifiers and commits it.          *)
(*                                                                         *)
(* The lock "transaction:<id>" admits one handler at a time, but an        *)
(* inspection reads the worktree path by path, and whoever still writes    *)
(* there does so between any two reads.  Handlers stop half way: a git     *)
(* command fails, the client goes away, the daemon dies.                   *)
(*                                                                         *)
(* A path is the sequence of its names.  What is at a path is its mode,    *)
(* its size, which stands for the content too, and the target of a link.   *)
(* Digests stand for what they are computed from.                          *)
(***************************************************************************)
EXTENDS Integers, FiniteSets, SequencesExt

CONSTANTS
  Paths,                \* the paths that may exist, as sequences of names
  Order,                \* the same paths in the order Git lists them
  Entries,              \* what the writer may put at a path
  BaseTrees,            \* the trees the base revision may have
  MaxChangedFiles, MaxFileBytes, MaxTotalChangedBytes, \* the limits
  MaxEdits, MaxTroubles, MaxAttempts                   \* bounds

Absent == [mode |-> "absent", size |-> 0, to |-> <<>>]
Regular == {"100644", "100755"}
Link == "120000"
effectMode == Regular \cup {Link}   \* a fifo or a device is neither

Present(tree) == {p \in Paths : tree[p] # Absent}
Clash(p, q) == IsStrictPrefix(p, q) \/ IsStrictPrefix(q, p)
WellFormed(tree) == \A p, q \in Present(tree) : ~Clash(p, q)

\* A tree of Git has a file, a link or nothing at a path, and no file lies
\* under another.
ASSUME StageAssumption ==
  /\ Order \in Seq(Paths) /\ ToSet(Order) = Paths
  /\ Absent \in Entries
  /\ \A e \in Entries : e.size \in Nat /\ (e.mode = "absent" => e = Absent)
  /\ BaseTrees \subseteq [Paths -> Entries]
  /\ \A base \in BaseTrees :
       WellFormed(base) /\ \A p \in Paths : base[p].mode \in effectMode \cup {"absent"}
  /\ {MaxChangedFiles, MaxFileBytes, MaxTotalChangedBytes, MaxAttempts} \subseteq Nat \ {0}

VARIABLES
  base,      \* the tree of the base revision
  work,      \* the files in the worktree
  ignored,   \* the paths its ignore rules match
  head,      \* HEAD of the worktree: "base" or "moved"
  dir,       \* "none", "partial" or "ready": the registered worktree
  bound,     \* the ledger holds the stage binding
  op, at,    \* the handler at work and where it is
  round,     \* its first or second inspection
  scan,      \* the inspection under way
  snapshot,  \* what the last one returned
  mounted,   \* the tree materialized for a verifier
  frozen,    \* the snapshot in the ledger
  reviewed,  \* diffs of it that were shown
  verified,  \* trees that verification results of it are about
  commit,    \* the tree PrepareCommit committed for it
  attempt, edits, troubles

handler == <<op, at, round, scan, snapshot>>
ledger == <<bound, frozen, reviewed, verified, commit, attempt>>
files == <<base, work, ignored, head, dir>>
vars == <<files, handler, mounted, ledger, edits, troubles>>

NoTree == [p \in Paths |-> Absent]
NoSnapshot == [tree |-> NoTree, effects |-> {}]
NoScan == [todo |-> {}, changes |-> {}, index |-> NoTree, used |-> 0, quiet |-> TRUE]

First(S) == Order[CHOOSE i \in DOMAIN Order :
                    Order[i] \in S /\ \A j \in 1..(i - 1) : Order[j] \notin S]

\* Placing a file where a directory is, or below a file, replaces that; so
\* does update-index --index-info.
Put(tree, p, entry) ==
  [q \in Paths |-> IF q = p THEN entry
                   ELSE IF entry # Absent /\ Clash(p, q) THEN Absent ELSE tree[q]]

Init ==
  /\ base \in BaseTrees /\ work = NoTree /\ ignored = {}
  /\ head = "base" /\ dir = "none"
  /\ op = "none" /\ at = "idle" /\ round = 1 /\ scan = NoScan /\ snapshot = NoSnapshot
  /\ mounted = NoTree
  /\ bound = FALSE /\ frozen = NoSnapshot /\ reviewed = {} /\ verified = {}
  /\ commit = NoTree /\ attempt = 1
  /\ edits = 0 /\ troubles = 0

Trouble == troubles < MaxTroubles /\ troubles' = troubles + 1

\* The handler answers.
Answer == /\ op' = "none" /\ at' = "idle" /\ round' = 1
          /\ scan' = NoScan /\ snapshot' = NoSnapshot

Fail == Answer /\ UNCHANGED <<files, mounted, ledger, edits>>
Refuse == Fail /\ UNCHANGED troubles

-----------------------------------------------------------------------------
(* createTransactionWorktree *)

Create ==
  /\ at = "idle" /\ ~bound
  /\ dir = "none"           \* "transaction workspace already exists"
  /\ dir' = "partial" /\ op' = "create" /\ at' = "fill"
  /\ UNCHANGED <<base, work, ignored, head, round, scan, snapshot, mounted, ledger, edits, troubles>>

\* materializeTreeFiles writes the blobs, then the links, all or some.
materializeTreeFiles(tree, placed) ==
  \E S \in SUBSET Present(tree) :
    /\ (\E p \in S : tree[p].mode = Link) => \A p \in Present(tree) : tree[p].mode = Link \/ p \in S
    /\ placed = [p \in Paths |-> IF p \in S THEN tree[p] ELSE Absent]

FillWorktree ==
  /\ op = "create" /\ at = "fill"
  /\ work' = base /\ dir' = "ready" /\ at' = "bind"
  /\ UNCHANGED <<base, ignored, head, op, round, scan, snapshot, mounted, ledger, edits, troubles>>

\* Fault variant of FillFails: the worktree is handed out as far as it got.
FillFailsUnnoticed ==
  /\ op = "create" /\ at = "fill" /\ Trouble
  /\ materializeTreeFiles(base, work')
  /\ dir' = "ready" /\ at' = "bind"
  /\ UNCHANGED <<base, ignored, head, op, round, scan, snapshot, mounted, ledger, edits>>

\* A blob cannot be written: the worktree is removed again, by git under the
\* same context, which may fail as well.
FillFails ==
  /\ op = "create" /\ at = "fill" /\ Trouble /\ Answer
  /\ \/ dir' = "none" /\ work' = NoTree
     \/ dir' = dir /\ materializeTreeFiles(base, work')
  /\ UNCHANGED <<base, ignored, head, mounted, ledger, edits>>

\* The binding is appended, or Discard is tried and its outcome ignored.
Bind ==
  /\ op = "create" /\ at = "bind" /\ Answer
  /\ \/ bound' = TRUE /\ UNCHANGED <<work, dir, troubles>>
     \/ /\ Trouble /\ UNCHANGED bound
        /\ \/ dir' = "none" /\ work' = NoTree
           \/ UNCHANGED <<dir, work>>
  /\ UNCHANGED <<base, ignored, head, mounted, frozen, reviewed, verified, commit, attempt, edits>>

-----------------------------------------------------------------------------
(* Inspect *)

\* Lstat below an os.Root: the links on the way to a path are followed.
Lstat(tree, p) ==
  LET links == {q \in Paths : IsStrictPrefix(q, p) /\ tree[q].mode = Link}
      q == CHOOSE q \in links : TRUE
      target == tree[q].to \o SubSeq(p, Len(q) + 1, Len(p))
  IN IF links = {} THEN tree[p]
     ELSE IF target \in Paths THEN tree[target] ELSE Absent

\* Fault variant of consumeFile: only each file is compared with its limit.
consumeEach(used, size) == size <= MaxFileBytes

consumeFile(used, size) ==
  size <= MaxFileBytes /\ size <= MaxTotalChangedBytes - used

\* A handler reads the ledger and asks for an inspection.
Begin(handlerOp) ==
  /\ at = "idle" /\ bound /\ commit = NoTree
  /\ CASE handlerOp = "stage" -> frozen = NoSnapshot
       [] OTHER -> frozen # NoSnapshot
  /\ op' = handlerOp /\ at' = "validate" /\ round' = 1
  /\ UNCHANGED <<files, scan, snapshot, mounted, ledger, edits, troubles>>

validateWorkspace == dir = "ready" /\ head = "base"

Validate ==
  /\ at = "validate"
  /\ IF validateWorkspace
     THEN /\ at' = "compare" /\ scan' = [NoScan EXCEPT !.todo = Present(base)]
          /\ UNCHANGED <<files, op, round, snapshot, mounted, ledger, edits, troubles>>
     ELSE Refuse

Scanning(where) == at = where /\ UNCHANGED <<files, op, round, mounted, ledger, edits, troubles>>
Go(where) == at' = where /\ UNCHANGED snapshot

\* Fault variant of rootedFileIdentity: the mode is not compared.
rootedFileContent(p) == [Lstat(work, p) EXCEPT !.mode = base[p].mode]

rootedFileIdentity(p) == Lstat(work, p)

Change(p, operation) == [path |-> p, operation |-> operation]

\* rawWorktreeChanges: each path of the base is compared with the worktree.
CompareTracked ==
  /\ at = "compare" /\ scan.todo # {}
  /\ LET p == First(scan.todo)
         found == IF Lstat(work, p) = Absent THEN Absent ELSE rootedFileIdentity(p)
         changes == IF found = Absent THEN scan.changes \cup {Change(p, "delete")}
                    ELSE IF found # base[p] THEN scan.changes \cup {Change(p, "modify")}
                    ELSE scan.changes
     IN IF found.mode \in effectMode \cup {"absent"} /\ Cardinality(changes) <= MaxChangedFiles
        THEN /\ Scanning("compare") /\ Go("compare")
             /\ scan' = [scan EXCEPT !.todo = @ \ {p}, !.changes = changes]
        ELSE Refuse

\* ls-files --others: what the base does not hold and no rule ignores.
ListUntracked ==
  /\ at = "compare" /\ scan.todo = {}
  /\ LET others == {p \in Paths : work[p].mode \in effectMode /\ base[p] = Absent /\ p \notin ignored}
         changes == scan.changes \cup {Change(p, "add") : p \in others}
     IN IF Cardinality(changes) <= MaxChangedFiles
        THEN /\ Scanning("compare") /\ Go("size")
             /\ scan' = [scan EXCEPT !.changes = changes, !.todo = {c.path : c \in changes}]
        ELSE Refuse

Operation(p) == (CHOOSE c \in scan.changes : c.path = p).operation

\* preflightWorktree adds up the sizes before anything is read.
Preflight ==
  /\ at = "size" /\ scan.todo # {}
  /\ LET p == First(scan.todo)
         found == Lstat(work, p)
         after == IF Operation(p) = "delete" THEN 0 ELSE found.size
     IN IF /\ Operation(p) = "delete" \/ found.mode \in effectMode
           /\ consumeFile(scan.used, base[p].size)
           /\ consumeFile(scan.used + base[p].size, after)
        THEN /\ Scanning("size") /\ Go("size")
             /\ scan' = [scan EXCEPT !.todo = @ \ {p}, !.used = @ + base[p].size + after]
        ELSE Refuse

\* materializeTree: a private index starts with the base, without what was
\* deleted; the sizes before the changes are counted first.
StartIndex ==
  /\ at = "size" /\ scan.todo = {}
  /\ LET deleted == {c.path : c \in {d \in scan.changes : d.operation = "delete"}}
         changed == {c.path : c \in scan.changes}
     IN scan' = [scan EXCEPT !.todo = changed \ deleted,
                  !.index = [p \in Paths |-> IF p \in deleted THEN Absent ELSE base[p]],
                  !.used = SumFunctionOnSet([p \in Paths |-> base[p].size], changed)]
  /\ Scanning("size") /\ Go("read")

\* Fault variant of ReadContent: the size found before is relied upon.
ReadUnmeasured ==
  /\ at = "read" /\ scan.todo # {}
  /\ LET p == First(scan.todo)
         found == Lstat(work, p)
     IN IF found.mode \in effectMode
        THEN /\ Scanning("read") /\ Go("read")
             /\ scan' = [scan EXCEPT !.todo = @ \ {p}, !.index = Put(@, p, found)]
        ELSE Refuse

\* readRootedContent; the file may have grown since it was sized.
ReadContent ==
  /\ at = "read" /\ scan.todo # {}
  /\ LET p == First(scan.todo)
         found == Lstat(work, p)
     IN IF found.mode \in effectMode /\ consumeFile(scan.used, found.size)
        THEN /\ Scanning("read") /\ Go("read")
             /\ scan' = [scan EXCEPT !.todo = @ \ {p}, !.used = @ + found.size,
                                     !.index = Put(@, p, found)]
        ELSE Refuse

\* What git diff says of two trees: the effects, with what was there before
\* and what is staged.
Diff(from, to) ==
  {[path |-> p, before |-> from[p], after |-> to[p]] : p \in {q \in Paths : from[q] # to[q]}}

Bytes(effects) == SumFunction([e \in effects |-> e.before.size + e.after.size])

\* Fault variant of effectsOf: effects are taken from the walk of the worktree.
effectsOfWalk(tree) ==
  {[path |-> c.path, before |-> base[c.path], after |-> tree[c.path]] : c \in scan.changes}

effectsOf(tree) == Diff(base, tree)

\* write-tree; changes, effectForChange and the patch come from the tree.
Derive ==
  /\ at = "read" /\ scan.todo = {}
  /\ LET effects == effectsOf(scan.index)
     IN IF /\ Cardinality(effects) <= MaxChangedFiles
           /\ \A e \in effects : {e.before.size, e.after.size} \subseteq 0..MaxFileBytes
           /\ Bytes(effects) <= MaxTotalChangedBytes
        THEN /\ Scanning("read") /\ at' = "inspected"
             /\ snapshot' = [tree |-> scan.index, effects |-> effects]
             /\ UNCHANGED scan
        ELSE Refuse

\* A git command fails or the client goes away.
InspectFails ==
  /\ at \in {"validate", "compare", "size", "read"} /\ Trouble /\ Fail

-----------------------------------------------------------------------------
(* What the handlers do with a snapshot *)

Inspected(handlerOp, n) == op = handlerOp /\ at = "inspected" /\ round = n

matchesFrozenStage == snapshot = frozen

InspectAgain ==
  /\ at' = "validate" /\ round' = 2 /\ scan' = NoScan /\ UNCHANGED <<op, snapshot>>

\* stageTransaction freezes it; without effects there is nothing to freeze.
stageTransaction ==
  /\ Inspected("stage", 1) /\ Answer
  /\ frozen' = IF snapshot.effects = {} THEN frozen ELSE snapshot
  /\ UNCHANGED <<files, mounted, bound, reviewed, verified, commit, attempt, edits, troubles>>

\* getTransactionDiff shows the patch from the base to the frozen tree.
getTransactionDiff ==
  /\ Inspected("review", 1)
  /\ IF matchesFrozenStage
     THEN /\ Answer /\ reviewed' = reviewed \cup {Diff(base, snapshot.tree)}
          /\ UNCHANGED <<files, mounted, bound, frozen, verified, commit, attempt, edits, troubles>>
     ELSE Refuse

\* Fault variant of MaterializeSnapshot: the verifier sees the worktree.
MountWorktree ==
  /\ Inspected("verify", 1)
  /\ IF matchesFrozenStage
     THEN /\ mounted' = work /\ at' = "running"
          /\ UNCHANGED <<files, op, round, scan, snapshot, ledger, edits, troubles>>
     ELSE Refuse

MaterializeSnapshot ==
  /\ Inspected("verify", 1)
  /\ IF matchesFrozenStage
     THEN \/ /\ mounted' = snapshot.tree /\ at' = "running"
             /\ UNCHANGED <<files, op, round, scan, snapshot, ledger, edits, troubles>>
          \/ /\ Trouble /\ Answer   \* what was written is removed, if possible
             /\ \/ mounted' = NoTree
                \/ materializeTreeFiles(snapshot.tree, mounted')
             /\ UNCHANGED <<files, ledger, edits>>
     ELSE Refuse

\* The verifier has run; the directory is removed before anything is recorded.
removeMaterializedTree ==
  /\ op = "verify" /\ at = "running"
  /\ \/ /\ mounted' = NoTree /\ InspectAgain
        /\ scan' = NoScan /\ UNCHANGED <<files, ledger, edits, troubles>>
     \/ /\ Trouble /\ Answer /\ mounted' \in {mounted, NoTree}
        /\ UNCHANGED <<files, ledger, edits>>

recordVerification ==
  /\ Inspected("verify", 2)
  /\ IF matchesFrozenStage
     THEN /\ Answer /\ verified' = verified \cup {snapshot.tree}
          /\ UNCHANGED <<files, mounted, bound, frozen, reviewed, commit, attempt, edits, troubles>>
     ELSE Refuse

\* releaseTransaction inspects, then PrepareCommit does so again.
releaseTransaction ==
  /\ Inspected("release", 1)
  /\ IF matchesFrozenStage
     THEN InspectAgain /\ UNCHANGED <<files, mounted, ledger, edits, troubles>>
     ELSE Refuse

\* Fault variant of PrepareCommit: the first inspection is relied upon.
PrepareCurrent ==
  /\ Inspected("release", 2)
  /\ Answer /\ commit' = snapshot.tree
  /\ UNCHANGED <<files, mounted, bound, frozen, reviewed, verified, attempt, edits, troubles>>

\* commit-tree of the tree whose staged-state digest the plan names.
PrepareCommit ==
  /\ Inspected("release", 2)
  /\ IF snapshot.tree = frozen.tree
     THEN /\ Answer /\ commit' = snapshot.tree
          /\ UNCHANGED <<files, mounted, bound, frozen, reviewed, verified, attempt, edits, troubles>>
     ELSE Refuse

\* A new attempt of the transaction forgets what was frozen.
Revise ==
  /\ at = "idle" /\ frozen # NoSnapshot /\ commit = NoTree /\ attempt < MaxAttempts
  /\ attempt' = attempt + 1 /\ frozen' = NoSnapshot /\ reviewed' = {} /\ verified' = {}
  /\ UNCHANGED <<files, handler, mounted, bound, commit, edits, troubles>>

\* abortTransaction: Discard removes the worktree if it is still the one that
\* was created; otherwise it stays, with a warning.
Discard ==
  /\ at = "idle" /\ bound /\ commit = NoTree /\ validateWorkspace
  /\ dir' = "none" /\ work' = NoTree
  /\ UNCHANGED <<base, ignored, head, handler, mounted, ledger, edits, troubles>>

\* The daemon dies.
Crash ==
  /\ at # "idle" /\ Trouble /\ Answer
  /\ UNCHANGED <<files, mounted, ledger, edits>>

-----------------------------------------------------------------------------
(* The agent, or a process it left behind *)

Written == dir = "ready" /\ bound /\ edits < MaxEdits /\ edits' = edits + 1
Noticed == /\ scan' = [scan EXCEPT !.quiet = FALSE]
           /\ UNCHANGED <<op, at, round, snapshot>>

Edit(p, entry) ==
  /\ Written /\ Noticed
  /\ work[p] # entry /\ work' = Put(work, p, entry)
  /\ UNCHANGED <<base, ignored, head, dir, mounted, ledger, troubles>>

Ignore(p) ==
  /\ Written /\ Noticed
  /\ p \notin ignored /\ ignored' = ignored \cup {p}
  /\ UNCHANGED <<base, work, head, dir, mounted, ledger, troubles>>

MoveHead ==
  /\ Written /\ Noticed
  /\ head = "base" /\ head' = "moved"
  /\ UNCHANGED <<base, work, ignored, dir, mounted, ledger, troubles>>

Writer ==
  \/ \E p \in Paths, entry \in Entries : Edit(p, entry)
  \/ \E p \in Paths : Ignore(p)
  \/ MoveHead

Inspect ==
  \/ Validate \/ CompareTracked \/ ListUntracked \/ Preflight
  \/ StartIndex \/ ReadContent \/ Derive \/ InspectFails

Next ==
  \/ Create \/ FillWorktree \/ FillFails \/ Bind
  \/ \E handlerOp \in {"stage", "review", "verify", "release"} : Begin(handlerOp)
  \/ Inspect
  \/ stageTransaction \/ getTransactionDiff
  \/ MaterializeSnapshot \/ removeMaterializedTree \/ recordVerification
  \/ releaseTransaction \/ PrepareCommit
  \/ Revise \/ Discard \/ Crash
  \/ Writer

Spec == Init /\ [][Next]_vars

-----------------------------------------------------------------------------
(* Properties *)

\* Every variable stays in its type, and trees are trees: no file lies under
\* another.
TypeOK ==
  /\ WellFormed(base) /\ WellFormed(work) /\ WellFormed(snapshot.tree)
  /\ dir \in {"none", "partial", "ready"}
  /\ scan.todo \subseteq Paths /\ scan.used \in 0..MaxTotalChangedBytes
  /\ attempt \in 1..MaxAttempts

\* The binding is recorded for a complete worktree only: before the agent has
\* written anything it holds the base revision.
BoundWorktreeComplete ==
  bound /\ edits = 0 /\ dir # "none" => work = base /\ dir = "ready"

\* However the worktree changed while it was read, the frozen effects lead
\* from the base to the frozen tree, no more and no less, within the limits.
EffectsExact ==
  frozen # NoSnapshot =>
    /\ \A p \in Paths :
         LET about == {e \in frozen.effects : e.path = p}
         IN IF about = {} THEN frozen.tree[p] = base[p]
            ELSE \A e \in about : e.before = base[p] /\ e.after = frozen.tree[p]
    /\ Cardinality(frozen.effects) <= MaxChangedFiles
    /\ Bytes(frozen.effects) <= MaxTotalChangedBytes

\* An inspection holds no more content than the limit, though files grow
\* after they were measured.
ContentBounded ==
  at = "read" => LET read == {c.path : c \in scan.changes} \ scan.todo
                 IN SumFunctionOnSet([p \in Paths |-> base[p].size + scan.index[p].size], read)
                      <= MaxTotalChangedBytes

\* A link stands where the base has a directory.
LinkedDirectory ==
  \E p \in Present(base), q \in Paths : IsStrictPrefix(q, p) /\ work[q].mode = Link

\* The part of the worktree that can become effects.
Stageable ==
  [p \in Paths |-> IF base[p] # Absent \/ (work[p].mode \in effectMode /\ p \notin ignored)
                   THEN work[p] ELSE Absent]

\* If nobody writes meanwhile, the snapshot is the worktree: every change of
\* content, mode or kind of a path, ignored or not if it is tracked.
QuietSnapshotExact ==
  at = "inspected" /\ scan.quiet /\ ~LinkedDirectory => snapshot.tree = Stageable

\* What was shown to reviewers and what verifiers saw is the frozen tree.
EvidenceIsFrozen ==
  /\ reviewed \subseteq {frozen.effects} /\ verified \subseteq {frozen.tree}
  /\ at = "running" => mounted = frozen.tree

\* The tree that is committed is the frozen one, although the worktree may
\* change after every check of it.
CommitIsFrozen == commit # NoTree => commit = frozen.tree

\* Symlinks are recorded as links: a quiet worktree's links are in the
\* snapshot.
LinksRecorded ==
  at = "inspected" /\ scan.quiet =>
    \A p \in Paths : work[p].mode = Link /\ p \notin ignored => snapshot.tree[p] = work[p]

\* An inspection stays within its limits, finds the worktree as it is if it is
\* left alone, and what is frozen of it has exactly the effects it lists.
SnapshotInv == TypeOK /\ EffectsExact /\ ContentBounded /\ QuietSnapshotExact

\* After staging everything rests on the frozen tree: what reviewers and
\* verifiers see, and what is committed.
FrozenThroughout == EvidenceIsFrozen /\ CommitIsFrozen

=============================================================================
