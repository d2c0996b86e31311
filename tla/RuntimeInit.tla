---------------------------- MODULE RuntimeInit ----------------------------
(***************************************************************************)
(* `gatemole runtime init`: writeRuntimeInitialization registers an agent  *)
(* profile, makes sure that local state is ignored by Git and creates the  *)
(* identity of the runtime, in three files of .gatemole that no lock       *)
(* protects.  Initializers may overlap, fail between two files and roll    *)
(* back, or stop anywhere.                                                 *)
(*                                                                         *)
(* A file is the record of its inode and its content.  An initializer runs *)
(* once; running the command again is another initializer with the same    *)
(* profile.  The identity it would create is named after it.               *)
(***************************************************************************)
EXTENDS Naturals, FiniteSets

CONSTANTS
  Initializers,  \* runs of the command
  ProfileOf,     \* [Initializers -> Profiles \cup {NoProfile}]
  Profiles,      \* records [name, image] an initializer may register
  NoProfile,     \* the command without --agent
  NoFile,        \* the path does not exist
  Partial,       \* the content of a file between its creation and its write
  MaxInitCrashes \* initializers that stop half-way

Inodes == Initializers \X {"new", "restored"}
Documents == [inode : Inodes, content : {Partial} \cup SUBSET Profiles]

\* What marks an absent or unfinished file is none of the things files hold.
ASSUME InitializersAssumption ==
  /\ ProfileOf \in [Initializers -> Profiles \cup {NoProfile}]
  /\ \A q \in Profiles : DOMAIN q = {"name", "image"}
  /\ NoProfile \notin Profiles
  /\ NoFile \notin Initializers \cup Documents \cup {"lacking", "complete"}
  /\ Partial \notin Initializers \cup {NoFile}

VARIABLES
  profiles,   \* agent-profiles.json: NoFile, or its inode and content
  ignore,     \* .gatemole/.gitignore: NoFile, or whether it is complete
  identity,   \* runtime.json: NoFile, Partial, or the identity in it
  ipc,        \* ipc[p]: where initializer p is
  seen,       \* seen[p]: the profile document p read
  wrote,      \* wrote[p]: what p would have to roll back
  beside,     \* history: beside[p] were under way at some time while p was
  issued      \* history: the identities that were returned to a caller

initVars == <<profiles, ignore, identity, ipc, seen, wrote, beside, issued>>

Ended == {"idle", "done", "failed", "crashed"}
Nothing == [profile |-> "no", ignore |-> "no", inode |-> NoFile]
Document(p, version, content) ==
  [inode |-> <<p, version>>, content |-> content]

InitRuntime ==
  /\ profiles = NoFile
  /\ ignore \in {NoFile, "lacking"}
  /\ identity = NoFile
  /\ ipc = [p \in Initializers |-> "idle"]
  /\ seen = [p \in Initializers |-> NoFile]
  /\ wrote = [p \in Initializers |-> Nothing]
  /\ beside = [p \in Initializers |-> {}]
  /\ issued = {}

-----------------------------------------------------------------------------
Goto(p, where) == ipc' = [ipc EXCEPT ![p] = where]

\* The identity file is complete and Git ignores it: Load succeeds.
Loadable == identity \in Initializers /\ ignore = "complete"

\* EnsurePrivateDirectory, then a look at the identity that may be there.  Git
\* or the file system may fail here as in every later step.
BeginInit(p) ==
  /\ ipc[p] = "idle"
  /\ \/ (identity = NoFile \/ Loadable) /\ Goto(p, "profiles")
     \/ Goto(p, "failed")
  /\ LET underway == {q \in Initializers : ipc[q] \notin Ended} IN
     beside' = [q \in Initializers |->
       IF q = p THEN underway
       ELSE IF q \in underway THEN beside[q] \cup {p} ELSE beside[q]]
  /\ UNCHANGED <<profiles, ignore, identity, seen, wrote, issued>>

\* What merging p's profile into a document does.
mergeAgentProfileDocument(p, document) ==
  LET requested == ProfileOf[p] IN
  IF document = Partial THEN "refused"
  ELSE IF requested \in document THEN "unchanged"
  ELSE IF \E current \in document : current.name = requested.name THEN "refused"
  ELSE "changed"

\* The profile document is absent, fits, must be replaced or is refused.
ReadProfiles(p) ==
  /\ ipc[p] = "profiles"
  /\ IF ProfileOf[p] = NoProfile
     THEN Goto(p, "ignore") /\ UNCHANGED seen
     ELSE IF profiles = NoFile
     THEN Goto(p, "create profiles") /\ UNCHANGED seen
     ELSE /\ seen' = [seen EXCEPT ![p] = profiles]
          /\ Goto(p, CASE mergeAgentProfileDocument(p, profiles.content) = "refused"
                            -> "failed"
                       [] mergeAgentProfileDocument(p, profiles.content) = "unchanged"
                            -> "ignore"
                       [] OTHER -> "replace profiles")
  /\ UNCHANGED <<profiles, ignore, identity, wrote, beside, issued>>

\* O_CREAT|O_EXCL: the path exists but is empty until WriteProfiles.
CreateProfiles(p) ==
  /\ ipc[p] = "create profiles"
  /\ IF profiles = NoFile
     THEN profiles' = Document(p, "new", Partial) /\ Goto(p, "write profiles")
     ELSE UNCHANGED profiles /\ Goto(p, "failed")
  /\ UNCHANGED <<ignore, identity, seen, wrote, beside, issued>>

\* The write goes to the inode that was created, the Lstat after it and the
\* removal after a failure to whatever the path leads to by then.
WriteProfiles(p) ==
  /\ ipc[p] = "write profiles"
  /\ \/ /\ profiles # NoFile
        /\ profiles' = IF profiles.inode = <<p, "new">>
                       THEN Document(p, "new", {ProfileOf[p]}) ELSE profiles
        /\ wrote' = [wrote EXCEPT ![p].profile = "created",
                                  ![p].inode = profiles.inode]
        /\ Goto(p, "ignore")
     \/ profiles' = NoFile /\ UNCHANGED wrote /\ Goto(p, "failed")
  /\ UNCHANGED <<ignore, identity, seen, beside, issued>>

\* The replacement is written beside the file; then the path must still
\* lead to the inode that was read.
CheckProfiles(p) ==
  /\ ipc[p] = "replace profiles"
  /\ \/ /\ profiles # NoFile /\ profiles.inode = seen[p].inode
        /\ Goto(p, "rename profiles")
     \/ Goto(p, "failed")
  /\ UNCHANGED <<profiles, ignore, identity, seen, wrote, beside, issued>>

\* Fault variant of RenameProfiles: the merge keeps only the new profile.
RenameUnmerged(p) ==
  /\ ipc[p] = "rename profiles"
  /\ profiles' = Document(p, "new", {ProfileOf[p]})
  /\ wrote' = [wrote EXCEPT ![p].profile = "updated", ![p].inode = <<p, "new">>]
  /\ Goto(p, "ignore")
  /\ UNCHANGED <<ignore, identity, seen, beside, issued>>

RenameProfiles(p) ==
  /\ ipc[p] = "rename profiles"
  /\ profiles' = Document(p, "new", seen[p].content \cup {ProfileOf[p]})
  /\ wrote' = [wrote EXCEPT ![p].profile = "updated", ![p].inode = <<p, "new">>]
  /\ Goto(p, "ignore")
  /\ UNCHANGED <<ignore, identity, seen, beside, issued>>

\* The ignore file is created, completed or left; a failure to read or to write
\* it rolls back the profile.
WriteIgnore(p) ==
  /\ ipc[p] = "ignore"
  /\ \/ /\ ignore' = "complete"
        /\ wrote' = [wrote EXCEPT ![p].ignore =
                       CASE ignore = NoFile -> "created"
                         [] ignore = "lacking" -> "updated"
                         [] OTHER -> "no"]
        /\ Goto(p, "identity")
     \/ /\ ignore' \in {ignore} \cup (IF ignore = "lacking" THEN {"complete"} ELSE {})
        /\ Goto(p, "roll back") /\ UNCHANGED wrote
  /\ UNCHANGED <<profiles, identity, seen, beside, issued>>

Return(p, id) == Goto(p, "done") /\ issued' = issued \cup {id}

\* Fault variant of CreateIdentity: the file is opened without O_EXCL.
CreateIdentityTruncating(p) ==
  /\ ipc[p] = "create identity"
  /\ identity' = Partial /\ Goto(p, "write identity")
  /\ UNCHANGED <<profiles, ignore, seen, wrote, beside, issued>>

\* Fault variant of InspectIdentity: the size of the file is not checked.
InspectAnyIdentity(p) ==
  /\ ipc[p] = "identity"
  /\ IF identity = NoFile THEN Goto(p, "create identity") /\ UNCHANGED issued
     ELSE Return(p, identity)
  /\ UNCHANGED <<profiles, ignore, identity, seen, wrote, beside>>

\* createOrLoad: an identity that is there is loaded, and never replaced.  Git,
\* the directory or the load may fail, whatever is there.
InspectIdentity(p) ==
  /\ ipc[p] = "identity"
  /\ \/ /\ ignore = "complete" /\ identity = NoFile
        /\ Goto(p, "create identity") /\ UNCHANGED issued
     \/ Loadable /\ Return(p, identity)
     \/ Goto(p, "roll back") /\ UNCHANGED issued
  /\ UNCHANGED <<profiles, ignore, identity, seen, wrote, beside>>

\* O_CREAT|O_EXCL: who comes second loads what is there.
CreateIdentity(p) ==
  /\ ipc[p] = "create identity"
  /\ \/ /\ identity = NoFile /\ identity' = Partial
        /\ Goto(p, "write identity") /\ UNCHANGED issued
     \/ identity \in Initializers /\ Return(p, identity) /\ UNCHANGED identity
     \/ Goto(p, "roll back") /\ UNCHANGED <<identity, issued>>
  /\ UNCHANGED <<profiles, ignore, seen, wrote, beside>>

WriteIdentity(p) ==
  /\ ipc[p] = "write identity"
  /\ \/ identity' = p /\ Goto(p, "sync identity")
     \/ identity' = NoFile /\ Goto(p, "roll back")
  /\ UNCHANGED <<profiles, ignore, seen, wrote, beside, issued>>

\* Others can read the file before it is synced; if the sync fails it goes.  If
\* it cannot be loaded after that it stays, and what it needs is rolled back.
SyncIdentity(p) ==
  /\ ipc[p] = "sync identity"
  /\ \/ Return(p, p) /\ UNCHANGED identity
     \/ identity' \in {NoFile, identity} /\ Goto(p, "roll back") /\ UNCHANGED issued
  /\ UNCHANGED <<profiles, ignore, seen, wrote, beside>>

\* Fault variant of rollbackProfile: a document that was updated is removed too.
rollbackRemoving(p) ==
  IF profiles = NoFile \/ wrote[p].profile = "no" THEN profiles
  ELSE IF profiles.inode # wrote[p].inode THEN profiles ELSE NoFile

\* What rollbackProfile leaves of the profile document.
rollbackProfile(p) ==
  IF profiles = NoFile \/ wrote[p].profile = "no" THEN profiles
  ELSE IF profiles.inode # wrote[p].inode THEN profiles
  ELSE IF wrote[p].profile = "created" THEN NoFile
  ELSE Document(p, "restored", seen[p].content)

RollbackProfile(p) ==
  /\ ipc[p] = "roll back"
  /\ profiles' = rollbackProfile(p)
  /\ Goto(p, "roll back ignore")
  /\ UNCHANGED <<ignore, identity, seen, wrote, beside, issued>>

\* The ignore file is removed or overwritten by name.
RollbackIgnore(p) ==
  /\ ipc[p] = "roll back ignore"
  /\ ignore' = CASE wrote[p].ignore = "created" -> NoFile
                 [] wrote[p].ignore = "updated" -> "lacking"
                 [] OTHER -> ignore
  /\ Goto(p, "failed")
  /\ UNCHANGED <<profiles, identity, seen, wrote, beside, issued>>

CrashInit(p) ==
  /\ ipc[p] \notin Ended
  /\ Cardinality({q \in Initializers : ipc[q] = "crashed"}) < MaxInitCrashes
  /\ Goto(p, "crashed")
  /\ UNCHANGED <<profiles, ignore, identity, seen, wrote, beside, issued>>

InitializerStep(p) ==
  \/ BeginInit(p) \/ ReadProfiles(p) \/ CreateProfiles(p) \/ WriteProfiles(p)
  \/ CheckProfiles(p) \/ RenameProfiles(p) \/ WriteIgnore(p)
  \/ InspectIdentity(p) \/ CreateIdentity(p) \/ WriteIdentity(p) \/ SyncIdentity(p)
  \/ RollbackProfile(p) \/ RollbackIgnore(p) \/ CrashInit(p)

-----------------------------------------------------------------------------
(* Properties *)

\* A command that undoes what it did, or stopped half-way.
Failing == {"roll back", "roll back ignore", "failed", "crashed"}

\* An identity that was given to a command or to a daemon stays the one of the
\* runtime (createOrLoad never replaces one): callers get different ones only
\* if the command that created one of them failed.
IdentityAgreement == \A id \in issued : id = identity \/ ipc[id] \in Failing

Registered(p) ==
  ProfileOf[p] # NoProfile => profiles # NoFile /\ ProfileOf[p] \in profiles.content

\* What a command that succeeded has written stays and can be loaded, whatever
\* later commands fail at, roll back or leave half done, alone or beside each
\* other.  Of those that overlapped with it only one that fails can take the
\* identity back or have Git notice it, and only one that registers a profile
\* can lose the profile.
InitializationLasts ==
  \A p \in Initializers : ipc[p] = "done" =>
    /\ (\A q \in beside[p] : ipc[q] \notin Failing) => Loadable
    /\ (\A q \in beside[p] : ProfileOf[q] = NoProfile) => Registered(p)

=============================================================================
