------------------------------ MODULE MCStores ------------------------------
(* Instances of the components of noloong-agent that keep what outlives a  *)
(* call: session records, live sessions, their manifests and goals, files  *)
(* that tools edit, and the tokens of noloong-openai.                      *)
(* They share no state: a behaviour is one of one component, `part`, and   *)
(* the variables of the others are left alone.                             *)
EXTENDS SessionRegistry

CONSTANTS
  Requests,     \* requests that take their token from one store
  OneProcess,   \* whether one process makes them all
  WithKeyring,  \* whether the store is the keyring, then the file
  MaxTokens,    \* bound: tokens the service gives out
  MaxAuthFaults, \* bound: failing calls, lost answers and crashes
  Editors, LongEditors, PathOf, Aliases,
  MaxEditFaults,  \* of FileEdit
  Additions, McpPlugins, ExtPlugins, SkillPlugins, ApplyCalls, HasInputLimit,
  MaxProposals  \* of Manifest

(* The mark of a lock that nobody holds is no request.                     *)
ASSUME RequestsAssumption == "free" \notin Requests

(* The mark of an operation that names one file is no name.                *)
ASSUME NamesAssumption == "no name" \notin DOMAIN PathOf

TwoFiles == [n \in {"a", "./a", "b"} |-> IF n = "b" THEN 2 ELSE 1]

VARIABLES
  part,        (* what this behaviour is one of *)
  files, edit, pc, arcs, held, lockMap, fresh, staged, outcome, seen, wrote, editFaults,
  backend, record, index, markers, storeTask, storeFaults, taken,
  live, manifStored, pending, approved, recorded, made, manifCalls, runtime, applied,
  manifSaved, reported, failed, refused,
  goal, run, steered, client, goalCalls, turns, audited, untouched,
  keyring, file, service, expired, lock, authTask, login, logout, authFaults, reused, authSaved,
  overlap

(* Edits of files, some of which have two names.                           *)
Edit == INSTANCE FileEdit WITH MaxFaults <- MaxEditFaults, faults <- editFaults

(* Two tasks create, save, list or delete one session; one call fails or   *)
(* the process dies.                                                       *)
Store == INSTANCE SessionStore WITH Labels <- {"l1"}, Tasks <- {"t1", "t2"}, MaxSaves <- 2,
    MaxFaults <- 1, task <- storeTask, faults <- storeFaults

(* Proposals and overlapping calls that apply them.                        *)
Manif == INSTANCE Manifest WITH Calls <- ApplyCalls, stored <- manifStored,
    calls <- manifCalls, saved <- manifSaved

(* Two runs of up to five turns, and three calls that change the goal. *)
Goal == INSTANCE Goals WITH MaxTurns <- 5, MaxRuns <- 2, MaxCalls <- 3, Overlapping <- FALSE,
    calls <- goalCalls

(* Requests, a login and a logout beside them.                             *)
Auth == INSTANCE ChatGptAuth WITH Tasks <- Requests, Auto <- WithKeyring,
    MaxFaults <- MaxAuthFaults, task <- authTask, faults <- authFaults, saved <- authSaved

editVars == <<files, edit, pc, arcs, held, lockMap, fresh, staged, outcome, seen, wrote,
              editFaults>>
storeVars == <<backend, record, index, markers, storeTask, storeFaults, taken>>
manifestVars == <<live, manifStored, pending, approved, recorded, made, manifCalls, runtime,
                  applied, manifSaved, reported, failed, refused>>
goalVars == <<goal, run, steered, client, goalCalls, turns, audited, untouched>>
authVars == <<keyring, file, service, expired, lock, authTask, login, logout, authFaults,
              reused, authSaved, overlap>>

(* What the variables of the other components hold. *)
Off == "off"
RegistryOff == Init /\ stored = None
EditOff == files = Off /\ edit = Off /\ pc = Off /\ arcs = Off /\ held = Off /\ lockMap = Off /\
           fresh = Off /\ staged = Off /\ outcome = Off /\ seen = Off /\ wrote = Off /\
           editFaults = Off
StoreOff == backend = Off /\ record = Off /\ index = Off /\ markers = Off /\ storeTask = Off /\
            storeFaults = Off /\ taken = Off
ManifestOff == live = Off /\ manifStored = Off /\ pending = Off /\ approved = Off /\
               recorded = Off /\ made = Off /\ manifCalls = Off /\ runtime = Off /\
               applied = Off /\ manifSaved = Off /\ reported = Off /\ failed = Off /\
               refused = Off
GoalOff == goal = Off /\ run = Off /\ steered = Off /\ client = Off /\ goalCalls = Off /\
           turns = Off /\ audited = Off /\ untouched = Off
AuthOff == keyring = Off /\ file = Off /\ service = Off /\ expired = Off /\ lock = Off /\
           authTask = Off /\ login = Off /\ logout = Off /\ authFaults = Off /\ reused = Off /\
           authSaved = Off /\ overlap = Off

MCInit ==
  \/ part = "registry" /\ Init /\ EditOff /\ StoreOff /\ ManifestOff /\ GoalOff /\ AuthOff
  \/ part = "edit" /\ Edit!Init /\ RegistryOff /\ StoreOff /\ ManifestOff /\ GoalOff /\ AuthOff
  \/ part = "store" /\ Store!Init /\ RegistryOff /\ EditOff /\ ManifestOff /\ GoalOff /\ AuthOff
  \/ part = "manifest" /\ Manif!Init /\ RegistryOff /\ EditOff /\ StoreOff /\ GoalOff /\ AuthOff
  \/ part = "goal" /\ Goal!Init /\ RegistryOff /\ EditOff /\ StoreOff /\ ManifestOff /\ AuthOff
  \/ part = "auth" /\ Auth!Init /\ RegistryOff /\ EditOff /\ StoreOff /\ ManifestOff /\ GoalOff

MCNext ==
  \/ part = "registry" /\ Next /\ UNCHANGED <<part, editVars, storeVars, manifestVars, goalVars,
     authVars>>
  \/ part = "edit" /\ Edit!Next /\ UNCHANGED <<part, vars, storeVars, manifestVars, goalVars,
     authVars>>
  \/ part = "store" /\ Store!Next /\ UNCHANGED <<part, vars, editVars, manifestVars, goalVars,
     authVars>>
  \/ part = "manifest" /\ Manif!Next /\ UNCHANGED <<part, vars, editVars, storeVars, goalVars,
     authVars>>
  \/ part = "goal" /\ Goal!Next /\ UNCHANGED <<part, vars, editVars, storeVars, manifestVars,
     authVars>>
  \/ part = "auth" /\ Auth!Next /\ UNCHANGED <<part, vars, editVars, storeVars, manifestVars,
     goalVars>>

mcVars == <<part, vars, editVars, storeVars, manifestVars, goalVars, authVars>>

MCSpec == MCInit /\ [][MCNext]_mcVars

-----------------------------------------------------------------------------
(* A stored session is never missing from an unfiltered list once the      *)
(* store is at rest, however inserts, saves, removals and lists overlapped *)
(* and one of their calls failed or the process died: the index entry is   *)
(* written before the record, and the handlers of a failure put it back.   *)
(* Except when what took the entry last was a list's repair, a removal or  *)
(* a failed insert that overlapped another call (a list that saw the entry *)
(* and not yet the record removes what an insert has just written,         *)
(* object.rs:626), or a list's repair that failed itself.                  *)
StoredIsListed == part = "store" => Store!StoredIsListed

(* A proposal is pending, approved or dealt with, never two of these and   *)
(* never none, until a call that applies them fails (the queue of          *)
(* proposals and apply_approved_manifest_patches).                         *)
ProposalInOnePlace == part = "manifest" => Manif!ProposalInOnePlace

(* A pursued goal never keeps a run going by itself: in a turn that is     *)
(* owed to an audit message alone no other audit is asked for, unless a    *)
(* client changed the goal since (the pending flag of the audit listener). *)
AuditsDoNotChain ==
  [][(part = "goal" /\ Goal!AuditListener /\ audited /\ untouched) => steered' = steered]_mcVars

(* A file that an edit is about to write still is what the edit read: two  *)
(* edits of one path, however it is spelled, never work from the same      *)
(* text, so none loses the other's change (the locks of lock_paths, kept   *)
(* from before the first read to after the last write).                    *)
EditsKeepEachOther == part = "edit" => Edit!NoLostUpdate

(* refresh_loaded_token: while no call fails and no logout overlaps, one   *)
(* process never presents a refresh token that was used, however many of   *)
(* its requests find their token expired or are answered 401 at the same   *)
(* time and whatever logins come between, and whenever none of them is     *)
(* refreshing, the refresh token that is stored is good.                   *)
RefreshedOnce == part = "auth" => Auth!RefreshedOnce

-----------------------------------------------------------------------------
(* Statements of the documents and tests that the code does not keep: each *)
(* is violated when it is named as an invariant of this module's instance. *)

(* docs/INTERACTION.md:275: approved proposals are applied.  Those behind  *)
(* one that is refused are lost (apply_approved_manifest_patches).         *)
ApprovedIsKept == part = "manifest" => Manif!ApprovedIsKept

(* docs/ARCHITECTURE.md:126: an edit that fails its validation writes      *)
(* nothing.  It does when the patch's own operations are in each other's   *)
(* way (commit).                                                           *)
FailedEditWritesNothing == part = "edit" => Edit!FailureWritesNothing

(* tests/auth_storage.rs:54: what was saved is loaded.  Not when the       *)
(* keyring refuses the new token and still holds an old one.               *)
SavedIsLoaded == part = "auth" => Auth!SavedIsLoaded
=============================================================================
