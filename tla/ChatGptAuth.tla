---------------------------- MODULE ChatGptAuth ----------------------------
(***************************************************************************)
(* The ChatGPT login (noloong-openai, auth/): requests of one or several   *)
(* processes take their token from a shared store, refresh it when it is   *)
(* old or when the service answers 401, and store what the refresh gave.   *)
(* A login writes a token, a logout revokes and deletes it.                *)
(*                                                                         *)
(* The service rotates refresh tokens: each can be used once.  Every login *)
(* has tokens of its own, which end with their own refresh or revocation.  *)
(* A token is the number of its access token and that of its refresh token. *)
(***************************************************************************)
EXTENDS Naturals

CONSTANTS
  Tasks,      \* requests that may be made at once
  OneProcess, \* whether one ChatGptAuthManager (and its lock) makes them all,
              \* or each is made by a process of its own
  Auto,       \* ChatGptAutoTokenStorage (keyring, then file) or the file alone
  MaxTokens,  \* bound: tokens the service ever gives out
  MaxFaults   \* bound: failing calls, lost answers and crashes

VARIABLES
  keyring, file, \* the stored tokens
  service,  \* [refresh, valid, last]: the refresh tokens that are good, the access
            \* tokens that are, the last number given out
  expired,  \* access tokens whose own expiry has passed
  lock,     \* refresh_lock: process -> task or "free"
  task,     \* task -> [pc, token, force, retried]
  login,    \* the login in progress: [pc, token]
  logout,   \* the logout in progress: [pc, token]
  faults,
  reused,   \* a refresh token was presented that was no longer good
  saved,    \* the token of the last save that returned Ok
  overlap   \* a refresh or a login was under way during a logout, or a logout deleted
            \* one of two tokens only

vars == <<keyring, file, service, expired, lock, task, login, logout, faults, reused,
          saved, overlap>>

Processes == IF OneProcess THEN {"all"} ELSE Tasks
ProcessOf(t) == IF OneProcess THEN "all" ELSE t

None == [access |-> 0, refresh |-> 0]
IdleTask == [pc |-> "idle", token |-> None, force |-> FALSE, retried |-> FALSE]
Idle == [pc |-> "idle", token |-> None]

Init ==
  /\ keyring = None /\ file = None
  /\ service = [refresh |-> {}, valid |-> {}, last |-> 0]
  /\ expired = {}
  /\ lock = [p \in Processes |-> "free"]
  /\ task = [t \in Tasks |-> IdleTask]
  /\ login = Idle /\ logout = Idle
  /\ faults = 0 /\ reused = FALSE /\ saved = None /\ overlap = FALSE

MayFault == faults < MaxFaults
Fault == MayFault /\ faults' = faults + 1
NoFault == faults' = faults

-----------------------------------------------------------------------------
(* The stores. Auto reads the file only when the keyring has nothing, and  *)
(* writes it only when the keyring refuses.                                *)

Load == IF Auto /\ keyring # None THEN keyring ELSE file

SaveToKeyring(tok) == Auto /\ keyring' = tok /\ NoFault /\ UNCHANGED file
SaveToFile(tok) == file' = tok /\ UNCHANGED keyring /\ (IF Auto THEN Fault ELSE NoFault)

(* A save that returns Ok.                                                 *)
Save(tok) == (SaveToKeyring(tok) \/ SaveToFile(tok)) /\ saved' = tok

DeletesKeyring == keyring' = None /\ NoFault /\ UNCHANGED file

(* Both deletions are tried, and one that succeeds hides the other's       *)
(* error.                                                                  *)
Delete ==
  \/ keyring' = None /\ file' = None /\ NoFault
  \/ Auto /\ Fault /\ keyring' = None /\ UNCHANGED file
  \/ Auto /\ Fault /\ file' = None /\ UNCHANGED keyring

-----------------------------------------------------------------------------
(* Requests.                                                               *)

At(t, pc) == task[t].pc = pc
Released(t) == [lock EXCEPT ![ProcessOf(t)] = IF @ = t THEN "free" ELSE @]
Refreshing == \E t \in Tasks : task[t].pc \in {"post", "save"}

(* token_requires_proactive_refresh: the access token's own expiry, or the *)
(* age of the last refresh (which comes first is left open).               *)
RequiresRefresh(tok) == tok.access \in expired

(* token_for_request                                                       *)
TokenForRequest(t) ==
  /\ At(t, "idle") /\ Load # None
  /\ task' = [task EXCEPT ![t] = [pc |-> IF RequiresRefresh(Load) THEN "wait" ELSE "send",
                                  token |-> Load, force |-> FALSE, retried |-> FALSE]]
  /\ UNCHANGED <<keyring, file, service, expired, lock, login, logout, faults, reused, saved, overlap>>

(* The token that a holder of the lock refreshes: read under the lock.     *)
CurrentUnlocked(t) == task[t].token
Current(t) == Load

(* refresh_token, refresh_token_if_required: the lock, then the token that *)
(* is stored by now; a refresh made meanwhile satisfies the second.        *)
TakeLock(t) ==
  LET tok == Current(t) IN
  /\ At(t, "wait") /\ lock[ProcessOf(t)] = "free"
  /\ IF tok = None
     THEN /\ task' = [task EXCEPT ![t].pc = "failed"] /\ UNCHANGED <<lock, overlap>>
     ELSE IF ~task[t].force /\ ~RequiresRefresh(tok)
     THEN /\ task' = [task EXCEPT ![t].pc = "send", ![t].token = tok] /\ UNCHANGED <<lock, overlap>>
     ELSE /\ task' = [task EXCEPT ![t].pc = "post", ![t].token = tok]
          /\ lock' = [lock EXCEPT ![ProcessOf(t)] = t]
          /\ overlap' = (overlap \/ logout # Idle)
  /\ UNCHANGED <<keyring, file, service, expired, login, logout, faults, reused, saved>>

(* External: the token endpoint. It may keep the refresh token.            *)
Renewed(tok, rotates) ==
  [access |-> service.last + 1, refresh |-> IF rotates THEN service.last + 1 ELSE tok.refresh]

(* The service gives out a token, in place of the old one if that is good. *)
Gives(old, new) ==
  service' = [refresh |-> (service.refresh \ {old.refresh}) \cup {new.refresh},
              valid |-> service.valid \cup {new.access}, last |-> service.last + 1]

(* refresh_loaded_token, up to the answer; refresh_response_to_token keeps *)
(* what the answer does not name.                                          *)
MergedKeepsOld(tok, new) == [new EXCEPT !.refresh = tok.refresh]
Merged(tok, new) == new
Accepted(t, rotates) ==
  LET tok == task[t].token new == Renewed(tok, rotates) IN
  /\ At(t, "post") /\ tok.refresh \in service.refresh
  /\ service.last < MaxTokens
  /\ Gives(tok, new)
  /\ task' = [task EXCEPT ![t].pc = "save", ![t].token = Merged(tok, new)]
  /\ UNCHANGED <<keyring, file, expired, lock, login, logout, faults, reused, saved, overlap>>

(* An error status: 401 for a refresh token that is not good.              *)
Refused(t) ==
  /\ At(t, "post") /\ task[t].token.refresh \notin service.refresh
  /\ reused' = TRUE
  /\ task' = [task EXCEPT ![t].pc = "failed"]
  /\ lock' = Released(t)
  /\ UNCHANGED <<keyring, file, service, expired, login, logout, faults, saved, overlap>>

(* The answer is lost or cannot be read, whether or not it was given.      *)
AnswerLost(t) ==
  /\ At(t, "post") /\ Fault
  /\ \/ UNCHANGED service
     \/ /\ task[t].token.refresh \in service.refresh /\ service.last < MaxTokens
        /\ Gives(task[t].token, Renewed(task[t].token, TRUE))
  /\ task' = [task EXCEPT ![t].pc = "failed"]
  /\ lock' = Released(t)
  /\ UNCHANGED <<keyring, file, expired, login, logout, reused, saved, overlap>>

SaveRefreshed(t) ==
  /\ At(t, "save") /\ Save(task[t].token)
  /\ task' = [task EXCEPT ![t].pc = "send"]
  /\ lock' = Released(t)
  /\ UNCHANGED <<service, expired, login, logout, reused, overlap>>

(* Neither store takes the token.                                          *)
SaveFails(t) ==
  /\ At(t, "save") /\ Fault
  /\ task' = [task EXCEPT ![t].pc = "failed"]
  /\ lock' = Released(t)
  /\ UNCHANGED <<keyring, file, service, expired, login, logout, reused, saved, overlap>>

(* The providers' stream_model: a first 401 asks for a refresh and the     *)
(* request is sent again with its headers; a second one is an error.       *)
Send(t) ==
  /\ At(t, "send")
  /\ task' = [task EXCEPT ![t] =
       IF @.token.access \in service.valid THEN [@ EXCEPT !.pc = "done"]
       ELSE IF @.retried THEN [@ EXCEPT !.pc = "failed"]
       ELSE [@ EXCEPT !.pc = "wait", !.force = TRUE, !.retried = TRUE]]
  /\ UNCHANGED <<keyring, file, service, expired, lock, login, logout, faults, reused, saved, overlap>>

Again(t) ==
  /\ task[t].pc \in {"done", "failed"}
  /\ task' = [task EXCEPT ![t] = IdleTask]
  /\ UNCHANGED <<keyring, file, service, expired, lock, login, logout, faults, reused, saved, overlap>>

-----------------------------------------------------------------------------
(* Login and logout.                                                       *)

(* complete_browser_login, complete_device_authorization: the code is      *)
(* exchanged for tokens.                                                   *)
Exchange ==
  LET new == [access |-> service.last + 1, refresh |-> service.last + 1] IN
  /\ login.pc = "wait" /\ service.last < MaxTokens
  /\ Gives(None, new)
  /\ login' = [pc |-> "save", token |-> new]
  /\ UNCHANGED <<keyring, file, expired, lock, task, logout, faults, reused, saved, overlap>>

(* bind / request_device_authorization, then the wait for the user: a      *)
(* callback with another state and a pending poll are waited out.  Whether *)
(* a token is stored is not asked.                                         *)
LoginStarts ==
  /\ login.pc = "idle" /\ service.last < MaxTokens
  /\ login' = [login EXCEPT !.pc = "wait"]
  /\ overlap' = (overlap \/ logout # Idle)
  /\ UNCHANGED <<keyring, file, service, expired, lock, task, logout, faults, reused, saved>>

(* DeviceAuthorizationTimeout, MissingAuthorizationCode, an error status.  *)
LoginFails ==
  /\ login.pc \in {"wait", "save"} /\ Fault
  /\ login' = Idle
  /\ UNCHANGED <<keyring, file, service, expired, lock, task, logout, reused, saved, overlap>>

(* persist_exchanged_tokens                                                *)
LoginSaves ==
  /\ login.pc = "save" /\ Save(login.token)
  /\ login' = Idle
  /\ UNCHANGED <<service, expired, lock, task, logout, reused, overlap>>

(* revoke_token: it does not take the refresh lock.                        *)
RevokeStarts ==
  /\ logout.pc = "idle" /\ Load # None
  /\ logout' = [pc |-> "post", token |-> Load]
  /\ overlap' = (overlap \/ Refreshing \/ login # Idle)
  /\ UNCHANGED <<keyring, file, service, expired, lock, task, login, faults, reused, saved>>

Revoked ==
  /\ logout.pc = "post"
  /\ service' = IF logout.token.refresh \in service.refresh
                THEN [service EXCEPT !.refresh = @ \ {logout.token.refresh},
                                     !.valid = @ \ {logout.token.access}]
                ELSE service
  /\ logout' = [logout EXCEPT !.pc = "delete"]
  /\ UNCHANGED <<keyring, file, expired, lock, task, login, faults, reused, saved, overlap>>

RevokeFails ==
  /\ logout.pc = "post" /\ Fault
  /\ logout' = Idle
  /\ UNCHANGED <<keyring, file, service, expired, lock, task, login, reused, saved, overlap>>

RevokeDeletes ==
  /\ logout.pc = "delete" /\ Delete
  /\ logout' = Idle /\ saved' = None
  /\ overlap' = (overlap \/ faults' # faults)
  /\ UNCHANGED <<service, expired, lock, task, login, reused>>

-----------------------------------------------------------------------------
(* External: time passes, the service drops an access token, a process     *)
(* stops.                                                                  *)

Expire(a) ==
  /\ a \in 1..service.last \ expired
  /\ expired' = expired \cup {a}
  /\ service' = [service EXCEPT !.valid = @ \ {a}]
  /\ UNCHANGED <<keyring, file, lock, task, login, logout, faults, reused, saved, overlap>>

Invalidate(a) ==
  /\ a \in service.valid
  /\ service' = [service EXCEPT !.valid = @ \ {a}]
  /\ UNCHANGED <<keyring, file, expired, lock, task, login, logout, faults, reused, saved, overlap>>

Crash(p) ==
  /\ Fault
  /\ task' = [t \in Tasks |-> IF ProcessOf(t) = p THEN IdleTask ELSE task[t]]
  /\ lock' = [lock EXCEPT ![p] = "free"]
  /\ UNCHANGED <<keyring, file, service, expired, login, logout, reused, saved, overlap>>

RequestStep(t) ==
  \/ TakeLock(t) \/ Accepted(t, TRUE) \/ Accepted(t, FALSE) \/ Refused(t)
  \/ SaveRefreshed(t) \/ Send(t)

Next ==
  \/ \E t \in Tasks :
       TokenForRequest(t) \/ RequestStep(t) \/ AnswerLost(t) \/ SaveFails(t) \/ Again(t)
  \/ LoginStarts \/ Exchange \/ LoginFails \/ LoginSaves
  \/ RevokeStarts \/ Revoked \/ RevokeFails \/ RevokeDeletes
  \/ \E a \in 1..MaxTokens : Expire(a) \/ Invalidate(a)
  \/ \E p \in Processes : Crash(p)

Spec == Init /\ [][Next]_vars

-----------------------------------------------------------------------------
(* Every variable has its type.                                            *)
TypeOK ==
  /\ {keyring, file, saved} \subseteq [access : 0..MaxTokens, refresh : 0..MaxTokens]
  /\ service.last \in 0..MaxTokens /\ service.valid \subseteq 1..service.last
  /\ \A p \in Processes : lock[p] \in Tasks \cup {"free"}
  /\ \A t \in Tasks : task[t].pc \in {"idle", "wait", "post", "save", "send", "done", "failed"}
  /\ faults \in 0..MaxFaults

(* refresh_loaded_token: while no call fails and no logout overlaps, one   *)
(* process never presents a refresh token that was used, however many of   *)
(* its requests find their token expired or are answered 401 at the same   *)
(* time and whatever logins come between, and whenever none of them is     *)
(* refreshing, the refresh token that is stored is good.                   *)
RefreshedOnce ==
  (faults = 0 /\ ~overlap /\ OneProcess) =>
    /\ ~reused
    /\ (~Refreshing /\ logout = Idle /\ Load # None) => Load.refresh \in service.refresh

(* The same for processes that share the store: each has a lock of its     *)
(* own, so both can present the same refresh token.                        *)
RefreshedOnceByAll == (faults = 0 /\ ~overlap) => ~reused

(* revoke_token and the stores' delete: once a logout that overlapped      *)
(* neither a refresh nor a login is over, no token is loaded until a login *)
(* stores one, also when an earlier save had to fall back to the file.     *)
LoggedOut == (saved = None /\ ~overlap) => Load = None

(* ... also when a refresh was under way (its save brings back a token) or *)
(* when the keyring refuses the deletion.                                  *)
LoggedOutAnyway == saved = None => Load = None

(* ChatGptAutoTokenStorage, as the test of its fallback asserts: after a   *)
(* save that returned Ok, load returns that token. (It does not when the   *)
(* keyring keeps an older token and refuses the new one.)                  *)
SavedIsLoaded == saved # None => Load = saved
=============================================================================
