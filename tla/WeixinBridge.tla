---------------------------- MODULE WeixinBridge ----------------------------
(***************************************************************************)
(* The Weixin bridge (noloong-agent-weixin/src/bridge.rs, runtime.rs) for  *)
(* one chat: the session the chat talks to, kept in memory and in the      *)
(* client state database, its display subscription and route, the commands *)
(* that change them, and the display task that gives up the routes of      *)
(* finished subagents. Each request to the interaction server is a step of *)
(* its own; the poller hands over one message at a time.                   *)
(***************************************************************************)
EXTENDS Naturals, Sequences, FiniteSets

CONSTANTS
  Base,         \* the chat's deterministic session id
  Derived,      \* ids /new makes
  Child,        \* the session of a subagent
  MaxCommands,  \* bound: messages and commands
  MaxFaults,    \* bound: requests that fail, deletions by others, restarts
  MaxNotes,     \* bound: notifications on their way
  None

Sessions == {Base, Child} \cup Derived
OfChat == {Base} \cup Derived   \* session_belongs_to_weixin_key

VARIABLES
  alive,     \* external: sessions that exist
  running,   \* external: sessions with a run
  subs,      \* external: [session, id] of the display subscriptions of this client
  notes,     \* external: sessions of the terminal display events on their way
  nextSub,
  made,      \* ids that were ever asked for: /new and subagents take fresh ones
  profiled,  \* sessions whose profile the server exposes
  stored,    \* active session id in the client state database
  active,    \* sessions[key]: [id, sub] (sub 0: no subscription), id None: no entry
  routes,    \* display_routes: sessions routed to this chat
  listed,    \* display_subscriptions: session -> subscription (0: none)
  cmd, todo, target, stale, \* the handler: its command, the steps left, its operands
  leaving,   \* the display task: a subscription it is about to give up (0: none)
  commands, faults,
  lostAnswer, \* a request took effect but its answer did not arrive
  interfered, \* another client deleted a session of this chat
  unheard,   \* a message was submitted to a session the chat does not hear
  clean,     \* nothing went wrong since the command began
  failed     \* a message ended without being submitted although nothing went wrong meanwhile

plane == <<alive, running, subs, notes, nextSub, profiled>>
bridge == <<stored, active, routes, listed>>
handler == <<cmd, todo, target, stale>>
ghosts == <<made, commands, faults, lostAnswer, interfered, unheard, clean, failed>>
vars == <<plane, bridge, handler, leaving, ghosts>>

NoSession == [id |-> None, sub |-> 0]

Init ==
  /\ alive = {} /\ running = {} /\ subs = {} /\ notes = <<>> /\ nextSub = 1 /\ made = {}
  /\ profiled = Sessions /\ stored = None /\ active = NoSession /\ routes = {}
  /\ listed = [s \in Sessions |-> 0]
  /\ cmd = "none" /\ todo = <<>> /\ target = None /\ stale = 0 /\ leaving = 0
  /\ commands = 0 /\ faults = 0 /\ lostAnswer = FALSE /\ interfered = FALSE
  /\ unheard = FALSE /\ clean = TRUE /\ failed = FALSE

-----------------------------------------------------------------------------
(* What a command asks for, as the requests it makes.                      *)

Activate == <<"record", "subscribe", "store">>

(* ensure_session, current_session_for_chat: with a session in memory it   *)
(* is read and subscribed, else restore_existing_session.                  *)
Current(rest) == IF active.id # None THEN <<"get", "subscribe">> \o rest ELSE <<"load">> \o rest
Program(c) ==
  CASE c = "message"  -> Current(<<"submit">>)
    [] c = "status"   -> Current(<<>>)
    [] c = "subagent" -> Current(<<"spawn">>)
    [] c = "control"  -> Current(<<"request">>)  \* queues, processes, approvals, run config
    [] c = "new"      -> <<"create">> \o Activate
    [] c = "switch"   -> <<"get">> \o Activate
    [] c = "delete"   -> <<"delete">>

Targets(c) ==
  CASE c \in {"message", "status", "subagent", "control"} -> {active.id}
    [] c = "new" -> Derived \ made
    [] c \in {"switch", "delete"} -> alive \cap OfChat \cap profiled  \* selected_session

HandleMessage ==
  /\ todo = <<>> /\ commands < MaxCommands
  /\ \E c \in {"message", "status", "subagent", "control", "new", "switch", "delete"} :
       \E s \in Targets(c) :
         /\ (c = "subagent" => Child \notin made)
         /\ cmd' = c /\ target' = s /\ todo' = Program(c)
  /\ commands' = commands + 1 /\ clean' = TRUE
  /\ made' = made \cup (IF cmd' = "new" THEN {target'} ELSE IF cmd' = "subagent" THEN {Child} ELSE {})
  /\ UNCHANGED <<plane, bridge, stale, leaving, faults, lostAnswer, interfered, unheard, failed>>

Step(name) == todo # <<>> /\ Head(todo) = name

(* A handler that ends early: the user is told, nothing else happens.      *)
GivesUp ==
  /\ todo' = <<>> /\ failed' = (failed \/ (cmd = "message" /\ clean))
  /\ UNCHANGED <<cmd, target, stale>>

(* session/get of the chat's session, or of the one to switch to.          *)
GetSession ==
  /\ Step("get")
  /\ IF target \in alive
     THEN todo' = Tail(todo) /\ UNCHANGED <<cmd, target, stale, failed>>
     ELSE GivesUp
  /\ UNCHANGED <<plane, bridge, leaving, made, commands, faults, lostAnswer, interfered, unheard, clean>>

(* restore_existing_session: the stored id, else the deterministic one.    *)
LoadActive ==
  /\ Step("load")
  /\ target' = stored
  /\ todo' = <<IF stored = None THEN "list" ELSE "getStored">> \o Tail(todo)
  /\ UNCHANGED <<plane, bridge, cmd, stale, leaving, ghosts>>

Restorable(s) == s \in alive \cap OfChat \cap profiled
RestoreStored ==
  /\ Step("getStored")
  /\ IF Restorable(target)
     THEN todo' = Activate \o Tail(todo) /\ stored' = stored
     ELSE todo' = <<"list">> \o Tail(todo) /\ stored' = None
  /\ UNCHANGED <<plane, active, routes, listed, cmd, target, stale, leaving, ghosts>>

(* session/list, and the removal of a deterministic session whose profile  *)
(* is gone; only a message goes on to create a session.                    *)
RestoreBase ==
  /\ Step("list")
  /\ target' = Base
  /\ alive' = IF Base \in profiled THEN alive ELSE alive \ {Base}
  /\ subs' = IF Base \in profiled THEN subs ELSE {u \in subs : u.session # Base}
  /\ running' = running \cap alive'
  /\ profiled' = profiled \cup (Sessions \ alive')
  /\ todo' = IF Base \in alive' THEN Activate \o Tail(todo)
             ELSE IF cmd = "message" THEN <<"create">> \o Activate \o Tail(todo) ELSE <<>>
  /\ UNCHANGED <<notes, nextSub, bridge, cmd, stale, leaving, ghosts>>

CreateSession ==
  /\ Step("create")
  /\ IF target \in alive
     THEN GivesUp /\ alive' = alive
     ELSE alive' = alive \cup {target} /\ todo' = Tail(todo) /\ UNCHANGED <<cmd, target, stale, failed>>
  /\ UNCHANGED <<running, subs, notes, nextSub, profiled, bridge, leaving,
                 made, commands, faults, lostAnswer, interfered, unheard, clean>>

(* record_session: another session's route and subscription are dropped,   *)
(* and the subscription is given up at the server.                         *)
KeepsOld == <<>>
DropsOld == <<"unsubscribe">>
RecordSession ==
  LET old == active.id # None /\ active.id # target IN
  /\ Step("record")
  /\ active' = [id |-> target, sub |-> IF old \/ active.id = None THEN 0 ELSE active.sub]
  /\ routes' = IF old THEN routes \ {active.id} ELSE routes
  /\ listed' = IF old THEN [listed EXCEPT ![active.id] = 0] ELSE listed
  /\ stale' = IF old THEN active.sub ELSE 0
  /\ todo' = (IF old /\ active.sub # 0 THEN DropsOld ELSE <<>>) \o Tail(todo)
  /\ UNCHANGED <<plane, stored, cmd, target, leaving, ghosts>>

(* event/unsubscribe; its errors are only logged.                          *)
Unsubscribe ==
  /\ Step("unsubscribe")
  /\ subs' = {u \in subs : u.id # stale}
  /\ todo' = Tail(todo) /\ stale' = 0
  /\ UNCHANGED <<alive, running, notes, nextSub, profiled, bridge, cmd, target, leaving, ghosts>>

(* subscribe_session, subscribe_display_session.                           *)
HasSubscription(s) == active.id = s /\ active.sub # 0
Subscribes(s) == subs \cup {[session |-> s, id |-> nextSub]}
SubscribeSession ==
  /\ Step("subscribe")
  /\ IF HasSubscription(target)
     THEN routes' = routes \cup {target} /\ todo' = Tail(todo)
          /\ UNCHANGED <<subs, nextSub, listed, active, stale, failed>>
     ELSE IF target \notin alive
     THEN todo' = <<>> /\ failed' = (failed \/ (cmd = "message" /\ clean))
          /\ UNCHANGED <<subs, nextSub, listed, active, routes, stale>>
     ELSE /\ subs' = Subscribes(target) /\ nextSub' = nextSub + 1
          /\ routes' = routes \cup {target}
          /\ stale' = listed[target]
          /\ listed' = [listed EXCEPT ![target] = nextSub]
          /\ active' = IF active.id = target THEN [active EXCEPT !.sub = nextSub] ELSE active
          /\ todo' = (IF listed[target] # 0 THEN <<"unsubscribe">> ELSE <<>>) \o Tail(todo)
          /\ failed' = failed
  /\ UNCHANGED <<alive, running, notes, profiled, stored, cmd, target, leaving,
                 made, commands, faults, lostAnswer, interfered, unheard, clean>>

SaveActive ==
  /\ Step("store")
  /\ stored' = target /\ todo' = Tail(todo)
  /\ UNCHANGED <<plane, active, routes, listed, cmd, target, stale, leaving, ghosts>>

(* submit_user_message: a prompt, or a follow-up of the run there is.      *)
Heard(s) == s \in routes /\ \E u \in subs : u.session = s
Submit ==
  /\ Step("submit")
  /\ IF target \in alive
     THEN /\ running' = running \cup {target} /\ todo' = Tail(todo)
          /\ unheard' = (unheard \/ ~Heard(target)) /\ failed' = failed
          /\ UNCHANGED <<cmd, target, stale>>
     ELSE GivesUp /\ UNCHANGED <<running, unheard>>
  /\ UNCHANGED <<alive, subs, notes, nextSub, profiled, bridge, leaving,
                 made, commands, faults, lostAnswer, interfered, clean>>

(* queue/list, queue/clear, agent/followUp, process/*, approval/*: requests *)
(* about the chat's session, which may be gone.                            *)
ControlRequest ==
  /\ Step("request")
  /\ todo' = <<>>
  /\ UNCHANGED <<plane, bridge, cmd, target, stale, leaving, ghosts>>

(* spawn_subagent: the child's route and subscription come before its      *)
(* prompt.                                                                 *)
SpawnSubagent ==
  /\ Step("spawn")
  /\ alive' = alive \cup {Child} /\ target' = Child
  /\ routes' = routes \cup {Child}
  /\ todo' = <<"subscribe", "submit">>
  /\ UNCHANGED <<running, subs, notes, nextSub, profiled, stored, active, listed, cmd, stale,
                 leaving, ghosts>>

(* delete_session: the server first, then what the bridge keeps of it.     *)
DeleteSession ==
  /\ Step("delete")
  /\ alive' = alive \ {target} /\ running' = running \ {target}
  /\ subs' = {u \in subs : u.session # target}
  /\ routes' = routes \ {target} /\ listed' = [listed EXCEPT ![target] = 0]
  /\ active' = IF active.id = target THEN NoSession ELSE active
  /\ stored' = IF active.id = target /\ active.sub # 0 THEN None ELSE stored
  /\ todo' = Tail(todo)
  /\ UNCHANGED <<notes, nextSub, profiled, cmd, target, stale, leaving, ghosts>>

-----------------------------------------------------------------------------
(* The server and other clients.                                           *)

RunEnds ==
  \E s \in running :
    /\ running' = running \ {s}
    /\ \E k \in {Cardinality({u \in subs : u.session = s})} :
         /\ Len(notes) + k <= MaxNotes
         /\ notes' = notes \o [i \in 1..k |-> s]
    /\ UNCHANGED <<alive, subs, nextSub, profiled, bridge, handler, leaving, ghosts>>

OtherDeletes ==
  \E s \in alive :
    /\ faults < MaxFaults /\ faults' = faults + 1
    /\ alive' = alive \ {s} /\ running' = running \ {s}
    /\ subs' = {u \in subs : u.session # s} /\ interfered' = TRUE /\ clean' = FALSE
    /\ UNCHANGED <<notes, nextSub, profiled, bridge, handler, leaving, made, commands, lostAnswer,
                   unheard, failed>>

(* A request fails, or takes effect and its answer is lost (a timeout).    *)
Requests == {"get", "getStored", "list", "create", "subscribe", "submit", "spawn", "delete"}
RequestFails ==
  /\ todo # <<>> /\ Head(todo) \in Requests
  /\ faults < MaxFaults /\ faults' = faults + 1 /\ clean' = FALSE
  /\ \/ lostAnswer' = lostAnswer /\ UNCHANGED <<alive, subs, nextSub, running>>
     \/ /\ Head(todo) \in {"create", "subscribe", "submit", "delete"} /\ lostAnswer' = TRUE
        /\ (Head(todo) = "subscribe" => ~HasSubscription(target) /\ target \in alive)
        /\ alive' = CASE Head(todo) = "create" -> alive \cup {target}
                      [] Head(todo) = "delete" -> alive \ {target}
                      [] OTHER -> alive
        /\ subs' = CASE Head(todo) = "subscribe" -> Subscribes(target)
                     [] Head(todo) = "delete" -> {u \in subs : u.session # target}
                     [] OTHER -> subs
        /\ running' = CASE Head(todo) = "submit" -> (running \cup {target}) \cap alive
                        [] Head(todo) = "delete" -> running \ {target}
                        [] OTHER -> running
        /\ nextSub' = nextSub + 1
  /\ todo' = <<>> /\ UNCHANGED <<cmd, target, stale, failed>>
  /\ UNCHANGED <<notes, profiled, bridge, leaving, made, commands, interfered, unheard>>

(* run_display_delivery: the route is looked up; after a terminal event,   *)
(* unsubscribe_inactive_display_route gives up a session that no chat has. *)
GivesUpAny(s) == TRUE
Inactive(s) == active.id # s
Display ==
  LET s == Head(notes) IN
  /\ notes # <<>> /\ leaving = 0
  /\ notes' = Tail(notes)
  /\ IF s \in routes /\ Inactive(s)
     THEN /\ routes' = routes \ {s} /\ leaving' = listed[s]
          /\ listed' = [listed EXCEPT ![s] = 0]
     ELSE UNCHANGED <<routes, leaving, listed>>
  /\ UNCHANGED <<alive, running, subs, nextSub, profiled, stored, active, handler, ghosts>>

DisplayUnsubscribes ==
  /\ leaving # 0
  /\ subs' = {u \in subs : u.id # leaving} /\ leaving' = 0
  /\ UNCHANGED <<alive, running, notes, nextSub, profiled, bridge, handler, ghosts>>

(* The process ends (its connection and subscriptions with it) and starts  *)
(* again, perhaps against a server with other profiles.                    *)
Restart ==
  /\ faults < MaxFaults /\ faults' = faults + 1 /\ clean' = FALSE
  /\ subs' = {} /\ notes' = <<>> /\ active' = NoSession /\ routes' = {}
  /\ listed' = [s \in Sessions |-> 0] /\ leaving' = 0
  /\ cmd' = "none" /\ todo' = <<>> /\ target' = None /\ stale' = 0
  /\ \E gone \in {{}} \cup {{s} : s \in alive \cap OfChat} : profiled' = Sessions \ gone
  /\ UNCHANGED <<alive, running, nextSub, stored, made, commands, lostAnswer, interfered, unheard, failed>>

Handler ==
  \/ GetSession \/ LoadActive \/ RestoreStored \/ RestoreBase \/ CreateSession \/ RecordSession
  \/ Unsubscribe \/ SubscribeSession \/ SaveActive \/ Submit \/ SpawnSubagent \/ DeleteSession
  \/ ControlRequest

Next ==
  \/ HandleMessage \/ Handler \/ RequestFails \/ Display \/ DisplayUnsubscribes \/ Restart
  \/ RunEnds \/ OtherDeletes

Spec == Init /\ [][Next]_vars

-----------------------------------------------------------------------------
(* The chat hears what it asks: when a message is submitted, the session   *)
(* is subscribed and routed to the chat, through switches, restarts, lost  *)
(* answers and the display task's clean-up. (ensure_session subscribes     *)
(* before it submits; unsubscribe_inactive spares the active session.)     *)
SubmitIsHeard == ~unheard

(* Once the handler and the display task are done, every subscription the  *)
(* server has for this client is a recorded one, so that no event is       *)
(* delivered twice, unless the answer of a subscribe request was lost.     *)
NoStraySubscription ==
  (todo = <<>> /\ leaving = 0 /\ ~lostAnswer) =>
    \A u \in subs : listed[u.session] = u.id /\ u.session \in routes

(* A message that nothing goes wrong for while it is handled is submitted, *)
(* unless the server no longer has the chat's session: another client      *)
(* deleted it, or the answer of a request about it was lost earlier.       *)
SubmittedUnlessDeleted == failed => (interfered \/ lostAnswer)

(* WEIXIN.md: any message creates or restores a session. Violated: once    *)
(* another client deletes the chat's session, the session/get of           *)
(* ensure_session fails for every later message.                           *)
MessageAlwaysSubmitted == ~failed
=============================================================================
