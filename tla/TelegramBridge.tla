--------------------------- MODULE TelegramBridge ---------------------------
(***************************************************************************)
(* One chat of the Telegram bridge (noloong-agent-telegram/src/bridge.rs,  *)
(* the update handler and the display task of src/telegram_cli.rs) against *)
(* the control plane. The handler takes one update at a time and awaits    *)
(* each request; the display task reads the connection's notifications     *)
(* behind it, as slowly as Telegram lets it send. The message a run        *)
(* replies to is found by order: submit_user_message queues it, and the    *)
(* next RunStarted the display task reads takes it. The connection keeps   *)
(* the last notifications only (a broadcast channel): a display task that  *)
(* has fallen further behind is told so, logs it and goes on.              *)
(*                                                                         *)
(* The control plane is reduced to what the bridge sees of it: sessions    *)
(* that are idle, running or paused, one run at a time in each.            *)
(***************************************************************************)
EXTENDS Naturals, Sequences, FiniteSets

CONSTANTS
  MaxMessages,   \* bound: messages of the chat, in order of arrival
  MaxRuns,       \* bound: runs
  MaxCommands,   \* bound: commands and buttons
  MaxSessions,   \* bound: sessions; 1 is the id derived from the chat
  Buffer         \* notification_buffer: notifications kept for the display task

VARIABLES
  cp,         \* control plane: session -> "absent" | "idle" | "running" | "paused"
  current,    \* control plane: session -> its last run
  runs,       \* runs so far
  trigger,    \* run -> the message whose prompt started it, 0 for none
  notes,      \* notifications the display task has not read
  unseen,     \* runs whose RunStarted was dropped before it was read
  active,     \* sessions[key].session_id, 0 for none
  status,     \* sessions[key].status
  routes,     \* display_routes (and the route implied by the id of session 1)
  pending,    \* pending_run_reply_targets[key]
  targets,    \* run_reply_targets: run -> message, 0 for none
  pc, msg,    \* the handler: its step and its message (0 for a command)
  on,         \* the session the handler's request is about
  next,       \* the next message of the chat
  commands,
  outcome,    \* message -> what became of it
  replies,    \* run -> the messages its output was sent in reply to
  disturbed,  \* a run started without a message, a prompt failed, a session was deleted
  interfered  \* another client started a run

cpvars == <<cp, current, runs, trigger>>
state == <<active, status, routes>>
handler == <<pc, msg, on, next, commands, outcome>>
vars == <<cp, current, runs, trigger, notes, unseen, active, status, routes, pending, targets,
          pc, msg, on, next, commands, outcome, replies, disturbed, interfered>>

Sessions == 1..MaxSessions
Runs == 1..MaxRuns
Messages == 1..MaxMessages
Busy == {"running", "paused"}

Init ==
  /\ cp = [s \in Sessions |-> "absent"] /\ current = [s \in Sessions |-> 0]
  /\ runs = 0 /\ trigger = [r \in Runs |-> 0] /\ notes = <<>>
  /\ unseen = {}
  /\ active = 0 /\ status = "idle" /\ routes = {}
  /\ pending = <<>> /\ targets = [r \in Runs |-> 0]
  /\ pc = "idle" /\ msg = 0 /\ on = 0 /\ next = 1 /\ commands = 0
  /\ outcome = [m \in Messages |-> "none"] /\ replies = [r \in Runs |-> {}]
  /\ disturbed = FALSE /\ interfered = FALSE

Note(kind, s, r) == [kind |-> kind, session |-> s, run |-> r]

(* broadcast::Sender::send: it never waits; the oldest notification makes  *)
(* room, and a receiver that has not read it gets Lagged instead.          *)
Notify(n) ==
  LET full == Len(notes) = Buffer IN
  /\ notes' = Append(IF full THEN Tail(notes) ELSE notes, n)
  /\ unseen' = IF full /\ Head(notes).kind = "started" THEN unseen \cup {Head(notes).run}
               ELSE unseen

-----------------------------------------------------------------------------
(* External: the control plane. A session that runs replies, pauses and    *)
(* ends when it likes; the handler's request is answered when the run it   *)
(* waits for pauses or ends.                                               *)

StartsRun(s, m) ==
  /\ runs < MaxRuns
  /\ runs' = runs + 1
  /\ cp' = [cp EXCEPT ![s] = "running"]
  /\ current' = [current EXCEPT ![s] = runs + 1]
  /\ trigger' = [trigger EXCEPT ![runs + 1] = m]
  /\ Notify(Note("started", s, runs + 1))

RunReplies(s) ==
  /\ cp[s] = "running"
  /\ ~\E i \in 1..Len(notes) : notes[i] = Note("final", s, current[s])  \* bound
  /\ Notify(Note("final", s, current[s]))
  /\ UNCHANGED <<cp, current, runs, trigger, active, status, routes, pending, targets,
                 pc, msg, on, next, commands, outcome, replies, disturbed, interfered>>

Awaited(s) == pc = "running" /\ on = s
RunStops(s, kind, as, answer) ==
  /\ cp[s] = "running"
  /\ cp' = [cp EXCEPT ![s] = as]
  /\ Notify(Note(kind, s, current[s]))
  /\ pc' = IF Awaited(s) THEN answer ELSE pc
  /\ UNCHANGED <<current, runs, trigger, active, status, routes, pending, targets,
                 msg, on, next, commands, outcome, replies, disturbed, interfered>>

RunEnds(s) == RunStops(s, "ended", "idle", "answered")
RunPauses(s) == RunStops(s, "paused", "paused", "answered")
RunFails(s) == RunStops(s, "ended", "idle", "refused")

(* A run of another client, an automation or a scheduled continuation.     *)
OtherRun(s) ==
  /\ cp[s] = "idle" /\ StartsRun(s, 0)
  /\ disturbed' = TRUE /\ interfered' = TRUE
  /\ UNCHANGED <<active, status, routes, pending, targets, pc, msg, on, next, commands,
                 outcome, replies>>

-----------------------------------------------------------------------------
(* The handler: a message.                                                 *)

Done == pc' = "idle" /\ msg' = 0 /\ on' = 0
Outcome(o) == outcome' = IF msg = 0 THEN outcome ELSE [outcome EXCEPT ![msg] = o]

(* handle_text_message, handle_inbound_message, ensure_session: the chat's *)
(* session is asked for its status, or made.                               *)
HandleMessage ==
  /\ pc = "idle" /\ next <= MaxMessages
  /\ msg' = next /\ next' = next + 1
  /\ on' = IF active = 0 THEN 1 ELSE active
  /\ pc' = IF active = 0 THEN "create" ELSE "get"
  /\ UNCHANGED <<cp, current, runs, trigger, notes, unseen, active, status, routes, pending,
                 targets, commands, outcome, replies, disturbed, interfered>>

GetSession ==
  /\ pc = "get"
  /\ IF cp[on] = "absent"
     THEN Outcome("told") /\ Done /\ status' = status
     ELSE pc' = "submit" /\ status' = cp[on] /\ UNCHANGED <<outcome, msg, on>>
  /\ UNCHANGED <<cp, current, runs, trigger, notes, unseen, active, routes, pending, targets,
                 next, commands, replies, disturbed, interfered>>

(* create_and_subscribe_session: the session is recorded as the chat's     *)
(* before the subscription is asked for.                                   *)
CreateSession ==
  /\ pc = "create"
  /\ IF cp[on] # "absent"
     THEN Outcome("told") /\ Done /\ UNCHANGED <<cp, active, status>>
     ELSE /\ cp' = [cp EXCEPT ![on] = "idle"]
          /\ active' = on /\ status' = "idle" /\ pc' = "subscribe"
          /\ UNCHANGED <<outcome, msg, on>>
  /\ UNCHANGED <<current, runs, trigger, notes, unseen, routes, pending, targets, next, commands,
                 replies, disturbed, interfered>>

(* subscribe_session; it fails if the session is gone.                     *)
SubscribeSession ==
  /\ pc = "subscribe"
  /\ IF cp[on] = "absent"
     THEN Outcome("told") /\ Done /\ routes' = routes
     ELSE /\ routes' = routes \cup {on}
          /\ IF msg = 0 THEN Done ELSE pc' = "submit" /\ UNCHANGED <<msg, on>>
          /\ UNCHANGED outcome
  /\ UNCHANGED <<cp, current, runs, trigger, notes, unseen, active, status, pending, targets,
                 next, commands, replies, disturbed, interfered>>

(* submit_user_message: a follow-up to a busy session, a prompt otherwise; *)
(* only a prompt is remembered as what the next run replies to.            *)
PromptsAlways(st) == "prompt"
Method(st) == IF st \in Busy THEN "follow_up" ELSE "prompt"
BindsAlways(method) == TRUE
Binds(method) == method = "prompt"

Submit ==
  /\ pc = "submit"
  /\ pending' = IF Binds(Method(status)) THEN Append(pending, msg) ELSE pending
  /\ pc' = Method(status)
  /\ UNCHANGED <<cp, current, runs, trigger, notes, unseen, active, status, routes, targets, msg,
                 on, next, commands, outcome, replies, disturbed, interfered>>

FollowUp ==
  /\ pc = "follow_up"
  /\ IF cp[on] = "absent" THEN Outcome("told") ELSE Outcome("queued") /\ status' = cp[on]
  /\ cp[on] = "absent" => status' = status
  /\ Done
  /\ UNCHANGED <<cp, current, runs, trigger, notes, unseen, active, routes, pending, targets,
                 next, commands, replies, disturbed, interfered>>

(* agent/prompt: the run starts, or the control plane refuses.             *)
PromptStarts ==
  /\ pc = "prompt" /\ cp[on] = "idle"
  /\ StartsRun(on, msg) /\ Outcome("run") /\ pc' = "running"
  /\ UNCHANGED <<active, status, routes, pending, targets, msg, on, next, commands,
                 replies, disturbed, interfered>>

PromptRefused ==
  /\ pc = "prompt" /\ cp[on] # "idle"
  /\ pc' = "refused"
  /\ UNCHANGED <<cp, current, runs, trigger, notes, unseen, active, status, routes, pending,
                 targets, msg, on, next, commands, outcome, replies, disturbed, interfered>>

Answered ==
  /\ pc = "answered"
  /\ status' = IF cp[on] = "absent" THEN status ELSE cp[on]
  /\ Done
  /\ UNCHANGED <<cp, current, runs, trigger, notes, unseen, active, routes, pending, targets,
                 next, commands, outcome, replies, disturbed, interfered>>

(* A JSON-RPC error is taken for a run that failed, and nothing is said    *)
(* (mark_displayed_run_failure, handle_agent_submission_error); the        *)
(* message is taken back if it is the last of the queue.                   *)
RolledBack ==
  IF Len(pending) > 0 /\ pending[Len(pending)] = msg
  THEN SubSeq(pending, 1, Len(pending) - 1) ELSE pending

PromptFailed ==
  /\ pc = "refused"
  /\ pending' = IF msg = 0 THEN pending ELSE RolledBack
  /\ outcome' = IF msg # 0 /\ outcome[msg] = "none"
                THEN [outcome EXCEPT ![msg] = "silent"] ELSE outcome
  /\ disturbed' = TRUE /\ Done
  /\ UNCHANGED <<cp, current, runs, trigger, notes, unseen, active, status, routes, targets,
                 next, commands, replies, interfered>>

(* The request's 600 seconds are over; the run goes on.                    *)
PromptTimesOut ==
  /\ pc = "running"
  /\ pending' = IF msg = 0 THEN pending ELSE RolledBack
  /\ disturbed' = TRUE /\ Done
  /\ UNCHANGED <<cp, current, runs, trigger, notes, unseen, active, status, routes, targets,
                 next, commands, outcome, replies, interfered>>

-----------------------------------------------------------------------------
(* The handler: commands and buttons.                                      *)

Command == pc = "idle" /\ commands < MaxCommands /\ commands' = commands + 1

(* /new: a session with an id of its own.                                  *)
NewSession(s) ==
  /\ Command /\ s # 1 /\ cp[s] = "absent" /\ current[s] = 0
  /\ on' = s /\ pc' = "create" /\ msg' = 0
  /\ UNCHANGED <<cp, current, runs, trigger, notes, unseen, active, status, routes, pending,
                 targets, next, outcome, replies, disturbed, interfered>>

(* /switch: another session of the chat becomes its session.               *)
SwitchSession(s) ==
  /\ Command /\ cp[s] # "absent"
  /\ status' = cp[s]
  /\ IF active = s THEN UNCHANGED <<active, pc, on>>
     ELSE active' = s /\ pc' = "subscribe" /\ on' = s
  /\ msg' = 0
  /\ UNCHANGED <<cp, current, runs, trigger, notes, unseen, routes, pending, targets, next,
                 outcome, replies, disturbed, interfered>>

(* delete_session with force_abort: the run is aborted and the session     *)
(* goes, with its route and the chat's reply targets if it was the chat's. *)
DeleteSession(s) ==
  /\ Command /\ cp[s] # "absent"
  /\ cp' = [cp EXCEPT ![s] = "absent"]
  /\ IF cp[s] \in Busy THEN Notify(Note("ended", s, current[s])) ELSE UNCHANGED <<notes, unseen>>
  /\ routes' = routes \ {s}
  /\ IF active = s
     THEN active' = 0 /\ pending' = <<>> /\ targets' = [r \in Runs |-> 0]
     ELSE UNCHANGED <<active, pending, targets>>
  /\ disturbed' = TRUE
  /\ UNCHANGED <<current, runs, trigger, status, pc, msg, on, next, outcome, replies,
                 interfered>>

(* /abort and its confirmation.                                            *)
AbortSession ==
  /\ Command /\ active # 0 /\ cp[active] \in Busy
  /\ cp' = [cp EXCEPT ![active] = "idle"] /\ status' = "idle"
  /\ Notify(Note("ended", active, current[active]))
  /\ UNCHANGED <<current, runs, trigger, active, routes, pending, targets, pc, msg, on,
                 next, outcome, replies, disturbed, interfered>>

(* An approval is given: the paused run goes on and is awaited.            *)
ResolveApproval ==
  /\ Command /\ active # 0 /\ cp[active] = "paused"
  /\ cp' = [cp EXCEPT ![active] = "running"]
  /\ pc' = "running" /\ on' = active /\ msg' = 0
  /\ UNCHANGED <<current, runs, trigger, notes, unseen, active, status, routes, pending, targets,
                 next, outcome, replies, disturbed, interfered>>

(* /continue: a run without a message of the chat.                         *)
ContinueSession ==
  /\ Command /\ active # 0 /\ cp[active] = "idle"
  /\ StartsRun(active, 0) /\ pc' = "running" /\ on' = active /\ msg' = 0
  /\ disturbed' = TRUE
  /\ UNCHANGED <<active, status, routes, pending, targets, next, outcome, replies, interfered>>

(* /subagent with a prompt: its run is shown in the chat that is not its   *)
(* session's.                                                              *)
SpawnSubagent(s) ==
  /\ Command /\ active # 0 /\ cp[active] # "absent"
  /\ s # 1 /\ cp[s] = "absent" /\ current[s] = 0
  /\ routes' = routes \cup {s}
  /\ StartsRun(s, 0) /\ pc' = "running" /\ on' = s /\ msg' = 0
  /\ disturbed' = TRUE
  /\ UNCHANGED <<active, status, pending, targets, next, outcome, replies, interfered>>

-----------------------------------------------------------------------------
(* The display task: run_display_delivery, session_key_for_display,        *)
(* observe_display_reply_target.                                           *)

Routed(s) == s \in routes \/ s = 1
NextTarget == IF pending = <<>> THEN 0 ELSE Head(pending)

Observe(n) ==
  /\ pending' = IF n.kind = "started" /\ pending # <<>> THEN Tail(pending) ELSE pending
  /\ targets' = CASE n.kind = "started" -> [targets EXCEPT ![n.run] = NextTarget]
                  [] n.kind = "ended" -> [targets EXCEPT ![n.run] = 0]
                  [] OTHER -> targets
  /\ replies' = IF n.kind = "final" THEN [replies EXCEPT ![n.run] = @ \cup {targets[n.run]}]
                ELSE replies

Display ==
  /\ notes # <<>>
  /\ notes' = Tail(notes)
  /\ IF Routed(Head(notes).session) THEN Observe(Head(notes))
     ELSE UNCHANGED <<pending, targets, replies>>
  /\ UNCHANGED <<cp, current, runs, trigger, unseen, active, status, routes, pc, msg, on, next,
                 commands, outcome, disturbed, interfered>>

-----------------------------------------------------------------------------
Next ==
  \/ \E s \in Sessions : \/ RunReplies(s) \/ RunEnds(s) \/ RunPauses(s) \/ RunFails(s)
                         \/ OtherRun(s) \/ NewSession(s) \/ SwitchSession(s)
                         \/ DeleteSession(s) \/ SpawnSubagent(s)
  \/ HandleMessage \/ GetSession \/ CreateSession \/ SubscribeSession
  \/ Submit \/ FollowUp \/ PromptStarts \/ PromptRefused \/ Answered \/ PromptFailed
  \/ PromptTimesOut \/ AbortSession \/ ResolveApproval \/ ContinueSession
  \/ Display

Spec == Init /\ [][Next]_vars

-----------------------------------------------------------------------------
(* What a run says is sent in reply to the message whose prompt started    *)
(* it, however far the display task is behind, over pauses, approvals,     *)
(* aborts, follow-ups and changes of session: as long as every run is      *)
(* started by a message, every prompt succeeds, and neither its RunStarted *)
(* nor that of an earlier run was dropped because the display task lagged  *)
(* by a whole buffer (from there on every run takes the message of another *)
(* one: run_display_delivery goes on after Lagged). Other notifications    *)
(* may be dropped.                                                         *)
SeenSoFar(r) == \A u \in unseen : r < u
ReplyToTrigger ==
  ~disturbed => \A r \in Runs : SeenSoFar(r) => replies[r] \subseteq {trigger[r]}

(* The same for whatever this chat alone does: "Assistant preview/final    *)
(* output for that run is sent with Telegram reply_parameters.message_id   *)
(* pointing at the trigger message".                                       *)
ReplyAlwaysToTrigger ==
  ~interfered => \A r \in Runs : trigger[r] # 0 => replies[r] \subseteq {trigger[r]}

(* A message the handler is done with started a run, is in the follow-up   *)
(* queue, or was answered with an error: it is not dropped in silence      *)
(* because its session was busy, unless another client's run came between  *)
(* the look at the status and the prompt.                                  *)
NoSilentLoss == ~interfered => \A m \in Messages : outcome[m] # "silent"
=============================================================================
