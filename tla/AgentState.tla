------------------------------ MODULE AgentState ------------------------------
(***************************************************************************)
(* The data of the kernel: transcript messages, the events a run records   *)
(* and the reducer that turns events into an AgentState (reducer.rs).      *)
(*                                                                         *)
(* A message is its identity: what it is, the run (0 for a message queued  *)
(* from outside) and a number inside that run.  An assistant message also  *)
(* carries the tool calls it asks for, in source order.  Message text,     *)
(* context patches and tool specifications play no part in the control of  *)
(* a run and are left out.                                                 *)
(***************************************************************************)
EXTENDS Naturals, SequencesExt

Message(kind, run, n, calls) ==
  [kind |-> kind, run |-> run, n |-> n, calls |-> calls]

(* How a queued message reached the agent: Agent::steer (an observation),  *)
(* Agent::steer_user_input and Agent::follow_up.                           *)
QueuedKinds == {"observation", "userInput", "followUp"}

MessageKinds == QueuedKinds \cup {"prompt", "assistant", "toolResult", "summary"}

(* Messages with a user or assistant role: is_valid_cut_role.  (The caller *)
(* chooses the role of an observation; the tests and hosts use user.)      *)
CutKinds == QueuedKinds \cup {"prompt", "assistant"}

RunStatuses == {"Idle", "Running", "Paused", "Completed", "Aborted", "Failed"}

Terminal == {"Completed", "Aborted", "Failed"}

(* AgentState: the fields that the control of a run reads.  `pending` are  *)
(* the ids of pending_tool_approvals, pairs of a tool call and the index   *)
(* of the hook that asked.                                                 *)
DefaultState == [run |-> 0, status |-> "Idle", msgs |-> <<>>, pending |-> {}]

(* Events.  Only the kinds that reduce_events distinguishes, and the turn  *)
(* and phase markers that a listener may fail on, are kept apart.          *)
Event(kind) == [kind |-> kind]
RunStarted(run) == [kind |-> "RunStarted", run |-> run]
Committed(message) == [kind |-> "EffectCommitted", message |-> message]
Compacted(summary, retained, dropped) ==
  [kind |-> "MessagesCompacted", summary |-> summary,
   retained |-> retained, dropped |-> dropped]
ApprovalRequested(id) == [kind |-> "ToolApprovalRequested", id |-> id]
ApprovalResolved(id) == [kind |-> "ToolApprovalResolved", id |-> id]
RunPaused(cont) == [kind |-> "RunPaused", cont |-> cont]

Commits(messages) == [i \in DOMAIN messages |-> Committed(messages[i])]

(* The messages that are in `stays`, in their order.                       *)
Kept(messages, stays) ==
  LET kept[i \in 0..Len(messages)] ==
        IF i = 0 THEN <<>>
        ELSE IF messages[i] \in stays THEN Append(kept[i - 1], messages[i])
        ELSE kept[i - 1]
  IN kept[Len(messages)]

(***************************************************************************)
(* validate_message_compaction_for_state: retained and dropped ids must    *)
(* together be exactly the ids of the current messages, and the summary    *)
(* must be new.  Every other effect of this model is always valid.         *)
(***************************************************************************)
Valid(state, e) ==
  e.kind = "MessagesCompacted" =>
    /\ ToSet(state.msgs) = e.retained \cup e.dropped
    /\ e.summary \notin ToSet(state.msgs)

(* apply_event, for an event that is valid in the state.                   *)
ApplyEvent(state, e) ==
  CASE e.kind = "RunStarted" ->
         [state EXCEPT !.run = e.run, !.status = "Running"]
    [] e.kind = "RunCompleted" ->
         [state EXCEPT !.status = "Completed", !.pending = {}]
    [] e.kind = "RunAborted" ->
         [state EXCEPT !.status = "Aborted", !.pending = {}]
    [] e.kind = "RunFailed" ->
         [state EXCEPT !.status = "Failed", !.pending = {}]
    [] e.kind = "PhaseFailed" -> [state EXCEPT !.status = "Failed"]
    [] e.kind = "RunPaused" -> [state EXCEPT !.status = "Paused"]
    [] e.kind = "RunResumed" -> [state EXCEPT !.status = "Running"]
    [] e.kind = "EffectCommitted" ->
         [state EXCEPT !.msgs = Append(@, e.message)]
    [] e.kind = "MessagesCompacted" ->
         [state EXCEPT !.msgs =
            <<e.summary>> \o Kept(@, e.retained)]
    [] e.kind = "ToolApprovalRequested" ->
         [state EXCEPT !.pending = @ \cup {e.id}]
    [] e.kind = "ToolApprovalResolved" ->
         [state EXCEPT !.pending = @ \ {e.id}]
    [] OTHER -> state
===============================================================================
