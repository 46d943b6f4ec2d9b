------------------------------- MODULE Goals -------------------------------
(***************************************************************************)
(* The goal of a session (interaction/goal.rs, the goal calls of           *)
(* interaction/registry.rs, tools/goal.rs): a record in the store that     *)
(* three parties read, change and write back as a whole: the listener that *)
(* asks for an audit when a turn completes, the tool agent.goal.update,    *)
(* and the clients of the control plane.                                   *)
(*                                                                         *)
(* A run is reduced to its turns: at the end of a turn the model wants     *)
(* another one (it called tools) or not, and a message that was steered    *)
(* meanwhile makes it take another one in any case.                        *)
(***************************************************************************)
EXTENDS Naturals

CONSTANTS
  MaxTurns,    \* bound: turns of all runs
  MaxRuns,     \* bound: runs
  MaxCalls,    \* bound: calls of the client
  Overlapping  \* whether a client's call may overlap the listener's or the tool's

VARIABLES
  goal,     \* the record in the store
  run,      \* [id, turn, pc, rec, called]: the run and its listener
  steered,  \* audit messages in the steering queue
  client,   \* the client's call in progress
  calls, turns,
  audited,  \* this turn is owed to an audit message alone
  untouched \* no client changed the goal since that audit was asked for

vars == <<goal, run, steered, client, calls, turns, audited, untouched>>

NoAudit == [run |-> 0, turn |-> 0, pending |-> FALSE]
NoGoal == [status |-> "none", audit |-> NoAudit]
IdleClient == [pc |-> "idle", status |-> "none", rec |-> NoGoal]

Init ==
  /\ goal = NoGoal
  /\ run = [id |-> 0, turn |-> 0, pc |-> "idle", rec |-> NoGoal]
  /\ steered = 0 /\ client = IdleClient /\ calls = 0 /\ turns = 0
  /\ audited = FALSE /\ untouched = TRUE

Pursuing(g) == g.status = "pursuing"
Final == {"achieved", "unmet", "budget_limited"}
AtRest == client = IdleClient /\ run.pc # "save"

-----------------------------------------------------------------------------
(* The run.                                                                *)

StartRun ==
  /\ run.pc = "idle" /\ run.id < MaxRuns /\ turns < MaxTurns
  /\ run' = [run EXCEPT !.id = @ + 1, !.turn = 1, !.pc = "turn"]
  /\ turns' = turns + 1 /\ audited' = FALSE /\ steered' = 0
  /\ UNCHANGED <<goal, client, calls, untouched>>

(* update_goal_status, called by the tool: only a pursued goal can be      *)
(* given a final status, but any goal can be taken up again.               *)
UpdateAllowed(g, status) == g # NoGoal /\ (Pursuing(g) \/ status = "pursuing")

UpdatedBy(g, status, id, turn) ==
  [g EXCEPT !.status = status, !.audit = [run |-> id, turn |-> turn, pending |-> FALSE]]

ToolUpdates(status) ==
  /\ run.pc = "turn" /\ (Overlapping \/ AtRest)
  /\ UpdateAllowed(goal, status)
  /\ goal' = UpdatedBy(goal, status, run.id, run.turn)
  /\ run' = [run EXCEPT !.pc = "ending"]
  /\ UNCHANGED <<steered, client, calls, turns, audited, untouched>>

(* TurnCompleted: the listener reads the goal ...                          *)
TurnCompleted ==
  /\ run.pc \in {"turn", "ending"}
  /\ Overlapping \/ client = IdleClient
  /\ run' = [run EXCEPT !.pc = IF Pursuing(goal) THEN "save" ELSE "decide", !.rec = goal]
  /\ UNCHANGED <<goal, steered, client, calls, turns, audited, untouched>>

(* ... and answers one audit by silence, does not ask again in the turn of *)
(* an update, and asks for an audit otherwise.                             *)
AsksAlways(g) == TRUE
Asks(g) == ~g.audit.pending /\ ~(g.audit.run = run.id /\ g.audit.turn = run.turn)

AuditListener ==
  /\ run.pc = "save"
  /\ LET g == run.rec
         updatedNow == ~g.audit.pending /\ ~Asks(g)
     IN /\ goal' = IF updatedNow THEN goal
                   ELSE [g EXCEPT !.audit = [run |-> run.id, turn |-> run.turn,
                                             pending |-> Asks(g)]]
        /\ steered' = IF Asks(g) THEN steered + 1 ELSE steered
  /\ run' = [run EXCEPT !.pc = "decide", !.rec = NoGoal]
  /\ untouched' = (untouched \/ Asks(run.rec))
  /\ UNCHANGED <<client, calls, turns, audited>>

(* The run goes on for the model's sake or for a steered message.          *)
Decide(more) ==
  /\ run.pc = "decide"
  /\ IF more \/ steered > 0
     THEN /\ turns < MaxTurns
          /\ run' = [run EXCEPT !.turn = @ + 1, !.pc = "turn"]
          /\ turns' = turns + 1
     ELSE run' = [run EXCEPT !.pc = "idle"] /\ turns' = turns
  /\ audited' = (steered > 0 /\ ~more)
  /\ steered' = 0
  /\ UNCHANGED <<goal, client, calls, untouched>>

-----------------------------------------------------------------------------
(* The client: goal/set, goal/pause, goal/resume, goal/clear, goal/update. *)

ClientReads(status) ==
  /\ client = IdleClient /\ calls < MaxCalls
  /\ Overlapping \/ AtRest
  /\ goal # NoGoal
  /\ calls' = calls + 1
  /\ client' = [pc |-> "write", status |-> status, rec |-> goal]
  /\ UNCHANGED <<goal, run, steered, turns, audited, untouched>>

(* set_goal_status ends an audit that is pending when the goal is no       *)
(* longer pursued; update_goal_status replaces it.                         *)
ClientChanges(g, status) ==
  IF status \in Final THEN UpdatedBy(g, status, 0, 0)
  ELSE [g EXCEPT !.status = status,
                 !.audit.pending = @ /\ status = "pursuing"]

ClientWrites ==
  /\ client.pc = "write"
  /\ goal' = IF client.status \in Final /\ ~Pursuing(client.rec) THEN goal
             ELSE ClientChanges(client.rec, client.status)
  /\ client' = IdleClient /\ untouched' = FALSE
  /\ UNCHANGED <<run, steered, calls, turns, audited>>

(* set_goal replaces the record without reading it.                        *)
SetGoal ==
  /\ client = IdleClient /\ calls < MaxCalls
  /\ Overlapping \/ AtRest
  /\ calls' = calls + 1
  /\ goal' = [status |-> "pursuing", audit |-> NoAudit]
  /\ untouched' = FALSE
  /\ UNCHANGED <<run, steered, client, turns, audited>>

Next ==
  \/ StartRun \/ TurnCompleted \/ AuditListener
  \/ \E status \in {"pursuing"} \cup Final : ToolUpdates(status)
  \/ \E more \in BOOLEAN : Decide(more)
  \/ \E status \in {"pursuing", "paused", "cleared"} \cup Final : ClientReads(status)
  \/ ClientWrites \/ SetGoal

Spec == Init /\ [][Next]_vars

-----------------------------------------------------------------------------
(* Properties.                                                             *)

(* The state is well typed.                                                *)
TypeOK ==
  /\ goal.status \in {"none", "pursuing", "paused", "cleared"} \cup Final
  /\ run.turn \in 0..MaxTurns /\ steered \in 0..2

(* A pursued goal never keeps a run going by itself: in a turn that is     *)
(* owed to an audit message alone no other audit is asked for, unless a    *)
(* client changed the goal since (the pending flag of the audit listener). *)
AuditsDoNotChain ==
  [][AuditListener /\ audited /\ untouched => steered' = steered]_vars

(* A goal that its client paused or cleared is not pursued again before    *)
(* the client or the tool says so: no step of the audit listener takes it  *)
(* up again.                                                               *)
ListenerKeepsStatus ==
  [][AuditListener => goal'.status = goal.status]_vars
=============================================================================
