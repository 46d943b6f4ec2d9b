----------------------------- MODULE ApprovalGate -----------------------------
(***************************************************************************)
(* What the tool.execute phase promises about one batch of tool calls,     *)
(* whatever hooks, approvals, pauses and failures lie in between: each     *)
(* call is decided once, no tool runs before every call of the batch is    *)
(* decided, a denied tool never runs and an allowed one runs at most once. *)
(***************************************************************************)
CONSTANT Calls   (* the tool calls of the batch *)

VARIABLES verdict,   (* of each call: "open", "allowed" or "denied" *)
          ran        (* the calls whose tool provider was invoked   *)

gateVars == <<verdict, ran>>

GateTypeOK ==
  /\ verdict \in [Calls -> {"open", "allowed", "denied"}]
  /\ ran \subseteq Calls

Init == verdict = [c \in Calls |-> "open"] /\ ran = {}

(* Hooks and the people they ask have decided about some calls.            *)
Decide ==
  /\ ran = {}
  /\ \E v \in [Calls -> {"open", "allowed", "denied"}] :
       /\ \A c \in Calls : verdict[c] # "open" => v[c] = verdict[c]
       /\ verdict' = v
  /\ UNCHANGED ran

Run(c) ==
  /\ \A d \in Calls : verdict[d] # "open"
  /\ verdict[c] = "allowed" /\ c \notin ran
  /\ ran' = ran \cup {c}
  /\ UNCHANGED verdict

Next == Decide \/ \E c \in Calls : Run(c)

Spec == Init /\ [][Next]_gateVars
===============================================================================
