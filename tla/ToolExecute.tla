----------------------------- MODULE ToolExecute ------------------------------
(***************************************************************************)
(* The tool.execute phase over one batch of tool calls (phase/tool.rs),    *)
(* with the approval pauses and resumes that lie inside it                 *)
(* (runtime/approval.rs): every call is checked by the hooks, in parallel  *)
(* or in source order; if a hook asks for approval of any call the run     *)
(* pauses and no tool runs; a resume records the decisions, goes on with   *)
(* the hooks after the one that asked, and may pause again; otherwise the  *)
(* tools run and their results are put back into source order.             *)
(*                                                                         *)
(* Every await is a point where other calls of the batch, a cancellation   *)
(* or, in the pause, another resume may come in between.  A call is its    *)
(* index in source order and a hook its index in the list of hooks; the    *)
(* text of arguments, outputs and reasons is left out.                     *)
(*                                                                         *)
(* A definition with a longer name just above the one it resembles         *)
(* (DenyMovesOn above Deny) is a faulty variant of it: it shows which      *)
(* property notices the fault, and nothing else uses it.                   *)
(***************************************************************************)
EXTENDS Naturals, Sequences, FiniteSets

CONSTANTS NCalls,     (* tool calls of the batch                             *)
          NHooks,     (* tool call hooks of the runtime                      *)
          Mode,       (* tool_execution_mode_for_calls                       *)
          SinkFails   (* event listeners may fail while a resume is recorded *)

ASSUME ToolAssumption ==
  /\ NCalls \in Nat \ {0} /\ NHooks \in Nat
  /\ Mode \in {"Parallel", "Sequential"}
  /\ SinkFails \in BOOLEAN

Calls == 1..NCalls
Hooks == 1..NHooks

VARIABLES
  pc,         (* where the phase, or the pause inside it, is                 *)
  status,     (* preflight of each call: "new", "open" while hooks are asked,*)
              (* then ready, denied or pending; "error" of a failed check    *)
  next,       (* the next hook to ask; of a pending call, the one that asked *)
  audit,      (* permission_audit.decisions of each call                     *)
  decision,   (* resolutions of the resume in progress                       *)
  recorded,   (* calls whose resolution event this resume has recorded       *)
  exec,       (* execution of each call                                      *)
  output,     (* its ToolOutput                                              *)
  completed,  (* completed_tool_outputs: calls in the order they finished    *)
  results,    (* effects: the calls whose result messages are appended       *)
  cancelled,  (* the CancellationToken of the run                            *)
  invoked,    (* history: times the tool provider was called                 *)
  consulted,  (* history: hooks asked, in order                              *)
  requested,  (* history: approvals asked for, as <<call, hook>>             *)
  granted,    (* history: approvals resolved with Allow in a resume that went on *)
  refused     (* history: approvals with a Deny resolution in the event log  *)

preflight == <<status, next, audit>>
resume == <<decision, recorded>>
execution == <<exec, output, completed, results>>
history == <<invoked, consulted, requested, granted, refused>>
vars == <<pc, preflight, resume, execution, cancelled, history>>

Init ==
  /\ pc = "preflight"
  /\ status = [c \in Calls |-> "new"]
  /\ next = [c \in Calls |-> 1]
  /\ audit = [c \in Calls |-> <<>>]
  /\ decision = [c \in Calls |-> "none"] /\ recorded = {}
  /\ exec = [c \in Calls |-> "waiting"]
  /\ output = [c \in Calls |-> "none"]
  /\ completed = <<>> /\ results = <<>>
  /\ cancelled = FALSE
  /\ invoked = [c \in Calls |-> 0]
  /\ consulted = [c \in Calls |-> <<>>]
  /\ requested = {} /\ granted = {} /\ refused = {}

-----------------------------------------------------------------------------
(* Preflight: prepare_one_tool_call for every call.                        *)

Checking == pc \in {"preflight", "resumed"}
Checked == {"ready", "denied", "pending"}

(* Parallel preflights are tasks of their own; sequential ones, and those  *)
(* of a resume in either mode, are made in source order.                   *)
InTurnAnyOrder(c) == TRUE
InTurn(c) ==
  \/ pc = "preflight" /\ Mode = "Parallel"
  \/ \A d \in 1..(c - 1) : status[d] \in Checked

(* A call that no hook is left to check is ready.                          *)
StatusAtPast(hook) == IF hook > NHooks + 1 THEN "ready" ELSE "open"
StatusAt(hook) == IF hook > NHooks THEN "ready" ELSE "open"

(* throw_if_cancelled and the lookup of the tool, which may be gone when a *)
(* call goes on after an approval.                                         *)
BeginCheck(c) ==
  /\ Checking /\ status[c] = "new" /\ InTurn(c)
  /\ \/ ~cancelled /\ status' = [status EXCEPT ![c] = StatusAt(next[c])]
     \/ status' = [status EXCEPT ![c] = "error"]
  /\ UNCHANGED <<pc, next, audit, resume, execution, cancelled, history>>

Audited(c, outcome) ==
  audit' = [audit EXCEPT ![c] = Append(@, [hook |-> next[c], outcome |-> outcome])]

ToNextHook(c) ==
  /\ next' = [next EXCEPT ![c] = @ + 1]
  /\ status' = [status EXCEPT ![c] = StatusAt(next[c] + 1)]

(* A hook that denies ends the checks of the call; one that has nothing to *)
(* say or allows leaves it to the next hook.                               *)
DenyMovesOn(c) == Audited(c, "Deny") /\ ToNextHook(c)
Deny(c) ==
  /\ Audited(c, "Deny")
  /\ status' = [status EXCEPT ![c] = "denied"]
  /\ UNCHANGED next

RequestIgnored(c) ==
  requested' = requested \cup {<<c, next[c]>>} /\ ToNextHook(c) /\ UNCHANGED audit
RequestApproval(c) ==
  /\ requested' = requested \cup {<<c, next[c]>>}
  /\ status' = [status EXCEPT ![c] = "pending"]
  /\ UNCHANGED <<next, audit>>

(* before_tool_call of the next hook: nothing to say, a decision, a        *)
(* request for approval, or an error.                                      *)
AskHook(c) ==
  /\ Checking /\ status[c] = "open" /\ InTurn(c)
  /\ consulted' = [consulted EXCEPT ![c] = Append(@, next[c])]
  /\ \/ ToNextHook(c) /\ UNCHANGED <<audit, requested>>
     \/ ToNextHook(c) /\ Audited(c, "Allow") /\ UNCHANGED requested
     \/ Deny(c) /\ UNCHANGED requested
     \/ RequestApproval(c)
     \/ /\ status' = [status EXCEPT ![c] = "error"]
        /\ UNCHANGED <<next, audit, requested>>
  /\ UNCHANGED <<pc, resume, execution, cancelled, invoked, granted, refused>>

Pending == {c \in Calls : status[c] = "pending"}

(* Any pending call pauses the whole batch: set_tool_approval_pause.       *)
PausesUnlessReady == \A c \in Calls : status[c] # "ready"
Pauses == Pending # {}

EndPreflight ==
  /\ Checking /\ \A c \in Calls : status[c] \in Checked
  /\ pc' = IF Pauses THEN "paused" ELSE "execute"
  /\ UNCHANGED <<preflight, resume, execution, cancelled, history>>

-----------------------------------------------------------------------------
(* Resume: resolve_tool_approval_decisions, the events, and the loop of    *)
(* resume_tool_approval_continuation over the preflights.                  *)

(* Every pending approval has a decision: the caller's or a timeout's,     *)
(* which denies.  The run gets a new token.                                *)
Resume ==
  /\ pc = "paused"
  /\ \E d \in [Pending -> {"Allow", "Deny"}] :
       decision' = [c \in Calls |-> IF c \in Pending THEN d[c] ELSE "none"]
  /\ recorded' = {} /\ cancelled' = FALSE
  /\ pc' = "resolving"
  /\ UNCHANGED <<preflight, execution, history>>

(* ToolApprovalResolved or ToolApprovalExpired is in the event log; a      *)
(* listener that fails on it ends the resume and the run stays paused.     *)
RecordResolution(c) ==
  /\ pc = "resolving"
  /\ c \in Pending \ recorded
  /\ \A d \in Pending : d < c => d \in recorded
  /\ refused' = refused \cup (IF decision[c] = "Deny" THEN {<<c, next[c]>>} ELSE {})
  /\ recorded' = recorded \cup {c}
  /\ \/ UNCHANGED pc
     \/ SinkFails /\ pc' = "paused"
  /\ UNCHANGED <<preflight, decision, execution, cancelled, invoked, consulted,
                 requested, granted>>

AllowedAll == Pending
Allowed == {c \in Pending : decision[c] = "Allow"}

(* Where a resumed call goes on: hook_index + 1.                           *)
AfterApprovalSame(c) == next[c]
AfterApproval(c) == next[c] + 1

(* RunResumed is recorded and the phase goes on.  A listener that fails on *)
(* it leaves the run's log saying Running with nothing to drive it.        *)
RunResumed ==
  /\ pc = "resolving" /\ Pending \subseteq recorded
  /\ \/ /\ pc' = "resumed"
        /\ status' = [c \in Calls |->
             IF c \in Allowed THEN "new" ELSE IF c \in Pending THEN "denied" ELSE status[c]]
        /\ next' = [c \in Calls |-> IF c \in Allowed THEN AfterApproval(c) ELSE next[c]]
        /\ audit' = [c \in Calls |->
             IF c \in Pending
             THEN Append(audit[c], [hook |-> next[c], outcome |-> decision[c]])
             ELSE audit[c]]
        /\ granted' = granted \cup {<<c, next[c]>> : c \in Allowed}
     \/ SinkFails /\ pc' = "stuck" /\ UNCHANGED <<preflight, granted>>
  /\ UNCHANGED <<resume, execution, cancelled, invoked, consulted, requested, refused>>

-----------------------------------------------------------------------------
(* Execution: execute_prepared_tool_call for every call.                   *)

ExecTurn(c) == Mode = "Parallel" \/ \A d \in 1..(c - 1) : exec[d] = "joined"

(* A denied call gets its error output and a ready one its tool provider.  *)
RunsAlways(c) == status[c] # "pending"
Runs(c) == status[c] = "ready"

(* The tool of a call that was ready before the pause may be gone after a  *)
(* resume (MissingTool).                                                   *)
Resumed == recorded # {}
ToolGone(c) == Resumed /\ status[c] = "ready"

StartCall(c) ==
  /\ pc = "execute" /\ exec[c] = "waiting" /\ ExecTurn(c)
  /\ \/ /\ cancelled \/ ToolGone(c)
        /\ exec' = [exec EXCEPT ![c] = "error"]
        /\ UNCHANGED <<output, invoked>>
     \/ /\ ~cancelled /\ ~Runs(c)
        /\ exec' = [exec EXCEPT ![c] = "finished"]
        /\ output' = [output EXCEPT ![c] = "denied"]
        /\ UNCHANGED invoked
     \/ /\ ~cancelled /\ Runs(c)
        /\ exec' = [exec EXCEPT ![c] = "running"]
        /\ invoked' = [invoked EXCEPT ![c] = @ + 1]
        /\ UNCHANGED output
  /\ UNCHANGED <<pc, preflight, resume, completed, results, cancelled, consulted,
                 requested, granted, refused>>

(* The tool returns an output, an error that becomes one, or Aborted, with *)
(* the token cancelled or not.                                             *)
ToolAnswersRetry(c) ==
  /\ pc = "execute" /\ exec[c] = "running"
  /\ \E answer \in {"ok", "error"} :
       /\ output' = [output EXCEPT ![c] = answer]
       /\ exec' = [exec EXCEPT ![c] = IF answer = "ok" THEN "after" ELSE "waiting"]
  /\ UNCHANGED <<pc, preflight, resume, completed, results, cancelled, history>>
ToolAnswers(c) ==
  /\ pc = "execute" /\ exec[c] = "running"
  /\ \/ /\ \E answer \in {"ok", "error"} : output' = [output EXCEPT ![c] = answer]
        /\ exec' = [exec EXCEPT ![c] = "after"]
     \/ exec' = [exec EXCEPT ![c] = "error"] /\ UNCHANGED output
  /\ UNCHANGED <<pc, preflight, resume, completed, results, cancelled, history>>

(* after_tool_call of the hooks: the output as it is or rewritten, or an   *)
(* error that fails the phase although the tool has run.                   *)
AfterHooks(c) ==
  /\ pc = "execute" /\ exec[c] = "after"
  /\ \/ exec' = [exec EXCEPT ![c] = "finished"] /\ UNCHANGED output
     \/ /\ NHooks > 0
        /\ \E answer \in {"ok", "error"} : output' = [output EXCEPT ![c] = answer]
        /\ exec' = [exec EXCEPT ![c] = "finished"]
     \/ NHooks > 0 /\ exec' = [exec EXCEPT ![c] = "error"] /\ UNCHANGED output
  /\ UNCHANGED <<pc, preflight, resume, completed, results, cancelled, history>>

Join(c) ==
  /\ pc = "execute" /\ exec[c] = "finished"
  /\ exec' = [exec EXCEPT ![c] = "joined"]
  /\ completed' = Append(completed, c)
  /\ UNCHANGED <<pc, preflight, resume, output, results, cancelled, history>>

(* The first error that is joined fails the phase: abort_all, and the      *)
(* outputs collected so far are dropped.                                   *)
TaskFailedRunning(c) == exec[c] = "error"
TaskFailed(c) == status[c] = "error" \/ exec[c] = "error"

JoinError ==
  /\ Checking \/ pc = "execute"
  /\ \E c \in Calls : TaskFailed(c)
  /\ pc' = "failed"
  /\ completed' = <<>>
  /\ UNCHANGED <<preflight, resume, exec, output, results, cancelled, history>>

(* append_tool_execution_effects.                                          *)
InCompletionOrder == completed
InSourceOrder == [i \in Calls |-> i]

EndExecution ==
  /\ pc = "execute" /\ \A c \in Calls : exec[c] = "joined"
  /\ results' = InSourceOrder
  /\ pc' = "done"
  /\ UNCHANGED <<preflight, resume, exec, output, completed, cancelled, history>>

Cancel ==
  /\ pc \in {"preflight", "resolving", "resumed", "execute"} /\ ~cancelled
  /\ cancelled' = TRUE
  /\ UNCHANGED <<pc, preflight, resume, execution, history>>

-----------------------------------------------------------------------------
Step ==
  \/ \E c \in Calls :
       \/ BeginCheck(c) \/ AskHook(c) \/ RecordResolution(c)
       \/ StartCall(c) \/ ToolAnswers(c) \/ AfterHooks(c) \/ Join(c)
  \/ EndPreflight \/ RunResumed \/ JoinError \/ EndExecution

Next == Step \/ Resume \/ Cancel

Spec == Init /\ [][Next]_vars

(* Hooks and tools answer in the end, and the runtime polls their tasks.   *)
FairSpec == Spec /\ WF_vars(Step)
-----------------------------------------------------------------------------
(* Properties.                                                             *)

PreflightType ==
  /\ status \in [Calls -> {"new", "open", "ready", "denied", "pending", "error"}]
  /\ next \in [Calls -> 1..(NHooks + 1)]
  /\ audit \in [Calls -> Seq([hook : Hooks, outcome : {"Allow", "Deny"}])]

ResumeType ==
  decision \in [Calls -> {"none", "Allow", "Deny"}] /\ recorded \subseteq Calls

ExecutionType ==
  /\ exec \in [Calls -> {"waiting", "running", "after", "finished", "joined", "error"}]
  /\ output \in [Calls -> {"none", "ok", "error", "denied"}]
  /\ completed \in Seq(Calls) /\ results \in Seq(Calls)

HistoryType ==
  /\ invoked \in [Calls -> Nat] /\ consulted \in [Calls -> Seq(Hooks)]
  /\ requested \subseteq Calls \X Hooks
  /\ granted \subseteq Calls \X Hooks /\ refused \subseteq Calls \X Hooks

(* The type of the phase's state (phase/tool.rs).                          *)
TypeOK ==
  /\ pc \in {"preflight", "paused", "resolving", "resumed", "execute", "done",
              "failed", "stuck"}
  /\ cancelled \in BOOLEAN
  /\ PreflightType /\ ResumeType /\ ExecutionType /\ HistoryType

(* No tool of the batch runs while any call of it is unchecked or waits    *)
(* for an approval: one pending call holds back all of them                *)
(* (tool_execute, execute_prepared_tool_call).                             *)
BatchGate ==
  (\E c \in Calls : invoked[c] > 0)
    => \A d \in Calls : status[d] \in {"ready", "denied"}

(* A tool runs only if every approval that was ever asked for its call, in *)
(* this pause or an earlier one, was granted by a resume.                  *)
InvokedApproved ==
  \A c \in Calls, h \in Hooks :
    invoked[c] > 0 /\ <<c, h>> \in requested => <<c, h>> \in granted

(* A denied call, by a hook or by a resolution, never reaches its tool.    *)
DeniedNeverRuns ==
  \A c \in Calls : \A i \in DOMAIN audit[c] :
    audit[c][i].outcome = "Deny" => invoked[c] = 0

(* However often the phase pauses and resumes, a tool is called once.      *)
AtMostOnce == \A c \in Calls : invoked[c] <= 1

(* Every hook is asked once about a call and in the order of the hooks: a  *)
(* resume neither asks the hook again that asked for approval nor skips    *)
(* one after it, and a tool runs only after all of them.                   *)
HooksOnceInOrder ==
  \A c \in Calls :
    /\ \A i \in DOMAIN consulted[c] : consulted[c][i] = i
    /\ invoked[c] > 0 => Len(consulted[c]) = NHooks

(* The results are one for every call, in source order whatever the order  *)
(* of completion, and the completed outputs are the same calls.            *)
ResultsInOrder ==
  pc = "done" => /\ results = [i \in Calls |-> i]
                 /\ Len(completed) = NCalls
                 /\ \A c \in Calls : \E i \in Calls : completed[i] = c
                 /\ \A c \in Calls : output[c] = "denied" <=> invoked[c] = 0

(* Hooks are asked about a call only when every call before it in source   *)
(* order is checked.                                                       *)
PreflightInSourceOrder ==
  [][\A c \in Calls : consulted'[c] # consulted[c]
       => \A d \in 1..(c - 1) : status[d] \in Checked]_vars

(* An approval whose Deny is in the event log never lets the tool run.     *)
RecordedDenyHonoured ==
  \A c \in Calls, h \in Hooks : <<c, h>> \in refused => invoked[c] = 0

(* The phase ends: it waits for approvals, is done, or has failed.         *)
PhaseEnds == pc \in {"preflight", "resumed", "execute"} ~> pc \in {"paused", "done", "failed"}

(* The phase implements what ApprovalGate promises about the batch.        *)
Verdict(st) ==
  IF st = "ready" THEN "allowed" ELSE IF st = "denied" THEN "denied" ELSE "open"

Gate == INSTANCE ApprovalGate WITH
  verdict <- [c \in Calls |-> Verdict(status[c])],
  ran <- {c \in Calls : invoked[c] > 0}

GateSpec == Gate!Spec
===============================================================================
