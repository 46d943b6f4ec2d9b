-------------------------- MODULE ToolExecuteProofs ---------------------------
(***************************************************************************)
(* Theorems about ToolExecute, for every number of calls and hooks, both   *)
(* modes and with or without failing listeners.                            *)
(*                                                                         *)
(* The safety of the batch rests on one fact about the whole phase: while  *)
(* any call is unchecked or pending, every execution is still waiting      *)
(* (Waiting and Decided below), and once the first execution begins the    *)
(* statuses do not change any more.                                        *)
(***************************************************************************)
EXTENDS ToolExecute, TLAPS

(* A hook is about to be asked, or an approval is pending, only at a hook  *)
(* that exists.                                                            *)
HookExists ==
  \A c \in Calls : status[c] \in {"open", "pending"} => next[c] \in Hooks

(* While a resume is recorded, every pending approval has its decision.    *)
DecisionMade ==
  pc = "resolving" => \A c \in Calls : status[c] = "pending" => decision[c] # "none"

TypeInv == TypeOK /\ HookExists /\ DecisionMade

Outcomes == {"Allow", "Deny"}
Decisions == [hook : Hooks, outcome : Outcomes]

(* A call that is open has a hook left to ask, with an index in range      *)
(* (prepare_one_tool_call).                                                *)
LEMMA HookRange ==
  ASSUME TypeInv, NEW c \in Calls, status[c] \in {"open", "pending"}
  PROVE  /\ next[c] \in Hooks /\ next[c] \in 1..NHooks
         /\ next[c] \in Nat /\ next[c] + 1 \in 1..(NHooks + 1)
  BY ToolAssumption DEF TypeInv, HookExists, Hooks

(* Type correctness of a step follows from that of the parts it changes.   *)
LEMMA TypeFrame ==
  ASSUME TypeInv
  PROVE  /\ UNCHANGED preflight => PreflightType' /\ HookExists'
         /\ UNCHANGED resume => ResumeType'
         /\ UNCHANGED execution => ExecutionType'
         /\ UNCHANGED history => HistoryType'
<1>1. UNCHANGED preflight => PreflightType'
  BY DEF TypeInv, TypeOK, PreflightType, preflight
<1>2. UNCHANGED preflight => HookExists'
  BY DEF TypeInv, HookExists, preflight
<1>3. UNCHANGED resume => ResumeType'
  BY DEF TypeInv, TypeOK, ResumeType, resume
<1>4. UNCHANGED execution => ExecutionType'
  BY DEF TypeInv, TypeOK, ExecutionType, execution
<1>5. UNCHANGED history => HistoryType'
  BY DEF TypeInv, TypeOK, HistoryType, history
<1> QED
  BY <1>1, <1>2, <1>3, <1>4, <1>5

(* Type correctness of the phase, with the hook index in range wherever    *)
(* prepare_one_tool_call or a resume uses it.                              *)
THEOREM TypeCorrect == Spec => []TypeInv
<1>1. Init => TypeInv
  <2> SUFFICES ASSUME Init PROVE TypeInv
    OBVIOUS
  <2>1. 1 \in 1..(NHooks + 1)
    BY ToolAssumption
  <2>2. PreflightType /\ ResumeType /\ ExecutionType
    BY <2>1 DEF Init, PreflightType, ResumeType, ExecutionType
  <2>3. HistoryType
    BY DEF Init, HistoryType
  <2>4. HookExists
    BY DEF Init, HookExists
  <2>5. DecisionMade
    BY DEF Init, DecisionMade
  <2> QED
    BY <2>2, <2>3, <2>4, <2>5 DEF Init, TypeInv, TypeOK
<1>2. TypeInv /\ [Next]_vars => TypeInv'
  <2> SUFFICES ASSUME TypeInv, [Next]_vars PROVE TypeInv'
    OBVIOUS
  <2>0. /\ pc' \in {"preflight", "paused", "resolving", "resumed", "execute", "done",
                    "failed", "stuck"}
        /\ cancelled' \in BOOLEAN
    BY DEF Next, Step, BeginCheck, AskHook, RecordResolution, StartCall, ToolAnswers,
           AfterHooks, Join, EndPreflight, RunResumed, JoinError, EndExecution,
           Resume, Cancel, vars, TypeInv, TypeOK
  <2>00. DecisionMade'
    <3>1. CASE Resume
      BY <3>1 DEF Resume, Pending, DecisionMade, preflight
    <3>2. CASE ~Resume /\ pc' = "resolving"
      <4>1. UNCHANGED <<pc, status, decision>>
        BY <3>2
        DEF Next, Step, BeginCheck, AskHook, RecordResolution, StartCall, ToolAnswers,
            AfterHooks, Join, EndPreflight, RunResumed, JoinError, EndExecution, Cancel,
            Checking, vars, preflight, resume
      <4> QED
        BY <4>1 DEF TypeInv, DecisionMade
    <3> QED
      BY <3>1, <3>2 DEF DecisionMade
  <2>1. ASSUME NEW c \in Calls, BeginCheck(c) PROVE TypeInv'
    <3>1. next[c] \in 1..(NHooks + 1)
      BY DEF TypeInv, TypeOK, PreflightType
    <3>2. StatusAt(next[c]) = "open" => next[c] \in Hooks
      BY <3>1, ToolAssumption DEF StatusAt, Hooks
    <3>3. status' \in [Calls -> {"new", "open", "ready", "denied", "pending", "error"}]
      BY <2>1 DEF BeginCheck, StatusAt, TypeInv, TypeOK, PreflightType
    <3>4. HookExists'
      BY <2>1, <3>2 DEF BeginCheck, StatusAt, TypeInv, TypeOK, PreflightType, HookExists
    <3> QED
      BY <2>0, <2>1, <2>00, <3>3, <3>4, TypeFrame
      DEF BeginCheck, TypeInv, TypeOK, PreflightType
  <2>2. ASSUME NEW c \in Calls, AskHook(c) PROVE TypeInv'
    <3>1. /\ next[c] \in Hooks /\ next[c] \in 1..NHooks
          /\ next[c] \in Nat /\ next[c] + 1 \in 1..(NHooks + 1)
      BY <2>2, HookRange DEF AskHook
    <3>2. HistoryType'
      <4>1. consulted' \in [Calls -> Seq(Hooks)]
        BY <2>2, <3>1 DEF AskHook, TypeInv, TypeOK, HistoryType
      <4>2. requested' \subseteq Calls \X Hooks
        BY <2>2, <3>1
        DEF AskHook, Deny, RequestApproval, TypeInv, TypeOK, HistoryType
      <4> QED
        BY <2>2, <4>1, <4>2 DEF AskHook, TypeInv, TypeOK, HistoryType
    <3>3. audit' \in [Calls -> Seq([hook : Hooks, outcome : {"Allow", "Deny"}])]
      <4>1. \/ audit' = audit
            \/ \E o \in Outcomes :
                 audit' = [audit EXCEPT ![c] = Append(@, [hook |-> next[c], outcome |-> o])]
        BY <2>2 DEF AskHook, Audited, Deny, RequestApproval, Outcomes
      <4>2. \A o \in Outcomes : [hook |-> next[c], outcome |-> o] \in Decisions
        BY <3>1 DEF Decisions
      <4>3. audit \in [Calls -> Seq(Decisions)]
        BY DEF TypeInv, TypeOK, PreflightType, Decisions, Outcomes
      <4>4. audit' \in [Calls -> Seq(Decisions)]
        <5>1. \A o \in Outcomes :
                Append(audit[c], [hook |-> next[c], outcome |-> o]) \in Seq(Decisions)
          BY <4>2, <4>3
        <5> QED
          BY <4>1, <4>3, <5>1
      <4> QED
        BY <4>4 DEF Decisions, Outcomes
    <3>4. /\ status' \in [Calls -> {"new", "open", "ready", "denied", "pending", "error"}]
          /\ next' \in [Calls -> 1..(NHooks + 1)]
      BY <2>2, <3>1
      DEF AskHook, ToNextHook, Deny, RequestApproval, StatusAt, TypeInv, TypeOK,
          PreflightType
    <3>5. HookExists'
      BY <2>2, <3>1, ToolAssumption
      DEF AskHook, ToNextHook, Deny, RequestApproval, StatusAt, TypeInv, TypeOK,
          PreflightType, HookExists, Hooks
    <3> QED
      BY <2>0, <2>00, <2>2, <3>2, <3>3, <3>4, <3>5, TypeFrame
      DEF AskHook, TypeInv, TypeOK, PreflightType
  <2>3. ASSUME NEW c \in Calls, RecordResolution(c) PROVE TypeInv'
    <3>1. next[c] \in Hooks
      BY <2>3, HookRange DEF RecordResolution, Pending
    <3>2. ResumeType'
      BY <2>3 DEF RecordResolution, TypeInv, TypeOK, ResumeType
    <3>3. HistoryType'
      BY <2>3, <3>1 DEF RecordResolution, TypeInv, TypeOK, HistoryType
    <3> QED
      BY <2>0, <2>00, <2>3, <3>2, <3>3, TypeFrame DEF RecordResolution, TypeInv, TypeOK
  <2>4. ASSUME NEW c \in Calls, StartCall(c) PROVE TypeInv'
    <3>1. ExecutionType'
      BY <2>4 DEF StartCall, TypeInv, TypeOK, ExecutionType
    <3>2. HistoryType'
      <4>1. /\ invoked' = invoked \/ invoked' = [invoked EXCEPT ![c] = @ + 1]
            /\ UNCHANGED <<consulted, requested, granted, refused>>
        BY <2>4 DEF StartCall
      <4>2. invoked \in [Calls -> Nat] /\ invoked[c] + 1 \in Nat
        BY DEF TypeInv, TypeOK, HistoryType
      <4>3. invoked' \in [Calls -> Nat]
        BY <4>1, <4>2
      <4> QED
        BY <4>1, <4>3 DEF TypeInv, TypeOK, HistoryType
    <3> QED
      BY <2>0, <2>00, <2>4, <3>1, <3>2, TypeFrame DEF StartCall, TypeInv, TypeOK
  <2>5. ASSUME NEW c \in Calls, ToolAnswers(c) PROVE TypeInv'
    <3>1. ExecutionType'
      BY <2>5 DEF ToolAnswers, TypeInv, TypeOK, ExecutionType
    <3> QED
      BY <2>0, <2>00, <2>5, <3>1, TypeFrame DEF ToolAnswers, TypeInv, TypeOK
  <2>6. ASSUME NEW c \in Calls, AfterHooks(c) PROVE TypeInv'
    <3>1. ExecutionType'
      BY <2>6 DEF AfterHooks, TypeInv, TypeOK, ExecutionType
    <3> QED
      BY <2>0, <2>00, <2>6, <3>1, TypeFrame DEF AfterHooks, TypeInv, TypeOK
  <2>7. ASSUME NEW c \in Calls, Join(c) PROVE TypeInv'
    <3>1. ExecutionType'
      BY <2>7 DEF Join, TypeInv, TypeOK, ExecutionType
    <3> QED
      BY <2>0, <2>00, <2>7, <3>1, TypeFrame DEF Join, TypeInv, TypeOK
  <2>8. CASE EndPreflight
    BY <2>0, <2>00, <2>8, TypeFrame DEF EndPreflight, TypeInv, TypeOK
  <2>9. CASE RunResumed
    <3>1. CASE UNCHANGED <<preflight, granted>>
      <4>1. HistoryType'
        BY <2>9, <3>1 DEF RunResumed, TypeInv, TypeOK, HistoryType
      <4> QED
        BY <2>0, <2>00, <2>9, <3>1, <4>1, TypeFrame DEF RunResumed, TypeInv, TypeOK
    <3>2. CASE /\ pc' = "resumed"
               /\ status' = [c \in Calls |->
                    IF c \in Allowed THEN "new"
                    ELSE IF c \in Pending THEN "denied" ELSE status[c]]
               /\ next' = [c \in Calls |->
                    IF c \in Allowed THEN AfterApproval(c) ELSE next[c]]
               /\ audit' = [c \in Calls |->
                    IF c \in Pending
                    THEN Append(audit[c], [hook |-> next[c], outcome |-> decision[c]])
                    ELSE audit[c]]
               /\ granted' = granted \cup {<<c, next[c]>> : c \in Allowed}
      <4> USE <3>2
      <4>1. \A c \in Pending : /\ c \in Calls /\ next[c] \in Hooks
                               /\ next[c] + 1 \in 1..(NHooks + 1)
        BY HookRange DEF Pending
      <4>2. Allowed \subseteq Pending
        BY DEF Allowed
      <4>3. status' \in [Calls -> {"new", "open", "ready", "denied", "pending", "error"}]
        BY DEF TypeInv, TypeOK, PreflightType
      <4>4. next' \in [Calls -> 1..(NHooks + 1)]
        BY <4>1, <4>2 DEF AfterApproval, TypeInv, TypeOK, PreflightType
      <4>5. audit' \in [Calls -> Seq([hook : Hooks, outcome : {"Allow", "Deny"}])]
        <5>1. \A c \in Pending : decision[c] \in Outcomes
          BY <2>9 DEF RunResumed, Pending, Outcomes, TypeInv, TypeOK, ResumeType,
                      DecisionMade
        <5>2. \A c \in Pending : [hook |-> next[c], outcome |-> decision[c]] \in Decisions
          BY <4>1, <5>1 DEF Decisions
        <5>3. audit \in [Calls -> Seq(Decisions)]
          BY DEF TypeInv, TypeOK, PreflightType, Decisions, Outcomes
        <5>4. audit' \in [Calls -> Seq(Decisions)]
          BY <5>2, <5>3
        <5> QED
          BY <5>4 DEF Decisions, Outcomes
      <4>6. HistoryType'
        BY <2>9, <4>1, <4>2 DEF RunResumed, TypeInv, TypeOK, HistoryType
      <4>7. HookExists'
        BY <4>1, <4>2 DEF Pending, Allowed, TypeInv, TypeOK, PreflightType, HookExists
      <4> QED
        BY <2>0, <2>00, <2>9, <4>3, <4>4, <4>5, <4>6, <4>7, TypeFrame
        DEF RunResumed, TypeInv, TypeOK, PreflightType
    <3> QED
      BY <2>9, <3>1, <3>2 DEF RunResumed
  <2>10. CASE JoinError
    <3>1. ExecutionType'
      BY <2>10 DEF JoinError, TypeInv, TypeOK, ExecutionType
    <3> QED
      BY <2>0, <2>00, <2>10, <3>1, TypeFrame DEF JoinError, TypeInv, TypeOK
  <2>11. CASE EndExecution
    <3>1. results' \in Seq(Calls)
      BY <2>11, ToolAssumption DEF EndExecution, InSourceOrder, Calls
    <3>2. ExecutionType'
      BY <2>11, <3>1 DEF EndExecution, TypeInv, TypeOK, ExecutionType
    <3> QED
      BY <2>0, <2>00, <2>11, <3>2, TypeFrame DEF EndExecution, TypeInv, TypeOK
  <2>12. CASE Resume
    <3>1. ResumeType'
      BY <2>12 DEF Resume, Pending, TypeInv, TypeOK, ResumeType
    <3> QED
      BY <2>0, <2>00, <2>12, <3>1, TypeFrame DEF Resume, TypeInv, TypeOK
  <2>13. CASE Cancel
    BY <2>0, <2>00, <2>13, TypeFrame DEF Cancel, TypeInv, TypeOK
  <2>14. CASE UNCHANGED vars
    BY <2>0, <2>00, <2>14, TypeFrame DEF vars, TypeInv, TypeOK
  <2> QED
    BY <2>1, <2>2, <2>3, <2>4, <2>5, <2>6, <2>7, <2>8, <2>9, <2>10, <2>11, <2>12,
       <2>13, <2>14 DEF Next, Step
<1> QED
  BY <1>1, <1>2, PTL DEF Spec

-----------------------------------------------------------------------------
(* The gate of the batch.                                                  *)

(* No execution has begun while hooks are asked or approvals are open.     *)
Waiting ==
  pc \in {"preflight", "paused", "resolving", "resumed", "stuck"}
    => \A c \in Calls : exec[c] = "waiting"

(* The phase is past its checks only with every call decided.              *)
Decided ==
  (pc \in {"execute", "done"} \/ \E c \in Calls : exec[c] # "waiting")
    => \A d \in Calls : status[d] \in {"ready", "denied"}

(* A tool provider was called at most once, for a ready call whose         *)
(* execution has begun.                                                    *)
InvokedOnce ==
  \A c \in Calls : /\ invoked[c] <= 1
                   /\ exec[c] = "waiting" => invoked[c] = 0
                   /\ invoked[c] > 0 => status[c] = "ready"

GateInv == Waiting /\ Decided /\ InvokedOnce

(* No step starts a tool of a batch that has an unchecked or pending call, *)
(* and none takes a decision back once a tool has run.                     *)
LEMMA GateStep == TypeInv /\ TypeInv' /\ GateInv /\ [Next]_vars => GateInv'
<1> SUFFICES ASSUME TypeInv, TypeInv', GateInv, [Next]_vars PROVE GateInv'
  OBVIOUS
<1> USE DEF GateInv, Waiting, Decided, InvokedOnce
<1>1. ASSUME UNCHANGED <<exec, invoked>>,
             \A c \in Calls : exec[c] = "waiting",
             pc' \in {"execute", "done"}
               => \A d \in Calls : status'[d] \in {"ready", "denied"}
      PROVE  GateInv'
  BY <1>1
<1>2. ASSUME NEW c \in Calls, BeginCheck(c) PROVE GateInv'
  BY <1>1, <1>2 DEF BeginCheck, Checking, execution, history
<1>3. ASSUME NEW c \in Calls, AskHook(c) PROVE GateInv'
  BY <1>1, <1>3 DEF AskHook, Checking, execution
<1>4. ASSUME NEW c \in Calls, RecordResolution(c) PROVE GateInv'
  BY <1>1, <1>4 DEF RecordResolution, execution
<1>5. ASSUME NEW c \in Calls, StartCall(c) PROVE GateInv'
  <2>1. /\ status' = status /\ pc' = pc /\ pc = "execute"
        /\ exec[c] = "waiting" /\ invoked[c] = 0
    BY <1>5 DEF StartCall, preflight
  <2>2. \A d \in Calls : d # c => exec'[d] = exec[d] /\ invoked'[d] = invoked[d]
    BY <1>5 DEF StartCall, TypeInv, TypeOK, ExecutionType, HistoryType
  <2>3. exec'[c] # "waiting" /\ invoked'[c] <= 1 /\ (invoked'[c] > 0 => status[c] = "ready")
    BY <1>5, <2>1 DEF StartCall, Runs, TypeInv, TypeOK, ExecutionType, HistoryType
  <2> QED
    BY <2>1, <2>2, <2>3
<1>6. ASSUME NEW c \in Calls, ToolAnswers(c) PROVE GateInv'
  BY <1>6 DEF ToolAnswers, preflight, history, TypeInv, TypeOK, ExecutionType
<1>7. ASSUME NEW c \in Calls, AfterHooks(c) PROVE GateInv'
  BY <1>7 DEF AfterHooks, preflight, history, TypeInv, TypeOK, ExecutionType
<1>8. ASSUME NEW c \in Calls, Join(c) PROVE GateInv'
  BY <1>8 DEF Join, preflight, history, TypeInv, TypeOK, ExecutionType
<1>9. CASE EndPreflight
  <2>1. /\ UNCHANGED <<exec, invoked, status>>
        /\ \A c \in Calls : exec[c] = "waiting"
        /\ \A c \in Calls : status[c] \in Checked
    BY <1>9 DEF EndPreflight, Checking, preflight, execution, history
  <2>2. pc' = "paused" \/ (pc' = "execute" /\ Pending = {})
    BY <1>9 DEF EndPreflight, Pauses
  <2> QED
    BY <1>1, <2>1, <2>2 DEF Checked, Pending
<1>10. CASE RunResumed
  BY <1>1, <1>10 DEF RunResumed, execution
<1>11. CASE JoinError
  BY <1>11 DEF JoinError, preflight, history
<1>12. CASE EndExecution
  BY <1>12 DEF EndExecution, preflight, history
<1>13. CASE Resume
  BY <1>1, <1>13 DEF Resume, execution, history
<1>14. CASE Cancel
  BY <1>14 DEF Cancel, preflight, execution, history
<1>15. CASE UNCHANGED vars
  BY <1>15 DEF vars, preflight, execution, history
<1> QED
  BY <1>2, <1>3, <1>4, <1>5, <1>6, <1>7, <1>8, <1>9, <1>10, <1>11, <1>12, <1>13,
     <1>14, <1>15 DEF Next, Step

(* The gate's invariant holds in every behaviour of the phase.             *)
LEMMA GateHolds == Spec => []GateInv
<1>1. Init => GateInv
  BY DEF Init, GateInv, Waiting, Decided, InvokedOnce
<1> QED
  BY <1>1, TypeCorrect, GateStep, PTL DEF Spec

(* While any call of the batch is unchecked or pending, no tool of the     *)
(* batch has run, in either mode and over any number of pauses             *)
(* (tool_execute, resume_tool_approval_continuation).                      *)
THEOREM BatchGated == Spec => []BatchGate
<1>1. TypeInv /\ GateInv => BatchGate
  BY DEF GateInv, Decided, InvokedOnce, BatchGate, TypeInv, TypeOK, HistoryType
<1> QED
  BY <1>1, TypeCorrect, GateHolds, PTL

(* No pause, resume or retried resume runs a tool again.                   *)
THEOREM ToolsOnce == Spec => []AtMostOnce
<1>1. GateInv => AtMostOnce
  BY DEF GateInv, InvokedOnce, AtMostOnce
<1> QED
  BY <1>1, GateHolds, PTL
-----------------------------------------------------------------------------
(* Approvals and denials.                                                  *)

(* An approval that was asked for and is not granted is still pending, or  *)
(* its call is denied.                                                     *)
ApprovalInv ==
  \A c \in Calls, h \in Hooks :
    <<c, h>> \in requested /\ <<c, h>> \notin granted
      => status[c] = "denied" \/ (status[c] = "pending" /\ next[c] = h)

(* What the phase does to the approvals outside its preflight: nothing.    *)
LEMMA PreflightFrame ==
  ASSUME NEW c \in Calls,
         \/ StartCall(c) \/ ToolAnswers(c) \/ AfterHooks(c) \/ Join(c)
         \/ RecordResolution(c) \/ EndPreflight \/ JoinError \/ EndExecution
         \/ Resume \/ Cancel \/ UNCHANGED vars
  PROVE  UNCHANGED <<status, next, audit, consulted, requested, granted>>
  BY DEF StartCall, ToolAnswers, AfterHooks, Join, RecordResolution, EndPreflight,
         JoinError, EndExecution, Resume, Cancel, vars, preflight, history

(* The only steps that change what was asked, granted or decided about a   *)
(* call are its checks and the end of a resume.                            *)
LEMMA PreflightCases ==
  ASSUME [Next]_vars
  PROVE  \/ \E c \in Calls : BeginCheck(c) \/ AskHook(c)
         \/ RunResumed
         \/ UNCHANGED <<status, next, audit, consulted, requested, granted>>
<1>1. 1 \in Calls
  BY ToolAssumption DEF Calls
<1> QED
  BY <1>1, PreflightFrame DEF Next, Step

(* Every step keeps what is known of an approval: it is granted, or its    *)
(* call is pending at the hook that asked, or denied.                      *)
LEMMA ApprovalStep == TypeInv /\ ApprovalInv /\ [Next]_vars => ApprovalInv'
<1> SUFFICES ASSUME TypeInv, ApprovalInv, [Next]_vars PROVE ApprovalInv'
  OBVIOUS
<1> USE DEF ApprovalInv
<1>1. ASSUME NEW c \in Calls, BeginCheck(c) PROVE ApprovalInv'
  <2>1. /\ \A d \in Calls : d # c => status'[d] = status[d]
        /\ status[c] = "new" /\ UNCHANGED <<next, requested, granted>>
    BY <1>1 DEF BeginCheck, history, TypeInv, TypeOK, PreflightType
  <2> QED
    BY <2>1
<1>2. ASSUME NEW c \in Calls, AskHook(c) PROVE ApprovalInv'
  <2>1. /\ \A d \in Calls : d # c => status'[d] = status[d] /\ next'[d] = next[d]
        /\ status[c] = "open" /\ UNCHANGED granted
    BY <1>2
    DEF AskHook, ToNextHook, Deny, RequestApproval, TypeInv, TypeOK, PreflightType
  <2>2. \/ UNCHANGED requested
        \/ /\ requested' = requested \cup {<<c, next[c]>>}
           /\ status'[c] = "pending" /\ next'[c] = next[c]
    BY <1>2 DEF AskHook, RequestApproval, TypeInv, TypeOK, PreflightType
  <2> QED
    BY <2>1, <2>2
<1>3. ASSUME RunResumed PROVE ApprovalInv'
  <2>1. CASE UNCHANGED <<preflight, granted>>
    BY <1>3, <2>1 DEF RunResumed, preflight
  <2>2. CASE ~UNCHANGED <<preflight, granted>>
    <3>1. /\ \A c \in Calls : status'[c] =
               IF c \in Allowed THEN "new" ELSE IF c \in Pending THEN "denied" ELSE status[c]
          /\ \A c \in Calls : c \notin Allowed => next'[c] = next[c]
          /\ granted' = granted \cup {<<c, next[c]>> : c \in Allowed}
          /\ requested' = requested
      BY <1>3, <2>2 DEF RunResumed
    <3> QED
      BY <3>1 DEF Pending, Allowed
  <2> QED
    BY <2>1, <2>2
<1>4. ASSUME UNCHANGED <<status, next, audit, consulted, requested, granted>>
      PROVE  ApprovalInv'
  BY <1>4
<1> QED
  BY <1>1, <1>2, <1>3, <1>4, PreflightCases

(* A tool runs only when every approval asked for its call, by any hook    *)
(* and in any pause, was granted by a resume that went on.                 *)
THEOREM ApprovedBeforeRun == Spec => []InvokedApproved
<1>1. Init => ApprovalInv
  BY DEF Init, ApprovalInv
<1>2. ApprovalInv /\ GateInv /\ TypeInv => InvokedApproved
  BY DEF ApprovalInv, GateInv, InvokedOnce, InvokedApproved
<1> QED
  BY <1>1, <1>2, TypeCorrect, GateHolds, ApprovalStep, PTL DEF Spec
(* A denial is the last decision about a call, which stays denied.         *)
DenialInv ==
  \A c \in Calls : \A i \in DOMAIN audit[c] :
    audit[c][i].outcome = "Deny" => status[c] = "denied"

(* A Deny in the audit of a call leaves the call denied for good.          *)
LEMMA DenialStep == TypeInv /\ DenialInv /\ [Next]_vars => DenialInv'
<1> SUFFICES ASSUME TypeInv, DenialInv, [Next]_vars PROVE DenialInv'
  OBVIOUS
<1> USE DEF DenialInv
<1>0. audit \in [Calls -> Seq(Decisions)]
  BY DEF TypeInv, TypeOK, PreflightType, Decisions, Outcomes
<1>1. ASSUME NEW c \in Calls, BeginCheck(c) PROVE DenialInv'
  <2>1. /\ \A d \in Calls : d # c => status'[d] = status[d]
        /\ status[c] = "new" /\ UNCHANGED audit
    BY <1>1 DEF BeginCheck, TypeInv, TypeOK, PreflightType
  <2> QED
    BY <2>1
<1>2. ASSUME NEW c \in Calls, AskHook(c) PROVE DenialInv'
  <2>1. /\ \A d \in Calls : d # c => status'[d] = status[d]
        /\ status[c] = "open"
    BY <1>2
    DEF AskHook, ToNextHook, Deny, RequestApproval, TypeInv, TypeOK, PreflightType
  <2>2. CASE audit' = audit
    BY <2>1, <2>2
  <2>3. ASSUME NEW o \in Outcomes,
               audit' = [audit EXCEPT ![c] = Append(@, [hook |-> next[c], outcome |-> o])],
               o = "Deny" => status'[c] = "denied"
        PROVE  DenialInv'
    <3>1. \A d \in Calls : d # c => audit'[d] = audit[d]
      BY <1>0, <2>3
    <3>2. \A i \in DOMAIN audit'[c] :
            audit'[c][i].outcome = "Deny" => status'[c] = "denied"
      <4>1. audit'[c] = Append(audit[c], [hook |-> next[c], outcome |-> o])
        BY <1>0, <2>3
      <4>2. audit[c] \in Seq(Decisions)
        BY <1>0
      <4>3. \A i \in DOMAIN audit'[c] :
              \/ i \in DOMAIN audit[c] /\ audit'[c][i] = audit[c][i]
              \/ audit'[c][i].outcome = o
        BY <4>1, <4>2
      <4> QED
        BY <2>1, <2>3, <4>3
    <3> QED
      BY <2>1, <3>1, <3>2
  <2> QED
    BY <1>2, <2>2, <2>3
    DEF AskHook, Audited, Deny, RequestApproval, Outcomes, TypeInv, TypeOK, PreflightType
<1>3. ASSUME RunResumed PROVE DenialInv'
  <2>1. CASE UNCHANGED <<preflight, granted>>
    BY <1>3, <2>1 DEF RunResumed, preflight
  <2>2. CASE ~UNCHANGED <<preflight, granted>>
    <3> SUFFICES ASSUME NEW c \in Calls, NEW i \in DOMAIN audit'[c],
                        audit'[c][i].outcome = "Deny"
                 PROVE  status'[c] = "denied"
      OBVIOUS
    <3>1. /\ status'[c] =
               IF c \in Allowed THEN "new" ELSE IF c \in Pending THEN "denied" ELSE status[c]
          /\ audit'[c] =
               IF c \in Pending
               THEN Append(audit[c], [hook |-> next[c], outcome |-> decision[c]])
               ELSE audit[c]
      BY <1>3, <2>2 DEF RunResumed
    <3>2. audit[c] \in Seq(Decisions)
      BY <1>0
    <3>3. CASE c \notin Pending
      BY <3>1, <3>3 DEF Allowed
    <3>4. CASE c \in Pending
      <4>1. \/ i \in DOMAIN audit[c] /\ audit'[c][i] = audit[c][i]
            \/ audit'[c][i].outcome = decision[c]
        BY <3>1, <3>2, <3>4
      <4>2. decision[c] = "Deny"
        BY <3>4, <4>1 DEF Pending
      <4> QED
        BY <3>1, <3>4, <4>2 DEF Allowed
    <3> QED
      BY <3>3, <3>4
  <2> QED
    BY <2>1, <2>2
<1>4. ASSUME UNCHANGED <<status, next, audit, consulted, requested, granted>>
      PROVE  DenialInv'
  BY <1>4
<1> QED
  BY <1>1, <1>2, <1>3, <1>4, PreflightCases

(* A tool whose call a hook or a resolution denied is never called.        *)
THEOREM DeniedSkipsTool == Spec => []DeniedNeverRuns
<1>1. Init => DenialInv
  BY DEF Init, DenialInv
<1>2. DenialInv /\ GateInv /\ TypeInv => DeniedNeverRuns
  <2> SUFFICES ASSUME DenialInv, GateInv, TypeInv, NEW c \in Calls,
                      NEW i \in DOMAIN audit[c], audit[c][i].outcome = "Deny"
               PROVE  invoked[c] = 0
    BY DEF DeniedNeverRuns
  <2>1. status[c] = "denied" /\ ~(invoked[c] > 0) /\ invoked[c] \in Nat
    BY DEF DenialInv, GateInv, InvokedOnce, TypeInv, TypeOK, HistoryType
  <2> QED
    BY <2>1
<1> QED
  BY <1>1, <1>2, TypeCorrect, GateHolds, DenialStep, PTL DEF Spec

-----------------------------------------------------------------------------
(* Hooks.                                                                  *)

(* The hooks asked about a call are exactly those before the next one, and *)
(* the one that asked for an approval that is still pending.               *)
HookOrder(c) ==
  /\ \A i \in DOMAIN consulted[c] : consulted[c][i] = i
  /\ status[c] \in {"new", "open", "ready"} => Len(consulted[c]) = next[c] - 1
  /\ status[c] = "ready" => next[c] = NHooks + 1
  /\ status[c] = "pending" => Len(consulted[c]) = next[c]

HookInv == \A c \in Calls : HookOrder(c)

(* The hooks asked about a call are those before its next one, in order.   *)
LEMMA HookStep == TypeInv /\ TypeInv' /\ HookInv /\ [Next]_vars => HookInv'
<1> SUFFICES ASSUME TypeInv, TypeInv', HookInv, [Next]_vars PROVE HookInv'
  OBVIOUS
<1>0. \A c \in Calls : /\ next[c] \in 1..(NHooks + 1) /\ consulted[c] \in Seq(Hooks)
                       /\ HookOrder(c)
  BY DEF TypeInv, TypeOK, PreflightType, HistoryType, HookInv
<1>1. ASSUME NEW c \in Calls, BeginCheck(c) PROVE HookInv'
  <2>1. /\ \A d \in Calls : d # c => status'[d] = status[d]
        /\ status[c] = "new" /\ UNCHANGED <<next, consulted>>
        /\ status'[c] \in {StatusAt(next[c]), "error"}
    BY <1>1 DEF BeginCheck, history, TypeInv, TypeOK, PreflightType
  <2>2. HookOrder(c)'
    BY <1>0, <2>1, ToolAssumption DEF HookOrder, StatusAt
  <2>3. \A d \in Calls : d # c => HookOrder(d)'
    BY <1>0, <2>1 DEF HookOrder
  <2> QED
    BY <2>2, <2>3 DEF HookInv
<1>2. ASSUME NEW c \in Calls, AskHook(c) PROVE HookInv'
  <2>1. /\ \A d \in Calls : d # c => /\ status'[d] = status[d] /\ next'[d] = next[d]
                                     /\ consulted'[d] = consulted[d]
        /\ status[c] = "open" /\ consulted'[c] = Append(consulted[c], next[c])
    BY <1>2
    DEF AskHook, ToNextHook, Deny, RequestApproval, TypeInv, TypeOK, PreflightType,
        HistoryType
  <2>2. \/ next'[c] = next[c] + 1 /\ status'[c] = StatusAt(next[c] + 1)
        \/ next'[c] = next[c] /\ status'[c] \in {"denied", "pending", "error"}
    BY <1>2
    DEF AskHook, ToNextHook, Deny, RequestApproval, TypeInv, TypeOK, PreflightType
  <2>3. /\ Len(consulted'[c]) = next[c]
        /\ \A i \in DOMAIN consulted'[c] : consulted'[c][i] = i
    BY <1>0, <2>1 DEF HookOrder
  <2>4. next[c] \in Nat /\ NHooks \in Nat /\ next[c] <= NHooks
    BY <2>1, HookRange, ToolAssumption
  <2>5. HookOrder(c)'
    BY <2>2, <2>3, <2>4 DEF HookOrder, StatusAt
  <2>6. \A d \in Calls : d # c => HookOrder(d)'
    BY <1>0, <2>1 DEF HookOrder
  <2> QED
    BY <2>5, <2>6 DEF HookInv
<1>3. ASSUME RunResumed PROVE HookInv'
  <2>1. CASE UNCHANGED <<preflight, granted>>
    BY <1>0, <1>3, <2>1 DEF RunResumed, preflight, HookInv, HookOrder
  <2>2. CASE ~UNCHANGED <<preflight, granted>>
    <3> SUFFICES ASSUME NEW c \in Calls PROVE HookOrder(c)'
      BY DEF HookInv
    <3>1. /\ status'[c] =
               IF c \in Allowed THEN "new" ELSE IF c \in Pending THEN "denied" ELSE status[c]
          /\ next'[c] = IF c \in Allowed THEN next[c] + 1 ELSE next[c]
          /\ consulted' = consulted
      BY <1>3, <2>2 DEF RunResumed, AfterApproval
    <3>2. c \in Allowed => status[c] = "pending"
      BY DEF Allowed, Pending
    <3> QED
      BY <1>0, <3>1, <3>2 DEF HookOrder
  <2> QED
    BY <2>1, <2>2
<1>4. ASSUME UNCHANGED <<status, next, audit, consulted, requested, granted>>
      PROVE  HookInv'
  BY <1>0, <1>4 DEF HookInv, HookOrder
<1> QED
  BY <1>1, <1>2, <1>3, <1>4, PreflightCases

(* Over all pauses and resumes every hook is asked about a call at most    *)
(* once, in order, and all of them before its tool runs (hook_index + 1 in *)
(* resume_tool_approval_continuation).                                     *)
THEOREM HooksInOrder == Spec => []HooksOnceInOrder
<1>1. Init => HookInv
  BY DEF Init, HookInv, HookOrder
<1>2. HookInv /\ GateInv /\ TypeInv => HooksOnceInOrder
  <2> SUFFICES ASSUME HookInv, GateInv, TypeInv, NEW c \in Calls
               PROVE  /\ \A i \in DOMAIN consulted[c] : consulted[c][i] = i
                      /\ invoked[c] > 0 => Len(consulted[c]) = NHooks
    BY DEF HooksOnceInOrder
  <2>1. HookOrder(c) /\ (invoked[c] > 0 => status[c] = "ready")
    BY DEF HookInv, GateInv, InvokedOnce
  <2> QED
    BY <2>1, ToolAssumption DEF HookOrder
<1> QED
  BY <1>1, <1>2, TypeCorrect, GateHolds, HookStep, PTL DEF Spec

-----------------------------------------------------------------------------
(* The refinement of ApprovalGate.                                         *)

(* Before any tool has run the refinement's `ran` is empty.                *)
LEMMA NoneRan ==
  ASSUME TypeInv, GateInv,
         pc \in {"preflight", "paused", "resolving", "resumed", "stuck"}
  PROVE  {c \in Calls : invoked[c] > 0} = {}
  BY DEF GateInv, Waiting, InvokedOnce, TypeInv, TypeOK, HistoryType

(* A step that changes neither verdicts nor runs is a stutter of the gate. *)
LEMMA GateStutter ==
  ASSUME UNCHANGED <<status, invoked>>
  PROVE  UNCHANGED Gate!gateVars
  BY DEF Gate!gateVars

(* A step of the checks decides calls and never takes a decision back.     *)
LEMMA GateDecides ==
  ASSUME TypeInv, TypeInv', GateInv, UNCHANGED invoked,
         pc \in {"preflight", "paused", "resolving", "resumed", "stuck"},
         \A c \in Calls : status[c] \in {"ready", "denied"} => status'[c] = status[c]
  PROVE  Gate!Decide
<1> DEFINE v == [c \in Calls |-> Verdict(status'[c])]
<1>1. v \in [Calls -> {"open", "allowed", "denied"}]
  BY DEF Verdict
<1>2. \A c \in Calls : Verdict(status[c]) # "open" => v[c] = Verdict(status[c])
  BY DEF Verdict
<1> QED
  BY <1>1, <1>2, NoneRan DEF Gate!Decide

(* Every step of the phase is a step of ApprovalGate or a stutter.         *)
LEMMA GateStepMaps ==
  TypeInv /\ TypeInv' /\ GateInv /\ [Next]_vars => [Gate!Next]_(Gate!gateVars)
<1> SUFFICES ASSUME TypeInv, TypeInv', GateInv, [Next]_vars
             PROVE  Gate!Next \/ UNCHANGED Gate!gateVars
  OBVIOUS
<1>1. ASSUME NEW c \in Calls, BeginCheck(c) PROVE Gate!Decide
  BY <1>1, GateDecides
  DEF BeginCheck, Checking, history, TypeInv, TypeOK, PreflightType
<1>2. ASSUME NEW c \in Calls, AskHook(c) PROVE Gate!Decide
  BY <1>2, GateDecides
  DEF AskHook, Checking, ToNextHook, Deny, RequestApproval, TypeInv, TypeOK, PreflightType
<1>3. ASSUME RunResumed PROVE Gate!Decide
  BY <1>3, GateDecides DEF RunResumed, Pending, Allowed, preflight
<1>4. ASSUME NEW c \in Calls, StartCall(c)
      PROVE  Gate!Run(c) \/ UNCHANGED Gate!gateVars
  <2>1. CASE UNCHANGED invoked
    BY <1>4, <2>1, GateStutter DEF StartCall, preflight
  <2>2. CASE ~UNCHANGED invoked
    <3>1. /\ pc = "execute" /\ exec[c] = "waiting" /\ status[c] = "ready"
          /\ status' = status /\ invoked' = [invoked EXCEPT ![c] = @ + 1]
      BY <1>4, <2>2 DEF StartCall, Runs, preflight
    <3>2. /\ invoked[c] = 0
          /\ \A d \in Calls : status[d] \in {"ready", "denied"}
      BY <3>1 DEF GateInv, Decided, InvokedOnce
    <3>3. {d \in Calls : invoked'[d] > 0} = {d \in Calls : invoked[d] > 0} \cup {c}
      BY <3>1, <3>2 DEF TypeInv, TypeOK, HistoryType
    <3> QED
      BY <3>1, <3>2, <3>3 DEF Gate!Run, Verdict
  <2> QED
    BY <2>1, <2>2
<1>5. ASSUME NEW c \in Calls,
             ToolAnswers(c) \/ AfterHooks(c) \/ Join(c) \/ RecordResolution(c)
      PROVE  UNCHANGED Gate!gateVars
  BY <1>5, GateStutter
  DEF ToolAnswers, AfterHooks, Join, RecordResolution, preflight, history
<1>6. ASSUME \/ EndPreflight \/ JoinError \/ EndExecution \/ Resume \/ Cancel
             \/ UNCHANGED vars
      PROVE  UNCHANGED Gate!gateVars
  BY <1>6, GateStutter
  DEF EndPreflight, JoinError, EndExecution, Resume, Cancel, vars, preflight, history
<1> QED
  BY <1>1, <1>2, <1>3, <1>4, <1>5, <1>6 DEF Next, Step, Gate!Next

(* The phase, with its hooks, pauses and failures, implements the gate     *)
(* that ApprovalGate describes.                                            *)
THEOREM ImplementsGate == Spec => GateSpec
<1>1. Init => Gate!Init
  BY DEF Init, Gate!Init, Verdict
<1> QED
  BY <1>1, TypeCorrect, GateHolds, GateStepMaps, PTL DEF Spec, GateSpec, Gate!Spec
===============================================================================
