-------------------------------- MODULE MCRun --------------------------------
(* Instances of the agent's run: its loop in four settings, and the       *)
(* policy that decides on its tool calls.  They share no state: a          *)
(* behaviour is one of one component in one setting, `part`, and the       *)
(* variables of the other are left alone.                                  *)
EXTENDS AgentLoop

(* Shell texts: a reading command and one handed to another shell,         *)
(* PowerShell, a shell's text that destroys first, and a blank one.        *)
Script(shell, blank, commands) ==
  [shell |-> shell, parses |-> TRUE, blank |-> blank, commands |-> commands]
InShell(kind, inner) == [kind |-> kind, inner |-> inner]
Scripts ==
  {Script("sh", FALSE, <<InShell("read", <<>>), InShell("sh", <<"read">>)>>),
   Script("sh", FALSE, <<InShell("sh", <<"destroy", "read">>)>>),
   Script("powershell", FALSE, <<InShell("read", <<>>)>>),
   Script("sh", TRUE, <<>>)}

VARIABLES
  part,        (* what this behaviour is one of *)
  policy, cache, approvalRun, approvalTurn, batch, verdict, client, restarts, granted, answered,
  ran

(* Two turns of up to two calls, two texts for a job, two clients that     *)
(* answer, one restart.  "auto_human" decides like "require".              *)
Approval == INSTANCE ApprovalPolicy WITH
    Policies <- {"allow_all", "require", "auto_reviewer", "auto_deny"},
    Jobs <- {1}, Texts <- {"yes", "no"}, PlainTools <- {"edit"}, Clients <- {"c1", "c2"},
    MaxBatch <- 2, MaxTurns <- 2, MaxRestarts <- 1, run <- approvalRun, turn <- approvalTurn

(* Two runs of several turns, and messages that arrive at any moment. *)
LoopTurns == INSTANCE AgentLoop WITH MaxTurns <- 2, NHooks <- 0, SteeringMode <- "OneAtATime",
    FollowUpMode <- "OneAtATime", Env <- {"steer", "steerUser", "followUp"}, MaxRuns <- 2,
    MaxQueued <- 3, MaxCalls <- 2

(* Aborts, resets and continue_run against two runs with approvals. *)
LoopAbort == INSTANCE AgentLoop WITH MaxTurns <- 1, NHooks <- 1, SteeringMode <- "OneAtATime",
    FollowUpMode <- "OneAtATime",
    Env <- {"approval", "abortPaused", "reset", "cancel", "continue", "followUp"}, MaxRuns <- 2,
    MaxQueued <- 1, MaxCalls <- 2

(* Listeners and an event store that fail, in a run with approvals and the *)
(* one after it.                                                           *)
LoopFails == INSTANCE AgentLoop WITH MaxTurns <- 2, NHooks <- 1, SteeringMode <- "OneAtATime",
    FollowUpMode <- "OneAtATime", Env <- {"approval", "sinkFail", "storeFail", "steer", "abortPaused"},
    MaxRuns <- 2, MaxQueued <- 1, MaxCalls <- 2

approvalVars == <<policy, cache, approvalRun, approvalTurn, batch, verdict, client, restarts,
                  granted, answered, ran>>

(* What the variables of the other components hold. *)
Off == "off"
ApprovalOff == policy = Off /\ cache = Off /\ approvalRun = Off /\ approvalTurn = Off /\
               batch = Off /\ verdict = Off /\ client = Off /\ restarts = Off /\
               granted = Off /\ answered = Off /\ ran = Off

MCInit ==
  \/ part = "pauses" /\ Init /\ ApprovalOff
  \/ part = "approval" /\ Approval!Init /\ Init
  \/ part = "turns" /\ LoopTurns!Init /\ ApprovalOff
  \/ part = "abort" /\ LoopAbort!Init /\ ApprovalOff
  \/ part = "fails" /\ LoopFails!Init /\ ApprovalOff

MCNext ==
  \/ part = "pauses" /\ Next /\ UNCHANGED <<part, approvalVars>>
  \/ part = "approval" /\ Approval!Next /\ UNCHANGED <<part, vars>>
  \/ part = "turns" /\ LoopTurns!Next /\ UNCHANGED <<part, approvalVars>>
  \/ part = "abort" /\ LoopAbort!Next /\ UNCHANGED <<part, approvalVars>>
  \/ part = "fails" /\ LoopFails!Next /\ UNCHANGED <<part, approvalVars>>

mcVars == <<part, vars, approvalVars>>

MCSpec == MCInit /\ [][MCNext]_mcVars

-----------------------------------------------------------------------------
(* Unless the policy is allow_all, a call that runs is read-only through   *)
(* and through, or it was allowed by a person or the reviewer, or it is a  *)
(* command that somebody allowed word for word earlier in the session, or  *)
(* it writes to (or ends) a job for which somebody allowed a write (an     *)
(* end) earlier, whatever the text was; a late answer to one approval      *)
(* never lets another call run (the hook, the session's cache and          *)
(* approval/resolve together).                                             *)
RunsAreCovered == part = "approval" => Approval!RunsAreCovered

(* A batch whose approvals were all allowed goes on.  Not so: see          *)
(* MCTwoApprovals.cfg.                                                     *)
AnsweredGoesOn == part = "approval" => Approval!AnsweredGoesOn
=============================================================================
