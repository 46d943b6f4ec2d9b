------------------------------- MODULE MCEnds -------------------------------
(* Instances of what must end: a run of the agent whose listeners and      *)
(* providers fail, its tool execution phase, and the host processes and    *)
(* subagents that its tools start.  They share no state: a behaviour is    *)
(* one of one component, `part`, and the variables of the others are left  *)
(* alone.                                                                  *)
EXTENDS ToolExecute

VARIABLES
  part,        (* what this behaviour is one of *)
  child, pipe, reader, watcher, outcome, kill, processStatus, spool, call, processCalls, writes,
  completions, follower,
  kid, observers, told, tool, subagentCalls, restarts, deletes, owed,
  loopPc, todo, ok, cause, run, loopCancelled, turn, startPhase, recordTurn, phase, input,
  reply, loopCalls, loopDecision, local, agent, stored, replayable, cont, raced, whole, steering,
  followUp, held, obsCommitted, aborter, asked, sent, queuedLog, nextCall, dropped

(* One write of the child, read by pages and at once; two calls. *)
Process == INSTANCE HostProcess WITH Spool <- 2, Sizes <- {3}, ReadSizes <- {1, 9},
    MaxWrites <- 1, MaxCalls <- 2, status <- processStatus, calls <- processCalls

(* A child prompted twice, deleted or restarted once. *)
Subagent == INSTANCE Subagents WITH Kids <- {"k1"}, MaxRuns <- 2, MaxCalls <- 1,
    MaxRestarts <- 1, MaxDeletes <- 1, calls <- subagentCalls

(* The same batch, its calls one after the other. *)
Sequence == INSTANCE ToolExecute WITH NCalls <- NCalls, NHooks <- NHooks, Mode <- "Sequential",
    SinkFails <- FALSE

(* A run whose listeners and providers fail, and which is cancelled, at any point. *)
Loop == INSTANCE AgentLoop WITH MaxTurns <- 2, NHooks <- 1, SteeringMode <- "All",
    FollowUpMode <- "OneAtATime",
    Env <- {"approval", "sinkFail", "providerFail", "cancel", "steer", "steerUser", "followUp"},
    MaxRuns <- 1, MaxQueued <- 2, MaxCalls <- 1, pc <- loopPc, cancelled <- loopCancelled,
    calls <- loopCalls, decision <- loopDecision

ASSUME Process!HostProcessAssumption

processVars == <<child, pipe, reader, watcher, outcome, kill, processStatus, spool, call,
                 processCalls, writes, completions, follower>>
subagentVars == <<kid, observers, told, tool, subagentCalls, restarts, deletes, owed>>
failuresVars == <<loopPc, todo, ok, cause, run, loopCancelled, turn, startPhase, recordTurn,
                  phase, input, reply, loopCalls, loopDecision, local, agent, stored,
                  replayable, cont, raced, whole, steering, followUp, held, obsCommitted, aborter,
                  asked, sent, queuedLog, nextCall, dropped>>

(* What the variables of the other components hold. *)
Off == "off"
ProcessOff == child = Off /\ pipe = Off /\ reader = Off /\ watcher = Off /\ outcome = Off /\
              kill = Off /\ processStatus = Off /\ spool = Off /\ call = Off /\
              processCalls = Off /\ writes = Off /\ completions = Off /\ follower = Off
SubagentOff == kid = Off /\ observers = Off /\ told = Off /\ tool = Off /\
               subagentCalls = Off /\ restarts = Off /\ deletes = Off /\ owed = Off
FailuresOff == loopPc = Off /\ todo = Off /\ ok = Off /\ cause = Off /\ run = Off /\
               loopCancelled = Off /\ turn = Off /\ startPhase = Off /\ recordTurn = Off /\
               phase = Off /\ input = Off /\ reply = Off /\ loopCalls = Off /\
               loopDecision = Off /\ local = Off /\ agent = Off /\ stored = Off /\
               replayable = Off /\ cont = Off /\ raced = Off /\ whole = Off /\ steering = Off /\
               followUp = Off /\ held = Off /\ obsCommitted = Off /\ aborter = Off /\
               asked = Off /\ sent = Off /\ queuedLog = Off /\ nextCall = Off /\ dropped = Off

MCInit ==
  \/ part = "parallel" /\ Init /\ ProcessOff /\ SubagentOff /\ FailuresOff
  \/ part = "process" /\ Process!Init /\ Init /\ SubagentOff /\ FailuresOff
  \/ part = "subagent" /\ Subagent!Init /\ Init /\ ProcessOff /\ FailuresOff
  \/ part = "sequential" /\ Sequence!Init /\ ProcessOff /\ SubagentOff /\ FailuresOff
  \/ part = "failures" /\ Loop!Init /\ Init /\ ProcessOff /\ SubagentOff

MCNext ==
  \/ part = "parallel" /\ Next /\ UNCHANGED <<part, processVars, subagentVars, failuresVars>>
  \/ part = "process" /\ Process!Next /\ UNCHANGED <<part, vars, subagentVars, failuresVars>>
  \/ part = "subagent" /\ Subagent!Next /\ UNCHANGED <<part, vars, processVars, failuresVars>>
  \/ part = "sequential" /\ Sequence!Next /\ UNCHANGED <<part, processVars, subagentVars,
     failuresVars>>
  \/ part = "failures" /\ Loop!Next /\ UNCHANGED <<part, vars, processVars, subagentVars>>

mcVars == <<part, vars, processVars, subagentVars, failuresVars>>

MCSpec ==
  /\ MCInit /\ [][MCNext]_mcVars
  /\ WF_processVars(part = "process" /\ Process!Tasks)
  /\ WF_subagentVars(part = "subagent" /\ Subagent!Tasks)
  /\ WF_vars(part = "sequential" /\ Sequence!Step)
  /\ WF_failuresVars(part = "failures" /\ Loop!Driver)

-----------------------------------------------------------------------------
(* A caller that follows the output by passing back nextCursor, and that   *)
(* is told the job ended and was never told that something was truncated,  *)
(* has every chunk the job wrote: the readers are joined before the status *)
(* is set, and read takes the status before the output.                    *)
FollowerHasAll == part = "process" => Process!FollowerHasAll

(* terminate and close return once the process is gone and nobody holds    *)
(* its pipes: the request reaches the watcher, which is not stuck behind a *)
(* writer, the readers see the end, and the notification is not missed.    *)
Terminating(c) == part = "process" /\ call[c].op = "terminate"
TerminateReturns ==
  \A c \in {"tool", "owner"} :
    (Terminating(c) /\ child.state = "dead" /\ ~child.held)
      ~> (part = "process" /\ ~Terminating(c))

(* The parent hears of every run of a child that was prompted through the  *)
(* control plane and ended well, unless the child is deleted, the process  *)
(* restarts in between, or the observer that the prompt spawns missed the  *)
(* one wake-up of a later run's end (wait_for_idle looks and registers in  *)
(* two steps) and no run of the child ends any more, which would wake it.  *)
Owed(n) == part = "subagent" /\ n \in owed["k1"]
ParentIsTold ==
  \A n \in 1..2 :
    Owed(n) ~> ((part = "subagent" /\ ~Owed(n))
                \/ [](part = "subagent" /\ Subagent!Missed("k1", n)))

(* The tool phase ends: it waits for approvals, is done, or has failed.    *)
(* And every run ends, completed, paused, aborted or failed, and the agent *)
(* is idle again, whatever fails and whatever arrives (the turn loop of    *)
(* run_turns_from).                                                        *)
Sequential == part = "sequential"
RunsEnd ==
  /\ (Sequential /\ pc \in {"preflight", "resumed", "execute"})
       ~> (Sequential /\ pc \in {"paused", "done", "failed"})
  /\ (part = "failures" /\ ~Loop!Idle) ~> (part = "failures" /\ Loop!Idle)

-----------------------------------------------------------------------------
(* Statements of the documents and tests that the code does not keep: each *)
(* is violated when it is named as an invariant of this module's instance. *)

(* The parent is told what a run put out.  It may be told what a later run *)
(* of the child did: the observer reads the child once more (control.rs).  *)
OutputReported == part = "subagent" => Subagent!OutputReported
=============================================================================
