------------------------------- MODULE AgentLoop -------------------------------
(***************************************************************************)
(* One Agent (agent.rs) driving one AgentRuntime (runtime/run_loop.rs,     *)
(* runtime/approval.rs): runs made of turns, turns made of phases, the     *)
(* steering and follow-up queues drained between turns, pause on tool      *)
(* approval and resume from the event log, abort, and the failures of      *)
(* providers and event listeners.                                          *)
(*                                                                         *)
(* The code between two awaits is one action.  A handler computes the      *)
(* events it will record and leaves them in `todo`; Record takes one event *)
(* at a time through record_event, so that every other actor can run       *)
(* between two of them.                                                    *)
(*                                                                         *)
(* The event store of the current run is kept by what the code reads from  *)
(* it: `stored` is reduce_events of the run's log (a left fold, so one     *)
(* more event is one more ApplyEvent), `replayable` says whether that fold *)
(* met no invalid event, `cont` is the latest RunPaused continuation.      *)
(*                                                                         *)
(* A definition with a longer name just above the one it resembles         *)
(* (RemainingNone above Remaining) is a faulty variant of it: it shows     *)
(* which property notices the fault, and nothing else uses it.             *)
(***************************************************************************)
EXTENDS AgentState, Functions

CONSTANTS MaxTurns,      (* max_turns of the runtime                         *)
          NHooks,        (* number of tool call hooks                        *)
          SteeringMode,  (* QueueMode of the steering queue                  *)
          FollowUpMode,  (* QueueMode of the follow-up queue                 *)
          Env,           (* what the environment does, a subset of EnvSteps  *)
          MaxRuns,       (* bound: runs started                              *)
          MaxQueued,     (* bound: messages put in the queues                *)
          MaxCalls       (* bound: tool calls the model makes                *)

EnvSteps == {"steer", "steerUser", "followUp", "continue", "approval", "cancel",
             "abortPaused", "reset", "sinkFail", "storeFail", "providerFail", "compact"}

QueueModes == {"OneAtATime", "All"}

ASSUME LoopAssumption ==
  /\ MaxTurns \in Nat \ {0}
  /\ NHooks \in Nat
  /\ {SteeringMode, FollowUpMode} \subseteq QueueModes
  /\ Env \subseteq EnvSteps
  /\ {MaxRuns, MaxQueued, MaxCalls} \subseteq Nat

VARIABLES
  pc,          (* where the task that drives the run is                     *)
  todo,        (* events it has still to record                             *)
  ok,          (* the run's result is a RunReport, not an error             *)
  cause,       (* of an error on its way to record_run_error                *)
  run,         (* number of the latest run                                  *)
  cancelled,   (* the CancellationToken of the active run                   *)
  turn, startPhase, recordTurn,            (* RunTurnCursor                 *)
  phase,                                   (* index of the next phase       *)
  input, reply, calls, decision,           (* PhaseScratch                  *)
  local,       (* the driver's own `&mut AgentState`                        *)
  agent,       (* AgentInner.state, what Agent::state returns               *)
  stored, replayable, cont,                (* the run's event log           *)
  raced,       (* history: an abort of a paused run was recorded while that
                  run, resumed, went on, or in a later run                  *)
  whole,       (* history: the run began with a transcript that holds the
                  result of every tool call in it                           *)
  steering, followUp,                      (* the two queues                *)
  held,        (* user inputs drained from steering, not yet put back       *)
  obsCommitted,(* committed_stop_steering                                   *)
  aborter,     (* an Agent::abort of a paused run, in progress              *)
  asked,       (* history: the model was asked in this turn                 *)
  sent,        (* history: messages put in the queues                       *)
  queuedLog,   (* history: queued messages committed to a transcript        *)
  nextCall,    (* history: tool calls made so far, plus one                 *)
  dropped      (* history: a listener or the store failed, or a reset       *)

control == <<pc, todo, ok, cause, run, cancelled>>
cursor == <<turn, startPhase, recordTurn, phase, input, reply, calls, decision>>
log == <<stored, replayable, cont, raced, whole>>
queues == <<steering, followUp, held, obsCommitted>>
history == <<asked, sent, queuedLog, nextCall, dropped>>
vars == <<control, cursor, local, agent, log, queues, aborter, history>>

(* default_phases, with context.compact where the builder inserts it.      *)
Phases == <<"input.ingest", "context.prepare", "context.compact",
            "model.request.prepare", "model.stream", "assistant.commit",
            "tool.call.resolve", "tool.execute", "turn.decision">>

(* phase_index_after("tool.execute").                                      *)
AfterToolExecuteSame == 8
AfterToolExecutePast == 11
AfterToolExecute == 9

NoInput == Message("none", 0, 0, <<>>)
NoCont == [turn |-> 0, calls |-> <<>>, pending |-> {}]
NoAborter == [st |-> "none", run |-> 0, replayable |-> FALSE]

Idle == pc = "idle"
Quiet == todo = <<>>

Init ==
  /\ pc = "idle" /\ todo = <<>> /\ ok = TRUE /\ cause = "none"
  /\ run = 0 /\ cancelled = FALSE
  /\ turn = 0 /\ startPhase = 1 /\ recordTurn = TRUE /\ phase = 1
  /\ input = NoInput /\ reply = <<>> /\ calls = <<>> /\ decision = "None"
  /\ local = DefaultState /\ agent = DefaultState
  /\ stored = DefaultState /\ replayable = TRUE /\ cont = NoCont /\ raced = FALSE
  /\ whole = TRUE
  /\ steering = <<>> /\ followUp = <<>> /\ held = <<>> /\ obsCommitted = FALSE
  /\ aborter = NoAborter
  /\ asked = FALSE /\ sent = <<>> /\ queuedLog = <<>> /\ nextCall = 1
  /\ dropped = FALSE

-----------------------------------------------------------------------------
(* record_event, and where its errors go.                                  *)

(***************************************************************************)
(* Steps whose record_event is outside the result that record_run_error    *)
(* looks at: RunStarted, the steering committed before the first turn, the *)
(* resolutions and RunResumed of a resume, and the terminal event.  An     *)
(* error there leaves the run's function at once.                          *)
(***************************************************************************)
UnguardedStart == {"begin", "beginSteer", "resuming"}
Unguarded == {"begin", "beginSteer", "resuming", "ending"}

SinkFailure ==
  /\ todo' = <<>>
  /\ ok' = FALSE
  /\ cause' = "sink"
  /\ dropped' = TRUE
  /\ pc' = IF pc \in Unguarded THEN "finish" ELSE "error"

(* The errors that may leave a run without its terminal event.             *)
Broken == {"sink", "store"}

Effects == {"EffectCommitted", "MessagesCompacted"}

(* A sink that fails on the EffectProposed before an effect: nothing of    *)
(* the effect is recorded.                                                 *)
ProposalFails ==
  /\ ~Quiet /\ Head(todo).kind \in Effects
  /\ "sinkFail" \in Env
  /\ SinkFailure
  /\ UNCHANGED <<run, cancelled, cursor, local, agent, log, queues, aborter, asked, sent,
                 queuedLog, nextCall>>

(* The event store fails to append: the event reaches nobody, and unlike a *)
(* failing sink the sink is told of the failure.  A run whose RunStarted   *)
(* is not stored leaves nothing behind, and is left out.                   *)
StoreFails ==
  /\ ~Quiet /\ pc # "begin"
  /\ "storeFail" \in Env
  /\ todo' = <<>> /\ ok' = FALSE /\ cause' = "store" /\ dropped' = TRUE
  /\ pc' = IF pc \in Unguarded THEN "finish" ELSE "error"
  /\ UNCHANGED <<run, cancelled, cursor, local, agent, log, queues, aborter, asked, sent,
                 queuedLog, nextCall>>

Record ==
  /\ ~Quiet
  /\ LET e == Head(todo)
         reducible == replayable /\ Valid(stored, e)
     IN /\ stored' = IF reducible THEN ApplyEvent(stored, e) ELSE stored
        /\ replayable' = reducible
        /\ local' = ApplyEvent(local, e)
        /\ agent' = IF Valid(agent, e) THEN ApplyEvent(agent, e) ELSE agent
        /\ cont' = IF e.kind = "RunPaused" THEN e.cont ELSE cont
        /\ queuedLog' =
             IF e.kind = "EffectCommitted" /\ e.message.kind \in QueuedKinds
             THEN Append(queuedLog, e.message) ELSE queuedLog
        /\ \/ Valid(agent, e) /\ todo' = Tail(todo) /\ UNCHANGED <<pc, ok, cause, dropped>>
           \/ /\ "sinkFail" \in Env \/ ~Valid(agent, e)
              /\ SinkFailure
  /\ UNCHANGED <<run, cancelled, cursor, raced, whole, queues, aborter, asked, sent, nextCall>>

(* Every assistant message is followed by the results of its tool calls in *)
(* source order, and every result belongs to such a message.               *)
Paired(msgs) ==
  /\ \A i \in DOMAIN msgs : \A j \in DOMAIN msgs[i].calls :
       /\ i + j \in DOMAIN msgs
       /\ msgs[i + j].kind = "toolResult" /\ msgs[i + j].n = msgs[i].calls[j]
  /\ \A i \in DOMAIN msgs : msgs[i].kind = "toolResult" =>
       \E k \in 1..(i - 1) : i - k \in DOMAIN msgs[k].calls

-----------------------------------------------------------------------------
(* Starting a run: Agent::prompt and Agent::continue_run.                  *)

(***************************************************************************)
(* run_exclusive: no run is active, the agent's state is the run's initial *)
(* state, and the run gets a token of its own.                             *)
(***************************************************************************)
StartRun(message) ==
  /\ Idle /\ run < MaxRuns
  /\ run' = run + 1
  /\ pc' = "begin" /\ ok' = TRUE /\ cause' = "none" /\ cancelled' = FALSE
  /\ local' = agent
  /\ stored' = DefaultState /\ replayable' = TRUE /\ cont' = NoCont /\ raced' = FALSE
  /\ whole' = Paired(agent.msgs)
  /\ todo' = <<RunStarted(run + 1)>>
  /\ turn' = 1 /\ startPhase' = 1 /\ recordTurn' = TRUE /\ phase' = 1
  /\ input' = message /\ reply' = <<>> /\ calls' = <<>> /\ decision' = "None"
  /\ asked' = FALSE
  /\ UNCHANGED <<agent, queues, aborter, sent, queuedLog, nextCall, dropped>>

Prompt == StartRun(Message("prompt", run + 1, 1, <<>>))

(* continue_run: there is a last message and it is not the assistant's.    *)
(* The look at it and run_exclusive are two steps, and other runs (and a   *)
(* reset) fit in between: a transcript that is not empty began, sooner or  *)
(* later, with a message that lets a caller pass.                          *)
ContinueRun ==
  /\ "continue" \in Env
  /\ agent.msgs # <<>> \/ (run > 0 /\ dropped)
  /\ StartRun(NoInput)

(* PendingMessageQueue::drain: what it returns and what it leaves.         *)
Drained(queue, mode) ==
  IF mode = "All" THEN queue ELSE SubSeq(queue, 1, Min({1, Len(queue)}))
RemainingNone(queue, mode) == <<>>
RemainingSame(queue, mode) == queue
Remaining(queue, mode) ==
  SubSeq(queue, Len(Drained(queue, mode)) + 1, Len(queue))

(* run_with_options: steering that was queued before the run begins.       *)
BeginSteering ==
  /\ pc = "begin" /\ Quiet
  /\ todo' = Commits(Drained(steering, SteeringMode))
  /\ steering' = Remaining(steering, SteeringMode)
  /\ pc' = "beginSteer"
  /\ UNCHANGED <<ok, cause, run, cancelled, cursor, local, agent, log, followUp,
                 held, obsCommitted, aborter, history>>

-----------------------------------------------------------------------------
(* run_turns_from: one iteration of its loop per turn.                     *)

Fail(why) == cause' = why /\ ok' = FALSE /\ pc' = "error"

(* phases.iter().skip(start_phase_index)                                   *)
FirstPhaseKept == phase
FirstPhase == startPhase

(* throw_if_cancelled at the head of the loop, then TurnStarted.           *)
BeginTurn ==
  /\ pc \in {"beginSteer", "loop"} /\ Quiet
  /\ \/ /\ cancelled
        /\ Fail("aborted")
        /\ UNCHANGED <<todo, phase>>
     \/ /\ ~cancelled
        /\ todo' = IF recordTurn THEN <<Event("TurnStarted")>> ELSE <<>>
        /\ phase' = FirstPhase
        /\ pc' = "phase"
        /\ UNCHANGED <<ok, cause>>
  /\ UNCHANGED <<run, cancelled, turn, startPhase, recordTurn, input, reply, calls,
                 decision, local, agent, log, queues, aborter, history>>

InPhase(id) ==
  /\ pc = "phase" /\ Quiet
  /\ phase \in DOMAIN Phases /\ Phases[phase] = id

(* record_phase_output of a phase that completes, and PhaseCompleted.      *)
CompletePhase(events) ==
  /\ todo' = Append(events, Event("PhaseCompleted"))
  /\ phase' = phase + 1
  /\ UNCHANGED <<pc, ok, cause>>

(* A phase that returns an error: PhaseFailed, then the error goes up.     *)
FailPhase(why) ==
  /\ todo' = <<Event("PhaseFailed")>>
  /\ Fail(why)
  /\ UNCHANGED phase

(* Errors a phase that awaits a provider may return.                       *)
ProviderErrors ==
  (IF cancelled THEN {"aborted"} ELSE {})
    \cup (IF "providerFail" \in Env THEN {"failed"} ELSE {})

InputIngest ==
  /\ InPhase("input.ingest")
  /\ CompletePhase(IF turn = 1 /\ input # NoInput THEN <<Committed(input)>> ELSE <<>>)
  /\ UNCHANGED <<run, cancelled, turn, startPhase, recordTurn, input, reply, calls,
                 decision, local, agent, log, queues, aborter, history>>

(* context.prepare and model.request.prepare: context and request data,    *)
(* from providers and hooks that may fail.                                 *)
PreparePhase ==
  /\ InPhase("context.prepare") \/ InPhase("model.request.prepare")
  /\ \/ CompletePhase(<<>>)
     \/ \E why \in ProviderErrors : FailPhase(why)
  /\ UNCHANGED <<run, cancelled, turn, startPhase, recordTurn, input, reply, calls,
                 decision, local, agent, log, queues, aborter, history>>

(***************************************************************************)
(* plan_compaction: a cut keeps the messages from a user or assistant      *)
(* message on, after the latest summary and never from the very first; a   *)
(* cut inside a turn needs the user message the turn began with.  Which    *)
(* cut it is depends on token estimates.                                   *)
(***************************************************************************)
UserKinds == CutKinds \ {"assistant"}

CutsAnyRole(msgs) == 2..Len(msgs)
Cuts(msgs) ==
  LET boundary == Max({0} \cup {i \in DOMAIN msgs : msgs[i].kind = "summary"})
  IN {cut \in 2..Len(msgs) :
        /\ cut > boundary
        /\ msgs[cut].kind \in CutKinds
        /\ \E i \in (boundary + 1)..cut : msgs[i].kind \in UserKinds}

CompactAtLosing(msgs, cut) ==
  Compacted(Message("summary", run, turn, <<>>),
            ToSet(SubSeq(msgs, cut, Len(msgs))), ToSet(SubSeq(msgs, 1, cut - 2)))
CompactAt(msgs, cut) ==
  Compacted(Message("summary", run, turn, <<>>),
            ToSet(SubSeq(msgs, cut, Len(msgs))), ToSet(SubSeq(msgs, 1, cut - 1)))

(* context.compact in PersistentState mode: nothing to do, a summary in    *)
(* place of every message before the cut, or a summarizer that fails.      *)
ContextCompact ==
  /\ InPhase("context.compact")
  /\ \/ /\ cancelled => "compact" \notin Env
        /\ CompletePhase(<<>>)
     \/ /\ "compact" \in Env
        /\ \/ \E cut \in Cuts(local.msgs) :
               /\ ~cancelled
               /\ CompletePhase(<<CompactAt(local.msgs, cut)>>)
           \/ \E why \in ProviderErrors : FailPhase(why)
  /\ UNCHANGED <<run, cancelled, turn, startPhase, recordTurn, input, reply, calls,
                 decision, local, agent, log, queues, aborter, history>>

(* model.stream: the model answers with some tool calls, or with none.     *)
ModelStream ==
  /\ InPhase("model.stream")
  /\ \/ /\ ~cancelled
        /\ \E n \in 0..(MaxCalls + 1 - nextCall) :
             /\ reply' = [i \in 1..n |-> nextCall + i - 1]
             /\ nextCall' = nextCall + n
        /\ asked' = TRUE
        /\ CompletePhase(<<>>)
     \/ /\ \E why \in ProviderErrors : FailPhase(why)
        /\ UNCHANGED <<reply, nextCall, asked>>
  /\ UNCHANGED <<run, cancelled, turn, startPhase, recordTurn, input, calls,
                 decision, local, agent, log, queues, aborter, sent, queuedLog, dropped>>

AssistantCommit ==
  /\ InPhase("assistant.commit")
  /\ \/ CompletePhase(<<Committed(Message("assistant", run, turn, reply))>>)
     \/ \E why \in ProviderErrors \ {"aborted"} : FailPhase(why)
  /\ UNCHANGED <<run, cancelled, turn, startPhase, recordTurn, input, reply, calls,
                 decision, local, agent, log, queues, aborter, history>>

ToolCallResolve ==
  /\ InPhase("tool.call.resolve")
  /\ calls' = calls \o reply
  /\ CompletePhase(<<>>)
  /\ UNCHANGED <<run, cancelled, turn, startPhase, recordTurn, input, reply,
                 decision, local, agent, log, queues, aborter, history>>

(* append_tool_execution_effects: the results in source order.             *)
ResultsReversed(cs) ==
  [i \in DOMAIN cs |->
     Committed(Message("toolResult", run, cs[Len(cs) + 1 - i], <<>>))]
Results(cs) ==
  [i \in DOMAIN cs |-> Committed(Message("toolResult", run, cs[i], <<>>))]

(* set_tool_approval_pause and the tail of record_phase_output: no tool    *)
(* runs, the approvals are requested and the run pauses.                   *)
RequestsFirst(pending) == <<ApprovalRequested(CHOOSE id \in pending : TRUE)>>
Requests(pending) == SetToSeq({ApprovalRequested(id) : id \in pending})

PauseFor(t, cs, pending) ==
  /\ todo' = Append(Requests(pending),
       RunPaused([turn |-> t, calls |-> cs, pending |-> pending]))
  /\ pc' = "paused"
  /\ UNCHANGED <<ok, cause>>

(***************************************************************************)
(* tool.execute: every call is checked by the hooks and, unless one of     *)
(* them asks for approval, every call gets a result (that a denied or      *)
(* failing tool is an error result is ToolExecute's matter).               *)
(***************************************************************************)
ToolPhase ==
  /\ InPhase("tool.execute")
  /\ \/ /\ calls = <<>>
        /\ CompletePhase(<<>>)
     \/ /\ calls # <<>> /\ ~cancelled
        /\ CompletePhase(Results(calls))
     \/ /\ calls # <<>> /\ ~cancelled
        /\ "approval" \in Env
        /\ \E ask \in SUBSET ToSet(calls) \ {{}} :
             \E hook \in [ask -> 1..NHooks] :
               PauseFor(turn, calls, {<<c, hook[c]>> : c \in ask})
        /\ UNCHANGED phase
     \/ /\ calls # <<>>
        /\ \E why \in ProviderErrors : FailPhase(why)
  /\ UNCHANGED <<run, cancelled, turn, startPhase, recordTurn, input, reply, calls,
                 decision, local, agent, log, queues, aborter, history>>

(* turn_decision: tool calls go back to the model unless max_turns is met. *)
DecideLate(t, cs) == IF cs = <<>> \/ t > MaxTurns THEN "Stop" ELSE "Continue"
Decide(t, cs) == IF cs = <<>> \/ t >= MaxTurns THEN "Stop" ELSE "Continue"

TurnDecision ==
  /\ InPhase("turn.decision")
  /\ decision' = Decide(turn, calls)
  /\ CompletePhase(<<>>)
  /\ UNCHANGED <<run, cancelled, turn, startPhase, recordTurn, input, reply, calls,
                 local, agent, log, queues, aborter, history>>

(* The end of the phase list.  A turn whose phases set no decision stops.  *)
TurnCompleted ==
  /\ pc = "phase" /\ Quiet /\ phase > Len(Phases)
  /\ decision' = IF decision = "None" THEN "Stop" ELSE decision
  /\ todo' = <<Event("TurnCompleted")>>
  /\ pc' = "steer"
  /\ obsCommitted' = FALSE
  /\ UNCHANGED <<ok, cause, run, cancelled, turn, startPhase, recordTurn, phase,
                 input, reply, calls, local, agent, log, steering, followUp, held,
                 aborter, history>>

-----------------------------------------------------------------------------
(* Between two turns: the queues, and whether there is another turn.       *)

(* The three `continue`s of the loop: the next turn, with the cursor's     *)
(* start_phase_index and record_turn_started as they are.                  *)
AnotherTurn ==
  /\ turn' = turn + 1
  /\ input' = NoInput /\ reply' = <<>> /\ calls' = <<>> /\ decision' = "None"
  /\ asked' = FALSE
  /\ pc' = "loop"

OfKind(messages, kind) == Kept(messages, {m \in ToSet(messages) : m.kind = kind})

SteeringAwaited ==
  /\ pc = "steer" /\ Quiet /\ steering = <<>> /\ decision = "Continue"
  /\ pc' = "follow"
  /\ UNCHANGED <<todo, ok, cause, run, cancelled, cursor, local, agent, log,
                 queues, aborter, history>>
SteeringEmpty ==
  /\ pc = "steer" /\ Quiet /\ steering = <<>>
  /\ pc' = "follow"
  /\ UNCHANGED <<todo, ok, cause, run, cancelled, cursor, local, agent, log,
                 queues, aborter, history>>

(* A stopping turn: observations are committed, user inputs are routed to  *)
(* the follow-up queue (split_user_input_messages).                        *)
SteeringAtStop ==
  /\ pc = "steer" /\ Quiet /\ steering # <<>> /\ decision = "Stop"
  /\ LET drained == Drained(steering, SteeringMode)
         observations == OfKind(drained, "observation")
     IN /\ todo' = Commits(observations)
        /\ obsCommitted' = (observations # <<>>)
        /\ held' = OfKind(drained, "userInput")
  /\ steering' = Remaining(steering, SteeringMode)
  /\ pc' = "prepend"
  /\ UNCHANGED <<ok, cause, run, cancelled, cursor, local, agent, log, followUp,
                 aborter, history>>

(* prepend_follow_up_messages.                                             *)
PrependedOver == held
PrependedReversed == Reverse(held) \o followUp
Prepended == held \o followUp

PrependHeld ==
  /\ pc = "prepend" /\ Quiet
  /\ followUp' = Prepended
  /\ held' = <<>>
  /\ pc' = "follow"
  /\ UNCHANGED <<todo, ok, cause, run, cancelled, cursor, local, agent, log,
                 steering, obsCommitted, aborter, history>>

SteeringAtContinue ==
  /\ pc = "steer" /\ Quiet /\ steering # <<>> /\ decision = "Continue"
  /\ todo' = Commits(Drained(steering, SteeringMode))
  /\ steering' = Remaining(steering, SteeringMode)
  /\ AnotherTurn
  /\ UNCHANGED <<ok, cause, run, cancelled, startPhase, recordTurn, phase, local,
                 agent, log, followUp, held, obsCommitted, aborter, sent, queuedLog,
                 nextCall, dropped>>

(* The bottom of the loop: an ordinary next turn.                          *)
NextTurn ==
  /\ pc = "follow" /\ Quiet /\ decision = "Continue"
  /\ AnotherTurn
  /\ startPhase' = 1 /\ recordTurn' = TRUE
  /\ UNCHANGED <<todo, ok, cause, run, cancelled, phase, local, agent, log, queues,
                 aborter, sent, queuedLog, nextCall, dropped>>

(* A stop with follow-ups queued, or after steering observations.          *)
TurnAfterStop ==
  /\ pc = "follow" /\ Quiet /\ decision = "Stop"
  /\ followUp # <<>> \/ obsCommitted
  /\ todo' = Commits(Drained(followUp, FollowUpMode))
  /\ followUp' = Remaining(followUp, FollowUpMode)
  /\ AnotherTurn
  /\ UNCHANGED <<ok, cause, run, cancelled, startPhase, recordTurn, phase, local,
                 agent, log, steering, held, obsCommitted, aborter, sent, queuedLog,
                 nextCall, dropped>>

CompleteRun ==
  /\ pc = "follow" /\ Quiet /\ decision = "Stop"
  /\ followUp = <<>> /\ ~obsCommitted
  /\ todo' = <<Event("RunCompleted")>>
  /\ pc' = "ending"
  /\ UNCHANGED <<ok, cause, run, cancelled, cursor, local, agent, log, queues,
                 aborter, history>>

-----------------------------------------------------------------------------
(* The end of a run.                                                       *)

(* record_run_error; a failing sink is not told of the failure.            *)
SilentAlways(why) == why # "none"
Silent(why) == why = "sink"

RecordRunError ==
  /\ pc = "error" /\ Quiet
  /\ \/ /\ ~Silent(cause)
        /\ todo' = <<Event(IF cause = "aborted" THEN "RunAborted" ELSE "RunFailed")>>
        /\ pc' = "ending"
        /\ UNCHANGED <<local, log>>
     \/ /\ Silent(cause)
        /\ stored' = IF replayable THEN ApplyEvent(stored, Event("RunFailed")) ELSE stored
        /\ local' = ApplyEvent(local, Event("RunFailed"))
        /\ pc' = "finish"
        /\ UNCHANGED <<todo, replayable, cont, raced, whole>>
     \/ /\ Silent(cause) /\ "storeFail" \in Env
        /\ pc' = "finish"
        /\ UNCHANGED <<todo, local, log>>
  /\ UNCHANGED <<ok, cause, run, cancelled, cursor, agent, queues, aborter, history>>

(* The tail of run_exclusive: a report replaces the agent's state, and no  *)
(* run is active any more.                                                 *)
ReportedReplay == stored
Reported == local

FinishRun ==
  /\ pc \in {"ending", "paused", "finish"} /\ Quiet
  /\ agent' = IF ok THEN Reported ELSE agent
  /\ held' = <<>>
  /\ pc' = "idle"
  /\ UNCHANGED <<todo, ok, cause, run, cancelled, cursor, local, log, steering,
                 followUp, obsCommitted, aborter, history>>

-----------------------------------------------------------------------------
(* Pause and resume.                                                       *)

(***************************************************************************)
(* resume_tool_approvals: the paused run is reduced from its own log, each *)
(* pending approval is resolved (by the caller or, once expired, by a      *)
(* timeout) and the run resumes under a new token.  An unknown, duplicate  *)
(* or missing resolution is an error that changes nothing.  The caller has *)
(* read the paused status and the run's id at some time since it paused:   *)
(* a reset or an abort may have come between that and run_exclusive, and   *)
(* what counts is that the log, loaded last, is still paused.              *)
(***************************************************************************)
ResumeRun ==
  /\ Idle /\ stored.status = "Paused" /\ replayable
  /\ pc' = "resuming" /\ ok' = TRUE /\ cause' = "none" /\ cancelled' = FALSE
  /\ local' = stored
  /\ todo' = Append(SetToSeq({ApprovalResolved(id) : id \in cont.pending}),
                    Event("RunResumed"))
  /\ whole' = TRUE
  /\ UNCHANGED <<run, cursor, agent, stored, replayable, cont, raced, queues, aborter,
                 history>>

(***************************************************************************)
(* resume_tool_approval_continuation and the rest of the resumed phase: a  *)
(* call that is allowed goes on to the hooks after the one that asked and  *)
(* may be asked about again; otherwise all calls get their results and the *)
(* turn goes on after tool.execute.                                        *)
(***************************************************************************)
ResumedPending ==
  Results(SelectSeq(cont.calls, LAMBDA c : \E id \in cont.pending : id[1] = c))
ResumedTwice == Results(cont.calls) \o Results(cont.calls)
ResumedResults == Results(cont.calls)

ResumePhase ==
  /\ pc = "resuming" /\ Quiet
  /\ turn' = cont.turn /\ calls' = cont.calls /\ decision' = "None"
  /\ startPhase' = AfterToolExecute /\ recordTurn' = FALSE
  /\ \/ /\ ~cancelled
        /\ todo' = Append(ResumedResults, Event("PhaseCompleted"))
        /\ pc' = "loop"
        /\ UNCHANGED <<ok, cause>>
     \/ /\ ~cancelled
        /\ \E again \in SUBSET cont.pending \ {{}} :
             \E hook \in [again -> 1..NHooks] :
               /\ \A id \in again : hook[id] > id[2]
               /\ PauseFor(cont.turn, cont.calls, {<<id[1], hook[id]>> : id \in again})
     \/ \E why \in ProviderErrors :
          todo' = <<Event("PhaseFailed")>> /\ Fail(why)
  /\ UNCHANGED <<run, cancelled, phase, input, reply, local, agent, log, queues,
                 aborter, history>>

-----------------------------------------------------------------------------
(* Agent::abort, Agent::reset and the queues, called at any time.          *)

AbortActive ==
  /\ "cancel" \in Env /\ ~Idle
  /\ cancelled' = TRUE
  /\ UNCHANGED <<pc, todo, ok, cause, run, cursor, local, agent, log, queues,
                 aborter, history>>

(* abort finds no active run and a paused state ...                        *)
AbortPaused ==
  /\ "abortPaused" \in Env /\ Idle
  /\ agent.status = "Paused" /\ aborter.st = "none"
  /\ aborter' = [st |-> "called", run |-> run, replayable |-> replayable]
  /\ UNCHANGED <<control, cursor, local, agent, log, queues, history>>

(* ... abort_paused_run loads and reduces the log.  What it returns when   *)
(* the log does not reduce or is not paused any more is ignored.  A run    *)
(* given up for a newer one stays paused in its log ...                    *)
AbortLoad ==
  /\ aborter.st = "called"
  /\ aborter' = IF aborter.replayable
                   /\ (aborter.run = run => stored.status = "Paused" /\ replayable)
                THEN [aborter EXCEPT !.st = "loaded"] ELSE NoAborter
  /\ UNCHANGED <<control, cursor, local, agent, log, queues, history>>

(* The log cannot be read, or RunAborted not be stored: abort ignores it.  *)
AbortFails ==
  /\ "storeFail" \in Env /\ aborter.st # "none"
  /\ aborter' = NoAborter
  /\ UNCHANGED <<control, cursor, local, agent, log, queues, history>>

(* ... and records RunAborted, in the log and through the agent's sink.    *)
AbortRecord ==
  /\ aborter.st = "loaded"
  /\ stored' = IF aborter.run = run /\ replayable
               THEN ApplyEvent(stored, Event("RunAborted")) ELSE stored
  /\ agent' = ApplyEvent(agent, Event("RunAborted"))
  /\ raced' = (raced \/ ~Idle \/ aborter.run # run)
  /\ aborter' = NoAborter
  /\ UNCHANGED <<control, cursor, local, replayable, cont, whole, queues, history>>

Reset ==
  /\ "reset" \in Env
  /\ agent' = DefaultState
  /\ steering' = <<>> /\ followUp' = <<>> /\ dropped' = TRUE
  /\ UNCHANGED <<control, cursor, local, log, held, obsCommitted, aborter, asked, sent,
                 queuedLog, nextCall>>

EnqueueFront(queue, kind) ==
  LET m == Message(kind, 0, Len(sent) + 1, <<>>)
  IN /\ Len(sent) < MaxQueued
     /\ sent' = Append(sent, m)
     /\ queue' = <<m>> \o queue
     /\ UNCHANGED <<control, cursor, local, agent, log, held, obsCommitted, aborter,
                    asked, queuedLog, nextCall, dropped>>
Enqueue(queue, kind) ==
  LET m == Message(kind, 0, Len(sent) + 1, <<>>)
  IN /\ Len(sent) < MaxQueued
     /\ sent' = Append(sent, m)
     /\ queue' = Append(queue, m)
     /\ UNCHANGED <<control, cursor, local, agent, log, held, obsCommitted, aborter,
                    asked, queuedLog, nextCall, dropped>>

Steer ==
  /\ "steer" \in Env
  /\ Enqueue(steering, "observation") /\ UNCHANGED followUp

SteerUserInput ==
  /\ "steerUser" \in Env
  /\ Enqueue(steering, "userInput") /\ UNCHANGED followUp

FollowUp ==
  /\ "followUp" \in Env
  /\ Enqueue(followUp, "followUp") /\ UNCHANGED steering

-----------------------------------------------------------------------------
(* The system.                                                             *)

Driver ==
  \/ ProposalFails \/ StoreFails \/ Record \/ BeginSteering \/ BeginTurn
  \/ InputIngest \/ PreparePhase \/ ContextCompact \/ ModelStream
  \/ AssistantCommit \/ ToolCallResolve \/ ToolPhase \/ TurnDecision
  \/ TurnCompleted \/ SteeringEmpty \/ SteeringAtStop \/ PrependHeld
  \/ SteeringAtContinue \/ NextTurn \/ TurnAfterStop \/ CompleteRun
  \/ ResumePhase \/ RecordRunError \/ FinishRun

Callers ==
  \/ Prompt \/ ContinueRun \/ ResumeRun
  \/ AbortActive \/ AbortPaused \/ AbortLoad \/ AbortFails \/ AbortRecord
  \/ Reset \/ Steer \/ SteerUserInput \/ FollowUp

Next == Driver \/ Callers

Spec == Init /\ [][Next]_vars

(* The task that drives a run is polled until it is done: providers, tools *)
(* and listeners answer in the end, with a result or an error.             *)
FairSpec == Spec /\ WF_vars(Driver)

-----------------------------------------------------------------------------
(* Properties.                                                             *)

MessageSet ==
  [kind : MessageKinds \cup {"none"}, run : 0..MaxRuns, n : Nat, calls : Seq(1..MaxCalls)]

ApprovalIds == (1..MaxCalls) \X (1..NHooks)

States ==
  [run : 0..MaxRuns, status : RunStatuses, msgs : Seq(MessageSet),
   pending : SUBSET ApprovalIds]

Conts == [turn : Nat, calls : Seq(1..MaxCalls), pending : SUBSET ApprovalIds]

(* Events by what they say: where a turn or a phase is, how the run ends,  *)
(* what is committed, and what becomes of approvals.                       *)
MarkerKinds == {"TurnStarted", "PhaseCompleted", "PhaseFailed", "TurnCompleted"}
EndKinds == {"RunCompleted", "RunAborted", "RunFailed"}
Events ==
  [kind : MarkerKinds \cup EndKinds \cup {"RunResumed"}]
    \cup [kind : {"RunStarted"}, run : 0..MaxRuns]
    \cup [kind : {"EffectCommitted"}, message : MessageSet]
    \cup [kind : {"MessagesCompacted"}, summary : MessageSet,
          retained : SUBSET MessageSet, dropped : SUBSET MessageSet]
    \cup [kind : {"ToolApprovalRequested", "ToolApprovalResolved"}, id : ApprovalIds]
    \cup [kind : {"RunPaused"}, cont : Conts]

(* The type of the state: every part of the driver, of the agent and of    *)
(* the run's log (run_loop.rs, agent.rs) stays in its domain.              *)
TypeOK ==
  /\ pc \in {"idle", "begin", "beginSteer", "loop", "phase", "steer", "prepend",
              "follow", "ending", "error", "paused", "finish", "resuming"}
  /\ todo \in Seq(Events)
  /\ ok \in BOOLEAN /\ cause \in {"none", "aborted", "failed"} \cup Broken
  /\ run \in 0..MaxRuns /\ cancelled \in BOOLEAN
  /\ turn \in Nat /\ startPhase \in {1, AfterToolExecute} /\ recordTurn \in BOOLEAN
  /\ phase \in 1..(Len(Phases) + 1)
  /\ input \in MessageSet /\ reply \in Seq(1..MaxCalls) /\ calls \in Seq(1..MaxCalls)
  /\ decision \in {"None", "Stop", "Continue"}
  /\ local \in States /\ agent \in States /\ stored \in States
  /\ replayable \in BOOLEAN /\ raced \in BOOLEAN /\ whole \in BOOLEAN /\ cont \in Conts
  /\ steering \in Seq(MessageSet) /\ followUp \in Seq(MessageSet)
  /\ held \in Seq(MessageSet) /\ obsCommitted \in BOOLEAN
  /\ aborter \in [st : {"none", "called", "loaded"}, run : 0..MaxRuns, replayable : BOOLEAN]
  /\ asked \in BOOLEAN /\ sent \in Seq(MessageSet) /\ queuedLog \in Seq(MessageSet)
  /\ nextCall \in 1..(MaxCalls + 1) /\ dropped \in BOOLEAN

(* A turn completes only after the model was asked in it: the phases from  *)
(* the cursor's start_phase_index on include model.stream, except in the   *)
(* turn that a resume goes on with (run_turns_from).                       *)
TurnAsksModel ==
  \A i \in DOMAIN todo : todo[i].kind = "TurnCompleted" => asked

(* The messages that a list of events commits, and which of them were      *)
(* queued.                                                                 *)
MessagesOf(events) ==
  [i \in DOMAIN events |->
     IF events[i].kind = "EffectCommitted" THEN events[i].message ELSE NoInput]
QueuedOf(messages) == Kept(messages, {m \in ToSet(messages) : m.kind \in QueuedKinds})

(* Queued messages that have not been lost: committed, about to be         *)
(* committed, drained and held for the follow-up queue, or in a queue.     *)
InPlay == queuedLog \o QueuedOf(MessagesOf(todo)) \o held \o followUp \o steering

(* With "All" for steering and "OneAtATime" for follow-ups, user inputs    *)
(* left waiting are overtaken by one that is prepended later.              *)
ModesKeepOrder == ~(SteeringMode = "All" /\ FollowUpMode = "OneAtATime")

(* A queued message is never duplicated, whatever fails: not in two        *)
(* queues, not in a queue and the transcript, not in the transcript twice. *)
(* Nor is it lost while no listener fails and nobody resets the agent:     *)
(* cancellation, provider failures and pauses leave it in its queue.  And  *)
(* messages sent the same way reach the transcript in the order they were  *)
(* sent, though user inputs move from the steering to the follow-up queue  *)
(* (PendingMessageQueue::drain, prepend_follow_up_messages, run_turns_from). *)
QueuedOnceInOrder ==
  /\ IsInjective(InPlay)
  /\ ~dropped => ToSet(InPlay) = ToSet(sent)
  /\ ModesKeepOrder =>
       \A i, j \in DOMAIN queuedLog :
         i < j /\ queuedLog[i].kind = queuedLog[j].kind => queuedLog[i].n < queuedLog[j].n

(* A run takes no more turns than max_turns and one for every queued       *)
(* message: nothing else makes it go on (turn_decision, run_turns_from).   *)
TurnsBounded == pc = "phase" => turn <= MaxTurns + Len(queuedLog)

(* What the log of the latest run holds is what went on.                   *)
Logged == replayable /\ ~raced

(* What an idle agent shows of its latest run agrees with what that run's  *)
(* log reduces to: the same status, and the same pending approvals but for *)
(* those of an earlier run that was left paused.  Only a run that a        *)
(* failing listener ended is Failed in its log and not in the agent, which *)
(* is not told (record_run_error); and only after a listener or the store  *)
(* has failed does an agent without an active run say it is running.       *)
(* Through pauses, resumes, resets, cancellation, aborts and failing       *)
(* appends (record_event, event_sink, run_exclusive, reduce_events).       *)
LogIsTheState ==
  Idle =>
    /\ run > 0 /\ agent.run = run /\ Logged =>
         \/ /\ stored.status = agent.status
            /\ stored.pending \subseteq agent.pending
            /\ run = 1 => stored.pending = agent.pending
         \/ cause = "sink" /\ stored.status = "Failed"
    /\ agent.status = "Running" => cause \in Broken

(* What the model is asked about never holds a tool call without its       *)
(* result, a result without its call, or a queued message between them, if *)
(* the run began with a transcript like that: over steering, compaction at *)
(* any admissible cut, pauses, resumes and aborts.  No tool call ever has  *)
(* two results.  And the log of an agent's first run can always be reduced *)
(* again, to the transcript that the agent shows (run_turns_from,          *)
(* find_cut_point, resume_tool_approvals_internal).                        *)
ResultsReachModel ==
  /\ InPhase("model.stream") /\ whole => Paired(local.msgs)
  /\ \A i, j \in DOMAIN local.msgs :
       i # j /\ local.msgs[i].kind = "toolResult" /\ local.msgs[j].kind = "toolResult"
         => local.msgs[i].n # local.msgs[j].n
  /\ run <= 1 => /\ replayable
                 /\ Idle /\ ~dropped => stored.msgs = agent.msgs

(* The log of a run can always be reduced again.                           *)
LogReplayable == replayable

(* The run's status, once completed or aborted, is final: no later event   *)
(* of the run changes what its log reduces to.                             *)
TerminalFinal ==
  [][run' = run /\ stored.status \in {"Completed", "Aborted"}
     => stored'.status = stored.status]_vars

(* An agent that was aborted stays aborted until it is asked for a new run *)
(* (Agent::abort of a paused run).                                         *)
AbortedStays ==
  [][agent'.run = agent.run /\ agent.status = "Aborted"
     => agent'.status = "Aborted"]_vars

(* An agent left paused can be resumed: its latest run's log reduces to a  *)
(* paused state with exactly the approvals of the latest continuation, and *)
(* the agent shows these (set_tool_approval_pause, record_phase_output,    *)
(* resume_tool_approvals_internal).                                        *)
PauseCanBeResumed ==
  Idle /\ agent.status = "Paused" /\ cause \notin Broken /\ Logged
    => /\ agent.run = run /\ stored.status = "Paused"
       /\ stored.pending = cont.pending
       /\ cont.pending \subseteq agent.pending
       /\ run = 1 => agent.pending = cont.pending

(* The agent's transcript only grows: a new run, a pause, a resume or an   *)
(* error never takes back what Agent::state showed.                        *)
TranscriptGrows == [][IsPrefix(agent.msgs, agent'.msgs)]_vars

(* A run that ends because an event listener failed is recorded as failed. *)
SinkFailureRecorded ==
  pc = "finish" /\ cause = "sink" => stored.status = "Failed"

(* Every run ends: completed, paused, aborted or failed, the agent is idle *)
(* again.                                                                  *)
RunsEnd == ~Idle ~> Idle
===============================================================================
