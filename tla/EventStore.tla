----------------------------- MODULE EventStore -----------------------------
(***************************************************************************)
(* A session's event log and its record across restarts                    *)
(* (noloong-agent-core: store/sqlite.rs, store/memory.rs, record_event and *)
(* the counters of runtime/run_loop.rs, the load of runtime/approval.rs;   *)
(* noloong-agent: registered_from_record and attach_snapshot_listener of   *)
(* interaction/registry.rs).  An event is appended to the store, applied   *)
(* to the agent's state, and then the session's record is saved; a         *)
(* process that stops anywhere in between starts again from the record.    *)
(***************************************************************************)
EXTENDS Integers, FiniteSets

CONSTANTS Stores,     \* subset of {"sqlite", "memory"}
          MaxRuns,
          MaxSeq,     \* events a process numbers
          MaxCrashes

VARIABLES
    store,
    rows,       \* stored_agent_events: [run, seq, kind, by], "by" for the property only
    record,     \* the stored session record's [run, status]
    agent,      \* the agent's state, likewise
    run,        \* id of the run in hand (the prefix is the record's and does not change)
    flow,       \* "none", "running", "paused": what the run loop is doing
    event,      \* the event in hand: kind and stage ("append", "apply", "save"), or None
    runCounter, eventCounter,
    crashes,
    torn        \* a crash came between an append and the save that follows it

vars == <<store, rows, record, agent, run, flow, event, runCounter, eventCounter, crashes, torn>>

None == [kind |-> "none", stage |-> "none"]
Event(kind) == [kind |-> kind, stage |-> "append"]

Init ==
    /\ store \in Stores
    /\ rows = {}
    /\ record = [run |-> 0, status |-> "idle"] /\ agent = record
    /\ run = 0 /\ flow = "none" /\ event = None
    /\ runCounter = 0 /\ eventCounter = 0 /\ crashes = 0 /\ torn = FALSE

----------------------------------------------------------------------------
(* What a log says. *)

\* EventStore::load, ordered by sequence
Load(r) == {row \in rows : row.run = r}
Latest(r) == CHOOSE row \in Load(r) : \A other \in Load(r) : other.seq <= row.seq

\* reduce_events, as to the status
StatusOf(kind) == CASE kind \in {"RunStarted", "RunResumed", "Progress"} -> "running"
                    [] kind = "RunPaused"    -> "paused"
                    [] kind = "RunCompleted" -> "completed"
                    [] OTHER                 -> "failed"
Reduced(r) == IF Load(r) = {} THEN "idle" ELSE StatusOf(Latest(r).kind)

----------------------------------------------------------------------------
(* record_event *)

\* A mistake, for the mutants: the key is not unique, a row replaces the one with its key.
NeverTaken(r, seq) == FALSE

\* (run_id, sequence) is the table's key.
Taken(r, seq) == store = "sqlite" /\ \E row \in Load(r) : row.seq = seq

\* An append that fails ends the run with RunFailed, unless it was the run's first or last event.
Append ==
    /\ event.stage = "append" /\ eventCounter < MaxSeq
    /\ eventCounter' = eventCounter + 1
    /\ IF Taken(run, eventCounter')
       THEN /\ event' = IF event.kind \in {"RunStarted", "RunFailed"} THEN None ELSE Event("RunFailed")
            /\ flow' = IF event' = None THEN "none" ELSE flow
            /\ UNCHANGED rows
       ELSE /\ rows' = {row \in rows : row.run # run \/ row.seq # eventCounter'}
                       \cup {[run |-> run, seq |-> eventCounter', kind |-> event.kind]}
            /\ event' = [event EXCEPT !.stage = "apply"]
            /\ UNCHANGED flow
    /\ UNCHANGED <<store, record, agent, run, runCounter, crashes, torn>>

\* The sink applies the event to the agent's state.
Apply ==
    /\ event.stage = "apply"
    /\ agent' = [run |-> run, status |-> StatusOf(event.kind)]
    /\ event' = [event EXCEPT !.stage = "save"]
    /\ UNCHANGED <<store, rows, record, run, flow, runCounter, eventCounter, crashes, torn>>

\* The snapshot listener saves the record; then the run loop goes on.
Save ==
    /\ event.stage = "save"
    /\ record' = agent
    /\ event' = None
    /\ flow' = CASE event.kind = "RunPaused"                     -> "paused"
                 [] event.kind \in {"RunCompleted", "RunFailed"} -> "none"
                 [] OTHER                                        -> "running"
    /\ UNCHANGED <<store, rows, agent, run, runCounter, eventCounter, crashes, torn>>

----------------------------------------------------------------------------
(* Runs *)

\* next_run_id, RunStarted
StartRun ==
    /\ event = None /\ flow \in {"none", "paused"} /\ runCounter < MaxRuns
    /\ runCounter' = runCounter + 1
    /\ run' = runCounter'
    /\ event' = Event("RunStarted")
    /\ UNCHANGED <<store, rows, record, agent, flow, eventCounter, crashes, torn>>

RunGoesOn(kind) ==
    /\ event = None /\ flow = "running"
    /\ event' = Event(kind)
    /\ UNCHANGED <<store, rows, record, agent, run, flow, runCounter, eventCounter, crashes, torn>>

\* A mistake, for the mutants: numbering starts over.
Unchanged(r) == eventCounter

\* ensure_event_counter_after
CounterAfter(r) == IF eventCounter < Latest(r).seq THEN Latest(r).seq ELSE eventCounter

\* resume_tool_approvals: the log must be there and end in a pause.
ResumeRun ==
    /\ event = None /\ agent.status = "paused" /\ flow # "running"
    /\ Load(agent.run) # {}
    /\ eventCounter' = CounterAfter(agent.run)
    /\ IF Reduced(agent.run) = "paused"
       THEN run' = agent.run /\ event' = Event("RunResumed")
       ELSE UNCHANGED <<run, event>>
    /\ UNCHANGED <<store, rows, record, agent, flow, runCounter, crashes, torn>>

----------------------------------------------------------------------------
(* Restarts *)

\* A mistake, for the mutants: run ids start over.
FromZero(r) == 0

\* ensure_run_counter_after_run_id, with the record's run id
RunsFrom(r) == r.run

\* normalize_record: a run the record has as running was interrupted.
Normalized(r) == IF r.status = "running" THEN [r EXCEPT !.status = "failed"] ELSE r

\* The process stops and starts again; the session is loaded from its record.
Crash ==
    /\ crashes < MaxCrashes
    /\ crashes' = crashes + 1
    /\ torn' = (torn \/ event.stage \in {"apply", "save"})
    /\ rows' = IF store = "memory" THEN {} ELSE rows
    /\ record' = Normalized(record) /\ agent' = record'
    /\ runCounter' = RunsFrom(record) /\ eventCounter' = 0
    /\ event' = None /\ run' = 0
    /\ flow' = IF record.status = "paused" THEN "paused" ELSE "none"
    /\ UNCHANGED store

\* The bounds
Stop == event = None /\ flow # "running" /\ runCounter = MaxRuns /\ UNCHANGED vars

Next == \/ StartRun \/ Append \/ Apply \/ Save \/ ResumeRun \/ Crash \/ Stop
        \/ \E kind \in {"Progress", "RunPaused", "RunCompleted", "RunFailed"} : RunGoesOn(kind)

Spec == Init /\ [][Next]_vars

----------------------------------------------------------------------------
Kinds == {"RunStarted", "RunResumed", "Progress", "RunPaused", "RunCompleted", "RunFailed"}
Rows == [run : Nat, seq : Nat, kind : Kinds]
Records == [run : Nat, status : {"idle", "running", "paused", "completed", "failed"}]
Events == [kind : Kinds \cup {"none"}, stage : {"none", "append", "apply", "save"}]

\* The state is well typed.
TypeOK ==
    /\ rows \subseteq Rows /\ record \in Records /\ agent \in Records
    /\ event \in Events /\ (event.kind = "none" <=> event.stage = "none")
    /\ flow \in {"none", "running", "paused"}
    /\ run \in Nat /\ runCounter \in Nat /\ eventCounter \in Nat
    /\ torn \in BOOLEAN

\* A session that is paused can be resumed, however often it was paused, resumed, left for
\* another run and restarted before: the log of its run still ends in that pause (the run and
\* event counters are taken up after a restart so that no id or sequence comes twice).  Up to a
\* crash between an append and the save that follows it.
PausedCanResume ==
    (store = "sqlite" /\ ~torn /\ event = None /\ agent.status = "paused")
        => Reduced(agent.run) = "paused"

\* The same without the exception: "load(run_id) always returns the events in sequence order,
\* and reduce_events restores the state" (docs/ARCHITECTURE.md of the core).  Not so: after a
\* crash the record is one event behind the log; a run id is given out again and two runs share
\* a log, or a paused session cannot be resumed because its log says RunResumed.
PausedCanAlwaysResume ==
    (store = "sqlite" /\ event = None /\ agent.status = "paused")
        => Reduced(agent.run) = "paused"
=============================================================================
