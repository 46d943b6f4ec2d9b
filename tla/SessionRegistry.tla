-------------------------- MODULE SessionRegistry --------------------------
(***************************************************************************)
(* AgentSessionRegistry (interaction/registry.rs) and the handlers of the  *)
(* control plane that use it (interaction/control.rs), for one session id. *)
(* A session lives in the store, as a record, and in memory, as an agent   *)
(* that was built from the record; every await between the two is a place  *)
(* where another caller may run, so each call is a sequence of steps.      *)
(*                                                                         *)
(* The agent is reduced to a status, the number of events of its log and   *)
(* the number of queued messages; metadata is reduced to how often the     *)
(* working directory and the other keys were changed.  The store is the    *)
(* interface of AgentSessionRegistryStore with atomic calls; what its      *)
(* backends do inside a call is in SessionStore.                           *)
(***************************************************************************)
EXTENDS Naturals, Sequences, FiniteSets

CONSTANTS
  Tasks,      \* concurrent callers
  MaxCalls,   \* bound: calls begun
  MaxEvents,  \* bound: events of all runs of an agent
  MaxCrashes  \* bound: restarts

VARIABLES
  stored,    \* the record in the store, or None
  inst,      \* the agents built in this process, in order
  loaded,    \* sessions: index of the registered agent, 0 if none
  reserved,  \* creating_sessions holds the id
  task,      \* what each caller is doing
  calls, crashes,
  replaced,  \* how often this process has unloaded an agent or made a new one of it
  stale      \* for the property: what was last stored or registered was read before a change
             \* of the agent or of the record

vars == <<stored, inst, loaded, reserved, task, calls, crashes, replaced, stale>>

AllOps == {"create", "prompt", "queue", "list", "describe", "metadata", "workdir",
           "delete", "run"}

None == [status |-> "none", events |-> 0, queue |-> 0, meta |-> 0, dir |-> 0]
Idle == [op |-> "idle", pc |-> "idle", rec |-> None, i |-> 0, base |-> None]
Active == {"running", "paused"}

(* AgentSessionRecord as create_session makes it.                          *)
NewRecord == [None EXCEPT !.status = "idle"]

Init ==
  /\ stored \in {None} \cup {[NewRecord EXCEPT !.status = s] : s \in {"idle", "running", "paused"}}
  /\ inst = <<>> /\ loaded = 0 /\ reserved = FALSE
  /\ task = [t \in Tasks |-> Idle]
  /\ calls = 0 /\ crashes = 0 /\ replaced = 0 /\ stale = FALSE

-----------------------------------------------------------------------------
Busy == {t \in Tasks : task[t] # Idle}

Begin(t, op, pc) ==
  /\ task[t] = Idle /\ calls < MaxCalls
  /\ calls' = calls + 1
  /\ task' = [task EXCEPT ![t] = [Idle EXCEPT !.op = op, !.pc = pc]]
  /\ UNCHANGED <<stored, inst, loaded, reserved, crashes, replaced, stale>>

At(t, op, pc) == task[t].op = op /\ task[t].pc = pc
GoTo(t, pc) == task' = [task EXCEPT ![t].pc = pc]
Hold(t, pc, i) == task' = [task EXCEPT ![t].pc = pc, ![t].i = i]

(* Callers that wait in get are woken by session_changes.notify_waiters.   *)
Woken(tasks) == [u \in Tasks |-> IF tasks[u].pc = "waiting"
                                 THEN [tasks[u] EXCEPT !.pc = "look"] ELSE tasks[u]]
End(t) == task' = [task EXCEPT ![t] = Idle]
EndAndNotify(t) == task' = Woken([task EXCEPT ![t] = Idle])

(* The caller goes on with agent i; what it read is done with.             *)
With(t, pc, i) == [task[t] EXCEPT !.pc = pc, !.i = i, !.rec = None, !.base = None]

(* CreateSessionReservation is dropped.                                    *)
Release(t, tk) ==
  /\ reserved' = FALSE
  /\ task' = Woken([task EXCEPT ![t] = tk])

(* registered_from_record: the agent starts from the record's state.       *)
Registered(rec) == inst' = Append(inst, rec)

Snapshot(i) == inst[i]

(* normalize_record: a record that says Running is rewritten.              *)
NeverNormalizes(rec) == FALSE
NeedsNormalizing(rec) == rec.status = "running"
Interrupted(rec) == [rec EXCEPT !.status = "failed"]

-----------------------------------------------------------------------------
(* create_session                                                          *)

CreateReserve(t) ==
  /\ At(t, "create", "reserve")
  /\ IF reserved THEN End(t) /\ UNCHANGED reserved
     ELSE GoTo(t, "check") /\ reserved' = TRUE
  /\ UNCHANGED <<stored, inst, loaded, calls, crashes, replaced, stale>>

CreateCheck(t) ==
  /\ At(t, "create", "check")
  /\ IF loaded # 0 THEN Release(t, Idle) ELSE GoTo(t, "insert") /\ UNCHANGED reserved
  /\ UNCHANGED <<stored, inst, loaded, calls, crashes, replaced, stale>>

CreateInsert(t) ==
  /\ At(t, "create", "insert")
  /\ IF stored # None THEN Release(t, Idle) /\ UNCHANGED stored
     ELSE stored' = NewRecord /\ GoTo(t, "publish") /\ UNCHANGED reserved
  /\ stale' = IF stored # None THEN stale ELSE loaded # 0
  /\ UNCHANGED <<inst, loaded, calls, crashes, replaced>>

CreatePublish(t) ==
  /\ At(t, "create", "publish")
  /\ Registered(NewRecord)
  /\ loaded' = Len(inst) + 1
  /\ stale' = (stored # NewRecord)
  /\ Release(t, Idle)
  /\ UNCHANGED <<stored, calls, crashes, replaced>>

-----------------------------------------------------------------------------
(* get: the loaded agent, or the one restored from the store.              *)

Getting(t, pc) == task[t].op \in {"prompt", "queue"} /\ task[t].pc = pc

GetLook(t) ==
  /\ Getting(t, "look")
  /\ IF loaded # 0 THEN Hold(t, "act", loaded) ELSE GoTo(t, "reserve")
  /\ UNCHANGED <<stored, inst, loaded, reserved, calls, crashes, replaced, stale>>

TakesAlways == TRUE
TakesReservation == ~reserved

GetReserve(t) ==
  /\ Getting(t, "reserve")
  /\ IF TakesReservation THEN GoTo(t, "recheck") /\ reserved' = TRUE
     ELSE GoTo(t, "arm") /\ UNCHANGED reserved
  /\ UNCHANGED <<stored, inst, loaded, calls, crashes, replaced, stale>>

(* notified() is registered a step after the reservation was refused.      *)
GetArm(t) ==
  /\ Getting(t, "arm")
  /\ GoTo(t, "waiting")
  /\ UNCHANGED <<stored, inst, loaded, reserved, calls, crashes, replaced, stale>>

GetRecheck(t) ==
  /\ Getting(t, "recheck")
  /\ IF loaded # 0 THEN Release(t, With(t, "act", loaded))
     ELSE GoTo(t, "load") /\ UNCHANGED reserved
  /\ UNCHANGED <<stored, inst, loaded, calls, crashes, replaced, stale>>

GetLoad(t) ==
  /\ Getting(t, "load")
  /\ \/ stored = None /\ Release(t, Idle)
     \/ /\ stored # None
        /\ task' = [task EXCEPT
             ![t].pc = IF NeedsNormalizing(stored) THEN "normalize" ELSE "publish",
             ![t].rec = IF NeedsNormalizing(stored) THEN Interrupted(stored) ELSE stored,
             ![t].base = stored]
        /\ UNCHANGED reserved
  /\ UNCHANGED <<stored, inst, loaded, calls, crashes, replaced, stale>>

GetNormalize(t) ==
  /\ Getting(t, "normalize")
  /\ IF stored = None THEN Release(t, Idle) /\ UNCHANGED <<stored, stale>>
     ELSE /\ stored' = task[t].rec /\ UNCHANGED reserved
          /\ task' = [task EXCEPT ![t].pc = "publish", ![t].base = task[t].rec]
          /\ stale' = (loaded # 0)
  /\ UNCHANGED <<inst, loaded, calls, crashes, replaced>>

GetPublish(t) ==
  /\ Getting(t, "publish")
  /\ Registered(task[t].rec)
  /\ loaded' = Len(inst) + 1
  /\ stale' = (stored # task[t].base)
  /\ Release(t, With(t, "act", Len(inst) + 1))
  /\ UNCHANGED <<stored, calls, crashes, replaced>>

-----------------------------------------------------------------------------
(* What the control plane does with the agent it got.                      *)

(* agent/prompt, agent/continue, approval/resolve: a run begins or goes    *)
(* on, unless the agent is running.                                        *)
StartRun(t) ==
  /\ At(t, "prompt", "act")
  /\ LET i == task[t].i
     IN \/ inst[i].status = "running" /\ End(t) /\ UNCHANGED inst
        \/ /\ inst[i].status # "running" /\ inst[i].events < MaxEvents
           /\ inst' = [inst EXCEPT ![i].status = "running", ![i].events = @ + 1]
           /\ task' = [task EXCEPT ![t].op = "run", ![t].pc = "snapshot"]
  /\ UNCHANGED <<stored, loaded, reserved, calls, crashes, replaced, stale>>

(* The next event of the run; queued messages are taken with it.  A run    *)
(* that fails or is aborted by itself ends here as one that completes: no  *)
(* operation tells these apart.                                            *)
RunEvent(t, status) ==
  /\ At(t, "run", "event")
  /\ LET i == task[t].i
     IN /\ inst[i].events < MaxEvents \/ status # "running"
        /\ inst' = [inst EXCEPT ![i].status = status, ![i].events = @ + 1, ![i].queue = 0]
  /\ GoTo(t, "snapshot")
  /\ UNCHANGED <<stored, loaded, reserved, calls, crashes, replaced, stale>>

(* agent/steer, agent/follow_up, queue/edit, queue/clear, an automation    *)
(* that finds the agent busy, the result of a subagent.                    *)
ChangeQueue(t) ==
  /\ At(t, "queue", "act")
  /\ inst' = [inst EXCEPT ![task[t].i].queue = 1 - @]
  /\ GoTo(t, "snapshot")
  /\ UNCHANGED <<stored, loaded, reserved, calls, crashes, replaced, stale>>

(* agent/abort of a paused run; a running one is cancelled and ends.       *)
AbortPaused(t) ==
  /\ At(t, "queue", "act")
  /\ inst[task[t].i].status = "paused"
  /\ inst' = [inst EXCEPT ![task[t].i].status = "aborted"]
  /\ GoTo(t, "snapshot")
  /\ UNCHANGED <<stored, loaded, reserved, calls, crashes, replaced, stale>>

(* save_snapshot, called by the handlers above and by the snapshot         *)
(* listener at every event that matters: the state is read, ...            *)
TakeSnapshot(t) ==
  /\ task[t].pc = "snapshot"
  /\ task' = [task EXCEPT ![t].pc = "save", ![t].rec = Snapshot(task[t].i),
                          ![t].base = inst[task[t].i]]
  /\ UNCHANGED <<stored, inst, loaded, reserved, calls, crashes, replaced, stale>>

(* ... saved, and its metadata put back.  A save that fails fails the run. *)
SaveSnapshot(t) ==
  /\ task[t].op \in {"queue", "run"} /\ task[t].pc = "save"
  /\ LET i == task[t].i
         rec == task[t].rec
         goesOn == task[t].op = "run" /\ rec.status = "running"
     IN \/ /\ stored # None
           /\ stored' = rec
           /\ stale' = (inst[i] # task[t].base \/ loaded # i)
           /\ inst' = [inst EXCEPT ![i].meta = rec.meta, ![i].dir = rec.dir]
           /\ task' = [task EXCEPT ![t] = IF goesOn THEN With(t, "event", i) ELSE Idle]
        \/ /\ stored = None
           /\ inst' = [inst EXCEPT ![i].status = IF goesOn THEN "failed" ELSE @]
           /\ End(t) /\ UNCHANGED <<stored, stale>>
  /\ UNCHANGED <<loaded, reserved, calls, crashes, replaced>>

-----------------------------------------------------------------------------
(* list and get_descriptor: a record that says Running is written back.    *)

DescribeLook(t) ==
  /\ At(t, "describe", "look")
  /\ IF loaded # 0 THEN End(t) ELSE GoTo(t, "read")
  /\ UNCHANGED <<stored, inst, loaded, reserved, calls, crashes, replaced, stale>>

ReadDescriptor(t) ==
  /\ task[t].op \in {"list", "describe"} /\ task[t].pc = "read"
  /\ IF NeedsNormalizing(stored)
     THEN task' = [task EXCEPT ![t].pc = "normalize", ![t].rec = Interrupted(stored)]
     ELSE End(t)
  /\ UNCHANGED <<stored, inst, loaded, reserved, calls, crashes, replaced, stale>>

NormalizeDescriptor(t) ==
  /\ task[t].op \in {"list", "describe"} /\ task[t].pc = "normalize"
  /\ stored' = IF stored = None THEN None ELSE task[t].rec
  /\ stale' = IF stored = None THEN stale ELSE loaded # 0
  /\ End(t)
  /\ UNCHANGED <<inst, loaded, reserved, calls, crashes, replaced>>

-----------------------------------------------------------------------------
(* update_session_metadata.  Another working directory is refused while    *)
(* the session is active, and makes a new agent otherwise.                 *)

Patched(op, rec) ==
  IF op = "workdir" THEN [rec EXCEPT !.dir = @ + 1] ELSE [rec EXCEPT !.meta = @ + 1]

UpdateRead(t) ==
  /\ task[t].op \in {"metadata", "workdir"} /\ task[t].pc = "read"
  /\ LET rec == IF loaded # 0 THEN Snapshot(loaded)
                ELSE IF NeedsNormalizing(stored) THEN Interrupted(stored) ELSE stored
         busy == task[t].op = "workdir" /\ rec.status \in Active
     IN /\ stored' = IF loaded = 0 THEN rec ELSE stored
        /\ task' = [task EXCEPT ![t] =
             IF rec = None \/ busy THEN Idle
             ELSE [@ EXCEPT !.pc = "write", !.i = loaded, !.rec = Patched(task[t].op, rec),
                            !.base = IF loaded # 0 THEN inst[loaded] ELSE rec]]
  /\ UNCHANGED <<inst, loaded, reserved, calls, crashes, replaced, stale>>

UpdateWrite(t) ==
  /\ task[t].op \in {"metadata", "workdir"} /\ task[t].pc = "write"
  /\ LET i == task[t].i
         rec == task[t].rec
     IN \/ stored = None /\ End(t) /\ UNCHANGED <<stored, inst, stale>>
        \/ /\ stored # None
           /\ stored' = rec
           /\ stale' = (loaded # i \/ (i # 0 /\ inst[i] # task[t].base))
           /\ inst' = IF i = 0 THEN inst
                      ELSE [inst EXCEPT ![i].meta = rec.meta, ![i].dir = rec.dir]
           /\ IF task[t].op = "workdir" THEN GoTo(t, "rebuild") ELSE EndAndNotify(t)
  /\ UNCHANGED <<loaded, reserved, calls, crashes, replaced>>

UpdateRebuild(t) ==
  /\ At(t, "workdir", "rebuild")
  /\ Registered(task[t].rec)
  /\ loaded' = Len(inst) + 1
  /\ replaced' = replaced + 1
  /\ stale' = (stored # task[t].rec)
  /\ EndAndNotify(t)
  /\ UNCHANGED <<stored, reserved, calls, crashes>>

-----------------------------------------------------------------------------
(* delete_session                                                          *)

DeleteLook(t, force) ==
  /\ At(t, "delete", "look")
  /\ LET status == IF loaded # 0 THEN inst[loaded].status
                   ELSE IF NeedsNormalizing(stored) THEN "failed" ELSE stored.status
         aborts == force /\ loaded # 0 /\ status \in Active
     IN /\ IF status = "none" \/ (status \in Active /\ ~force) THEN End(t)
           ELSE Hold(t, IF aborts THEN "abort" ELSE "unload", loaded)
        /\ stored' = IF loaded = 0 /\ NeedsNormalizing(stored) THEN Interrupted(stored) ELSE stored
  /\ UNCHANGED <<inst, loaded, reserved, calls, crashes, replaced, stale>>

(* abort, wait_for_idle: a paused run is aborted at once, a running one is *)
(* waited for until its last listener is done.                             *)
DeleteAbort(t) ==
  /\ At(t, "delete", "abort")
  /\ \A u \in Tasks : task[u].op = "run" => task[u].i # task[t].i
  /\ inst' = [inst EXCEPT ![task[t].i].status = IF @ = "paused" THEN "aborted" ELSE @]
  /\ GoTo(t, "unload")
  /\ UNCHANGED <<stored, loaded, reserved, calls, crashes, replaced, stale>>

DeleteUnload(t) ==
  /\ At(t, "delete", "unload")
  /\ loaded' = 0 /\ replaced' = IF loaded # 0 THEN replaced + 1 ELSE replaced
  /\ GoTo(t, "remove")
  /\ UNCHANGED <<stored, inst, reserved, calls, crashes, stale>>

DeleteRemove(t) ==
  /\ At(t, "delete", "remove")
  /\ stored' = None /\ stale' = (loaded # 0)
  /\ EndAndNotify(t)
  /\ UNCHANGED <<inst, loaded, reserved, calls, crashes, replaced>>

-----------------------------------------------------------------------------
(* The process ends and another starts on the same store.                  *)
Crash ==
  /\ crashes < MaxCrashes /\ inst # <<>>
  /\ crashes' = crashes + 1
  /\ inst' = <<>> /\ loaded' = 0 /\ reserved' = FALSE /\ replaced' = 0 /\ stale' = FALSE
  /\ task' = [t \in Tasks |-> Idle]
  /\ UNCHANGED <<stored, calls>>

Start(t) ==
  \/ Begin(t, "create", "reserve") \/ Begin(t, "prompt", "look")
  \/ Begin(t, "queue", "look")
  \/ Begin(t, "list", "read") \/ Begin(t, "describe", "look")
  \/ Begin(t, "metadata", "read") \/ Begin(t, "workdir", "read")
  \/ Begin(t, "delete", "look")

Create(t) == CreateReserve(t) \/ CreateCheck(t) \/ CreateInsert(t) \/ CreatePublish(t)
Get(t) == GetLook(t) \/ GetReserve(t) \/ GetArm(t) \/ GetRecheck(t) \/ GetLoad(t)
            \/ GetNormalize(t) \/ GetPublish(t)
Act(t) ==
  \/ StartRun(t) \/ ChangeQueue(t) \/ AbortPaused(t) \/ TakeSnapshot(t) \/ SaveSnapshot(t)
  \/ \E status \in {"running", "paused", "completed"} : RunEvent(t, status)
Describe(t) == DescribeLook(t) \/ ReadDescriptor(t) \/ NormalizeDescriptor(t)
Update(t) == UpdateRead(t) \/ UpdateWrite(t) \/ UpdateRebuild(t)
Delete(t) ==
  \/ \E force \in BOOLEAN : DeleteLook(t, force)
  \/ DeleteAbort(t) \/ DeleteUnload(t) \/ DeleteRemove(t)

Next ==
  \/ \E t \in Tasks :
       Start(t) \/ Create(t) \/ Get(t) \/ Act(t) \/ Describe(t) \/ Update(t) \/ Delete(t)
  \/ Crash

Spec == Init /\ [][Next]_vars

-----------------------------------------------------------------------------
(* Properties.                                                             *)

Statuses == Active \cup {"none", "idle", "completed", "failed", "aborted"}
Records == [status : Statuses, events : Nat, queue : {0, 1}, meta : Nat, dir : Nat]
Pcs == {"idle", "reserve", "check", "insert", "publish", "look", "arm", "waiting", "recheck",
        "load", "normalize", "act", "snapshot", "save", "event", "read", "write", "rebuild",
        "abort", "unload", "remove"}

(* The state is well typed.                                                *)
TypeOK ==
  /\ stored \in Records /\ inst \in Seq(Records) /\ loaded \in 0..Len(inst)
  /\ task \in [Tasks -> [op : AllOps \cup {"idle"}, pc : Pcs, rec : Records, i : 0..Len(inst),
                         base : Records]]
  /\ reserved \in BOOLEAN /\ replaced \in Nat

(* Concurrent get and create calls never end up with two agents for one    *)
(* session: a process builds one agent, and one more for each time it      *)
(* unloads the agent of a deleted session or makes a new one for another   *)
(* working directory; until it first does, everyone is given the one       *)
(* (the reservation in get and create_session).                            *)
OneAgent ==
  /\ Len(inst) <= 1 + replaced
  /\ replaced = 0 => \A t \in Tasks : task[t].pc = "act" => task[t].i = 1

(* An agent says Running only while a run of this process drives it: the   *)
(* status a dead process left in the store never reaches an agent          *)
(* (normalize_record before registered_from_record).                       *)
RunningHasRun ==
  \A i \in DOMAIN inst : inst[i].status = "running" =>
    \E t \in Tasks : task[t].op = "run" /\ task[t].i = i


(* INTERACTION.md: a snapshot that was running when the previous process   *)
(* stopped is reported and stored as failed.  So list never decides to     *)
(* rewrite the record of a session whose run is going on in this process.  *)
InterruptedAfterRestart ==
  [][\A t \in Tasks : ReadDescriptor(t) /\ task'[t].pc = "normalize"
                        => loaded = 0 \/ inst[loaded].status # "running"]_vars
=============================================================================
