----------------------------- MODULE Subagents -----------------------------
(***************************************************************************)
(* Child sessions of one parent (crates/noloong-agent: tools/subagent.rs,  *)
(* RegistrySubagentController and spawn_subagent of                        *)
(* interaction/registry.rs, the observers of interaction/control.rs).  The *)
(* parent's model spawns children and waits for them through tools, one    *)
(* call at a time; clients of the control plane spawn, prompt, resume and  *)
(* delete the same children, and an observer tells the parent how a        *)
(* prompted run ended.                                                     *)
(*                                                                         *)
(* Runs of a child are numbered; "out" is the run that wrote the last      *)
(* assistant message, "run" the last one that recorded RunStarted.         *)
(***************************************************************************)
EXTENDS Integers, FiniteSets, Sequences

CONSTANTS Kids,
          MaxRuns,      \* runs of a child
          MaxCalls,     \* tool calls of the parent
          MaxRestarts,
          MaxDeletes

VARIABLES
    kid,        \* per child: [there, active, status, begun, run, out, caller]
    observers,  \* tasks telling the parent: [kid, of, stage, run, out]
    told,       \* per child, of the reports queued at the parent: was one about an earlier run
                \* than its own ("stale"), did one give another run's output ("other")
    tool,       \* the parent's tool call
    calls, restarts, deletes,
    \* for the properties
    owed        \* per child: prompted runs that ended well and are still to be told of

vars == <<kid, observers, told, tool, calls, restarts, deletes, owed>>

NoTool == [op |-> "none", ids |-> {}, read |-> {}, results |-> {}, end |-> "none"]
Absent == [there |-> FALSE, active |-> FALSE, status |-> "idle", begun |-> 0, run |-> 0, out |-> 0,
           caller |-> "none"]

Init ==
    /\ kid = [k \in Kids |-> Absent]
    /\ observers = {} /\ told = [k \in Kids |-> {}] /\ tool = NoTool
    /\ calls = 0 /\ restarts = 0 /\ deletes = 0
    /\ owed = [k \in Kids |-> {}]

----------------------------------------------------------------------------
(* Runs of a child: prompt returns to its caller when the run is over. *)

Starts(k, caller) ==
    [kid[k] EXCEPT !.active = TRUE, !.begun = @ + 1, !.caller = caller, !.there = TRUE]

\* spawn_subagent: the child is created and prompted, all inside the caller's call.
CanSpawn(k) == kid[k].begun = 0

\* The run's first event; until then the status is that of the run before.
RunStarted(k) ==
    /\ kid[k].active /\ kid[k].status # "running"
    /\ kid' = [kid EXCEPT ![k].status = "running", ![k].run = kid[k].begun]
    /\ UNCHANGED <<observers, told, tool, calls, restarts, deletes, owed>>

Reply(k) ==
    /\ kid[k].active /\ kid[k].status = "running" /\ kid[k].out # kid[k].run
    /\ kid' = [kid EXCEPT ![k].out = kid[k].run]
    /\ UNCHANGED <<observers, told, tool, calls, restarts, deletes, owed>>

\* A mistake, for the mutants: a run that paused is not told of.
OnlyCompleted(status) == status = "completed"

\* prompt returns Ok, and the handler starts an observer; an error skips it.
EndedWell(status) == status \in {"completed", "paused"}

Observer(k) == [kid |-> k, of |-> kid[k].begun, stage |-> "wait", run |-> 0, out |-> 0]

\* notify_waiters: who has registered by now looks again.
Woken(k) ==
    {IF o.kid = k /\ o.stage \in {"asleep", "late"} THEN [o EXCEPT !.stage = "wait"] ELSE o :
        o \in observers}

RunEnds(k, status) ==
    /\ kid[k].active /\ kid[k].status = "running"
    /\ status = "completed" => kid[k].out = kid[k].run
    /\ status = "paused" => kid[k].caller # "other"     \* a bound: a run pauses once
    /\ kid' = [kid EXCEPT ![k].active = FALSE, ![k].status = status, ![k].caller = "none"]
    /\ LET tells == kid[k].caller = "client" /\ status \in {"completed", "paused"}
       IN owed' = IF tells THEN [owed EXCEPT ![k] = @ \cup {kid[k].begun}] ELSE owed
    /\ observers' = IF kid[k].caller = "client" /\ EndedWell(status)
                    THEN Woken(k) \cup {Observer(k)} ELSE Woken(k)
    /\ tool' = IF kid[k].caller = "tool" THEN [tool EXCEPT !.end = "returned"] ELSE tool
    /\ UNCHANGED <<told, calls, restarts, deletes>>

----------------------------------------------------------------------------
(* Clients of the control plane *)

\* subagent/spawn with an initial prompt
ClientSpawn(k) ==
    /\ CanSpawn(k)
    /\ kid' = [kid EXCEPT ![k] = Starts(k, "client")]
    /\ UNCHANGED <<observers, told, tool, calls, restarts, deletes, owed>>

\* agent/prompt of a child
ClientPrompts(k) ==
    /\ kid[k].there /\ ~kid[k].active /\ kid[k].begun < MaxRuns
    /\ kid' = [kid EXCEPT ![k] = Starts(k, "client")]
    /\ UNCHANGED <<observers, told, tool, calls, restarts, deletes, owed>>

\* approval/resolve: the paused run goes on, and nobody observes how it ends.
ClientResumes(k) ==
    /\ kid[k].there /\ ~kid[k].active /\ kid[k].status = "paused"
    /\ kid' = [kid EXCEPT ![k].active = TRUE, ![k].status = "running", ![k].caller = "other"]
    /\ UNCHANGED <<observers, told, tool, calls, restarts, deletes, owed>>

\* session/delete of a child whose run is over
ClientDeletes(k) ==
    /\ kid[k].there /\ ~kid[k].active /\ deletes < MaxDeletes
    /\ deletes' = deletes + 1
    /\ kid' = [kid EXCEPT ![k] = [Absent EXCEPT !.begun = kid[k].begun, !.out = kid[k].out,
                                                 !.run = kid[k].run]]
    /\ owed' = [owed EXCEPT ![k] = {}]
    /\ UNCHANGED <<observers, told, tool, calls, restarts>>

----------------------------------------------------------------------------
(* observe_control_plane_subagent_result *)

Replaced(o, p) == observers' = (observers \ {o}) \cup p

\* wait_for_idle on the child, if it is still there: a look at active_run,
ObserverWaits(o) ==
    /\ o.stage = "wait"
    /\ Replaced(o, {[o EXCEPT !.stage = IF kid[o.kid].active THEN "register" ELSE "read"]})
    /\ UNCHANGED <<kid, told, tool, calls, restarts, deletes, owed>>

\* and, after the lock is released, idle.notified(): the run may have ended in between, and
\* then this is too late for its wake-up.
ObserverSleeps(o) ==
    /\ o.stage = "register"
    /\ Replaced(o, {[o EXCEPT !.stage = IF kid[o.kid].active THEN "asleep" ELSE "late"]})
    /\ UNCHANGED <<kid, told, tool, calls, restarts, deletes, owed>>

\* get_descriptor: whatever the child is doing by now
ObserverReads(o) ==
    /\ o.stage = "read"
    /\ Replaced(o, IF kid[o.kid].there
                   THEN {[o EXCEPT !.stage = "tell", !.run = kid[o.kid].run, !.out = kid[o.kid].out]}
                   ELSE {})
    /\ UNCHANGED <<kid, told, tool, calls, restarts, deletes, owed>>

\* parent.agent().steer, save_snapshot
ObserverTells(o) ==
    /\ o.stage = "tell"
    /\ Replaced(o, {})
    /\ told' = [told EXCEPT ![o.kid] = @ \cup (IF o.run < o.of THEN {"stale"} ELSE {})
                                            \cup (IF o.out \in {o.of, 0} THEN {} ELSE {"other"})]
    /\ owed' = [owed EXCEPT ![o.kid] = @ \ {o.of}]
    /\ UNCHANGED <<kid, tool, calls, restarts, deletes>>

----------------------------------------------------------------------------
(* agent.subagent.* tools, one call at a time *)

Call(op, ids) == /\ tool.op = "none" /\ calls < MaxCalls
                 /\ calls' = calls + 1
                 /\ tool' = [NoTool EXCEPT !.op = op, !.ids = ids]

ToolSpawn(k) ==
    /\ CanSpawn(k) /\ Call("spawn", {k})
    /\ kid' = [kid EXCEPT ![k] = Starts(k, "tool")]
    /\ UNCHANGED <<observers, told, restarts, deletes, owed>>

\* wait with some ids, result with one, list with whatever is there
ToolAsks(op, ids) ==
    /\ op \in {"wait", "result", "list"} /\ ids # {}
    /\ op = "result" => Cardinality(ids) = 1
    /\ op = "list" => ids = {k \in Kids : kid[k].there}
    /\ Call(op, ids)
    /\ UNCHANGED <<kid, observers, told, restarts, deletes, owed>>

\* A mistake, for the mutants: a child that has answered counts as settled.
HasAnswered(k) == kid[k].out > 0

\* is_settled
Settled(k) == kid[k].status # "running"

\* final_assistant_output, for a settled child
FinalOutput(k) == IF Settled(k) THEN kid[k].out ELSE 0

InProgress(k, n) == n > 0 /\ kid[k].active /\ n = kid[k].begun

\* subagent_result_for: one child after another; one that is not a direct child is an error.
ReadsChild(k) ==
    /\ tool.op \in {"wait", "result", "list"} /\ tool.end = "none" /\ k \in tool.ids \ tool.read
    /\ tool' = IF kid[k].there
               THEN [tool EXCEPT !.read = @ \cup {k},
                                 !.results = @ \cup {[kid |-> k, settled |-> Settled(k),
                                                      out |-> FinalOutput(k),
                                                      of_past |-> ~InProgress(k, FinalOutput(k))]}]
               ELSE [tool EXCEPT !.end = IF tool.op = "list" THEN "returned" ELSE "error"]
    /\ UNCHANGED <<kid, observers, told, calls, restarts, deletes, owed>>

AllRead == tool.ids \subseteq tool.read
AllSettled == \A r \in tool.results : r.settled

\* wait_subagents returns when all are settled; result and list whatever they are.
ToolReturns ==
    /\ tool.op \in {"wait", "result", "list"} /\ tool.end = "none" /\ AllRead
    /\ tool.op = "wait" => AllSettled
    /\ tool' = [tool EXCEPT !.end = "returned"]
    /\ UNCHANGED <<kid, observers, told, calls, restarts, deletes, owed>>

\* not all settled: sleep and read again, or the deadline has passed
WaitAgain ==
    /\ tool.op = "wait" /\ tool.end = "none" /\ AllRead /\ ~AllSettled
    /\ \/ tool' = [tool EXCEPT !.read = {}, !.results = {}]
       \/ tool' = [tool EXCEPT !.end = "timeout"]
    /\ UNCHANGED <<kid, observers, told, calls, restarts, deletes, owed>>

\* The parent's run is aborted: a wait ends, a spawn goes on until the child's run is over.
ParentAborts ==
    /\ tool.op = "wait" /\ tool.end = "none"
    /\ tool' = [tool EXCEPT !.end = "aborted"]
    /\ UNCHANGED <<kid, observers, told, calls, restarts, deletes, owed>>

\* The model has the output.
ToolOver == /\ tool.end # "none"
            /\ tool' = NoTool
            /\ UNCHANGED <<kid, observers, told, calls, restarts, deletes, owed>>

\* The process restarts: runs are failed, observers and calls are gone.
Restart ==
    /\ restarts < MaxRestarts
    /\ restarts' = restarts + 1
    /\ kid' = [k \in Kids |-> [kid[k] EXCEPT !.active = FALSE, !.caller = "none",
                    !.status = IF kid[k].status = "running" THEN "failed" ELSE kid[k].status]]
    /\ observers' = {} /\ tool' = NoTool /\ owed' = [k \in Kids |-> {}]
    /\ UNCHANGED <<told, calls, deletes>>

Tasks == \/ \E k \in Kids : RunStarted(k) \/ Reply(k)
                            \/ \E s \in {"completed", "paused", "failed", "aborted"} : RunEnds(k, s)
         \/ \E o \in observers : \/ ObserverWaits(o) \/ ObserverSleeps(o)
                                  \/ ObserverReads(o) \/ ObserverTells(o)

Next == \/ Tasks \/ Restart
        \/ \E k \in Kids : \/ ClientSpawn(k) \/ ClientPrompts(k) \/ ClientResumes(k)
                           \/ ClientDeletes(k) \/ ToolSpawn(k) \/ ReadsChild(k)
        \/ \E op \in {"wait", "result", "list"}, ids \in SUBSET Kids : ToolAsks(op, ids)
        \/ ToolReturns \/ WaitAgain \/ ParentAborts \/ ToolOver

Spec == Init /\ [][Next]_vars

\* Tasks of a running process are polled.
FairSpec == Spec /\ WF_vars(Tasks)

----------------------------------------------------------------------------
TypeOK ==
    /\ \A k \in Kids : kid[k].out <= kid[k].run /\ kid[k].run <= kid[k].begun /\ kid[k].begun <= MaxRuns
    /\ \A o \in observers : o.stage \in {"wait", "register", "asleep", "late", "read", "tell"}
    /\ tool.end \in {"none", "returned", "error", "timeout", "aborted"}

\* The final output that wait and result give the parent's model is that of a run that had
\* ended or paused when it was read, never of one in progress, whoever prompts the child
\* meanwhile; and what an observer tells the parent is at least as new as the run it is about.
FinalIsFinal ==
    /\ \A r \in tool.results : r.of_past
    /\ \A k \in Kids : "stale" \notin told[k]

\* The observer of run n looked while a later run was under way and registered after that had
\* ended: the wake-up that wait_for_idle can miss.
Missed(k, n) == \E o \in observers : o.kid = k /\ o.of = n /\ o.stage = "late"

\* The parent hears of every run that was prompted through the control plane and ended well,
\* unless the child is deleted, the process restarts in between, or the observer missed the
\* wake-up and no run of the child ends any more (which would wake it).
ParentIsTold ==
    \A k \in Kids, n \in 1..MaxRuns :
        (n \in owed[k]) ~> (n \notin owed[k] \/ [](Missed(k, n)))

\* ... also when it missed the wake-up.  Not so.
ParentIsToldAnyway == \A k \in Kids, n \in 1..MaxRuns : (n \in owed[k]) ~> (n \notin owed[k])

\* The parent is told what each run that ended well put out.  Not so: the observer reads the
\* child after a second prompt has begun, and a run resumed after an approval has no observer.
OutputReported ==
    \A k \in Kids : "other" \notin told[k]
=============================================================================
