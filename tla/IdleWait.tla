------------------------------- MODULE IdleWait -------------------------------
(***************************************************************************)
(* Tasks that share one Agent: runners call Agent::run_exclusive (prompt,  *)
(* continue_run, resume_tool_approvals), waiters call wait_for_idle, and   *)
(* anyone may call abort on a paused run.                                  *)
(*                                                                         *)
(* wait_for_idle looks at active_run under its mutex, gives the mutex up   *)
(* and only then creates the Notified future of `idle`.  On an executor    *)
(* with one thread the two are one step; with more a runner may finish in  *)
(* between.  Preempted are the waiters to whom that may happen.            *)
(*                                                                         *)
(* A definition with a longer name just above the one it resembles is a    *)
(* faulty variant of it: it shows which property notices the fault.        *)
(***************************************************************************)
EXTENDS Naturals, FiniteSets

CONSTANTS Runners, Waiters, Preempted

ASSUME IdleAssumption ==
  /\ Preempted \subseteq Waiters
  /\ "none" \notin Runners

VARIABLES
  active,      (* active_run: the runner whose token it holds, or "none"    *)
  runner,      (* where each runner is                                      *)
  aborter,     (* an abort of a paused run, in progress or not              *)
  waiter,      (* where each waiter is                                      *)
  awaited      (* history: the run each waiter found active when it called  *)

vars == <<active, runner, aborter, waiter, awaited>>

Init ==
  /\ active = "none"
  /\ runner = [r \in Runners |-> "start"]
  /\ aborter = "out"
  /\ waiter = [w \in Waiters |-> "call"]
  /\ awaited = [w \in Waiters |-> "none"]

-----------------------------------------------------------------------------
(* run_exclusive.                                                          *)

FreeAlways == TRUE
Free == active = "none"

Start(r) ==
  /\ runner[r] = "start"
  /\ IF Free
     THEN active' = r /\ runner' = [runner EXCEPT ![r] = "running"]
     ELSE runner' = [runner EXCEPT ![r] = "rejected"] /\ UNCHANGED active
  /\ UNCHANGED <<aborter, waiter, awaited>>

(* The operation: everything the run does, its listeners included.         *)
Finish(r) ==
  /\ runner[r] = "running"
  /\ runner' = [runner EXCEPT ![r] = "settled"]
  /\ UNCHANGED <<active, aborter, waiter, awaited>>

Clear(r) ==
  /\ runner[r] = "settled"
  /\ active' = "none"
  /\ runner' = [runner EXCEPT ![r] = "cleared"]
  /\ UNCHANGED <<aborter, waiter, awaited>>

Armed == {w \in Waiters : waiter[w] = "armed"}

(* notify_waiters wakes every registered waiter.                           *)
WokenOne == {w \in Armed : w = CHOOSE v \in Armed : TRUE}
Woken == Armed
Wake == waiter' = [w \in Waiters |-> IF w \in Woken THEN "woken" ELSE waiter[w]]

Notify(r) ==
  /\ runner[r] = "cleared"
  /\ runner' = [runner EXCEPT ![r] = "returned"]
  /\ Wake
  /\ UNCHANGED <<active, aborter, awaited>>

(* abort of a paused run, which no runner holds: a resume may start while  *)
(* abort_paused_run records the end of the run.                            *)
BeginAbort ==
  /\ aborter = "out" /\ active = "none"
  /\ aborter' = "aborting"
  /\ UNCHANGED <<active, runner, waiter, awaited>>

EndAbort ==
  /\ aborter = "aborting"
  /\ aborter' = "out"
  /\ Wake
  /\ UNCHANGED <<active, runner, awaited>>

-----------------------------------------------------------------------------
(* wait_for_idle.                                                          *)

(* One turn of its loop, up to the creation of the Notified.               *)
Look(w) ==
  /\ waiter[w] \in {"call", "again"}
  /\ waiter' = [waiter EXCEPT ![w] =
                  IF active = "none" THEN "returned"
                  ELSE IF w \in Preempted THEN "looked" ELSE "armed"]
  /\ awaited' = [awaited EXCEPT ![w] = IF waiter[w] = "call" THEN active ELSE @]
  /\ UNCHANGED <<active, aborter, runner>>

Register(w) ==
  /\ waiter[w] = "looked"
  /\ waiter' = [waiter EXCEPT ![w] = "armed"]
  /\ UNCHANGED <<active, aborter, runner, awaited>>

AfterWakeGone == "gone"
AfterWakeReturn == "returned"
AfterWake == "again"

WakeUp(w) ==
  /\ waiter[w] = "woken"
  /\ waiter' = [waiter EXCEPT ![w] = AfterWake]
  /\ UNCHANGED <<active, aborter, runner, awaited>>

-----------------------------------------------------------------------------
Run(r) == Start(r) \/ Finish(r) \/ Clear(r) \/ Notify(r)
Wait(w) == Look(w) \/ Register(w) \/ WakeUp(w)

Next ==
  \/ \E r \in Runners : Run(r)
  \/ \E w \in Waiters : Wait(w)
  \/ BeginAbort \/ EndAbort

Spec == Init /\ [][Next]_vars

(* The executor runs every task that is ready; a run's operation ends.     *)
FairSpec ==
  /\ Spec
  /\ \A r \in Runners : WF_vars(Run(r))
  /\ \A w \in Waiters : WF_vars(Wait(w))
  /\ WF_vars(EndAbort)

-----------------------------------------------------------------------------
(* Every variable is in its range.                                         *)
TypeOK ==
  /\ active \in Runners \cup {"none"}
  /\ runner \in [Runners -> {"start", "running", "settled", "cleared", "returned", "rejected"}]
  /\ waiter \in [Waiters -> {"call", "again", "looked", "armed", "woken", "returned"}]
  /\ awaited \in [Waiters -> Runners \cup {"none"}]
  /\ aborter \in {"out", "aborting"}

(* Two runs never share the agent, its state and its queues, however their *)
(* starts and ends interleave, and the token abort finds is the running    *)
(* run's (run_exclusive).                                                  *)
OneRun ==
  \A r \in Runners :
    runner[r] \in {"running", "settled"} => active = r

(* Whoever waited for a run goes on only when the run and its listeners    *)
(* have finished, whatever else notifies `idle` (the loop of               *)
(* wait_for_idle; delete_session removes the session after it).            *)
WaitSeesSettled ==
  \A w \in Waiters :
    waiter[w] = "returned" /\ awaited[w] # "none" =>
      runner[awaited[w]] \in {"cleared", "returned"}

(* wait_for_idle returns once the runs are over, for a waiter that no      *)
(* other thread overtakes: a notification wakes every waiter, and one that *)
(* finds the next run registers again.                                     *)
PromptWaitReturns == \A w \in Waiters \ Preempted : <>(waiter[w] = "returned")

(* The same for every waiter (wait_for_idle).                              *)
WaitReturns == \A w \in Waiters : <>(waiter[w] = "returned")

=============================================================================
