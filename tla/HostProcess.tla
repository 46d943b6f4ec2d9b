---------------------------- MODULE HostProcess ----------------------------
(***************************************************************************)
(* A job of the host process manager (process/manager.rs) and the          *)
(* host.exec tools that drive it (tools/host_exec.rs).                     *)
(*                                                                         *)
(* A job is one child process, a reader task for each of its output pipes, *)
(* a watcher task that waits for the child or for a request to kill it,    *)
(* and a spool of output chunks that holds Spool bytes and drops the       *)
(* oldest.  Jobs do not share state, so one job stands for all of them.    *)
(* Two callers use it at the same time: the agent's tool calls, which are  *)
(* sequential, and the owner of the manager, who closes it.                *)
(*                                                                         *)
(* A chunk is known by its sequence number and by the range of bytes of    *)
(* the whole output it holds.                                              *)
(***************************************************************************)
EXTENDS Naturals, Sequences

CONSTANTS
  Spool,        \* max_spool_bytes
  Sizes,        \* lengths of what the child writes at once
  ReadSizes,    \* the max_bytes of a read
  MaxWrites,    \* bound: writes of the child
  MaxCalls      \* bound: calls of both callers

HostProcessAssumption ==
  /\ Spool \in Nat \ {0}
  /\ Sizes \subseteq Nat \ {0} /\ ReadSizes \subseteq Nat

Streams == {"stdout", "stderr"}
Callers == {"tool", "owner"}

VARIABLES
  child,    \* [state, held, stdin]: the process, pipes held by another, its stdin pipe
  pipe,     \* bytes written and not read yet, per stream
  reader,   \* reader task per stream: "none", "reading", "done"
  watcher,  \* "none", "select", "stdin", "join", "finish", "publish", "done"
  outcome,  \* the status the watcher will set
  kill,     \* a Terminate message is in the control channel
  status, spool,
  call,     \* per caller: [pc, op, arg, woken, st]
  calls, writes, completions,
  follower  \* a reader of the output that passes on each next_cursor:
            \* [cursor, got, warned, ended]

vars == <<child, pipe, reader, watcher, outcome, kill, status, spool, call, calls,
          writes, completions, follower>>
jobVars == <<child, pipe, reader, watcher, outcome, kill, status, spool, writes, completions>>

NoCall == [pc |-> "idle", op |-> "none", arg |-> 0, woken |-> FALSE, st |-> "none"]

Init ==
  /\ child = [state |-> "none", held |-> FALSE, stdin |-> FALSE]
  /\ pipe = [s \in Streams |-> <<>>]
  /\ reader = [s \in Streams |-> "none"]
  /\ watcher = "none" /\ outcome = "none" /\ kill = FALSE
  /\ status = "none"
  /\ spool = [chunks |-> <<>>, next |-> 1, end |-> 0, dropped |-> 0]
  /\ call = [c \in Callers |-> NoCall]
  /\ calls = 0 /\ writes = 0 /\ completions = 0
  /\ follower = [cursor |-> 0, got |-> {}, warned |-> FALSE, ended |-> FALSE]

Running == status = "running"

(* notify_waiters: whoever created a Notified before is woken.             *)
Notify == call' = [c \in Callers |-> [call[c] EXCEPT !.woken = @ \/ call[c].pc = "asleep"]]

-----------------------------------------------------------------------------
(* The spool: OutputBuffer.                                                *)

(* What is written at once and exceeds the spool becomes several chunks,   *)
(* and the oldest chunks are dropped until the others fit.                 *)
(* The output is taken to be UTF-8 whose characters no chunk cuts: of such *)
(* text from_utf8_lossy and prefix_to_bytes change nothing.                *)
Split(b, n) ==
  [i \in 1..((n + Spool - 1) \div Spool) |->
     [seq |-> b.next + i - 1, from |-> b.end + (i - 1) * Spool,
      to |-> b.end + (IF i * Spool <= n THEN i * Spool ELSE n)]]

Push(b, n) ==
  LET all == b.chunks \o Split(b, n)
      next == all[Len(all)].seq + 1
      kept == SelectSeq(all, LAMBDA c : b.end + n - c.from <= Spool)
  IN [chunks |-> kept, next |-> next, end |-> b.end + n, dropped |-> next - 1 - Len(kept)]

(* read returns whole chunks as long as they fit, then a part of the next  *)
(* one; the cursor moves past a chunk that was cut.                        *)
ReadChunks(b, after, max) ==
  LET new == SelectSeq(b.chunks, LAMBDA c : c.seq > after)
      whole == Len(SelectSeq(new, LAMBDA c : c.to - new[1].from <= max))
      used == IF whole = 0 THEN 0 ELSE new[whole].to - new[1].from
      last == IF whole < Len(new) /\ used < max THEN whole + 1 ELSE whole
      first == IF after > b.dropped THEN after ELSE b.dropped
  IN [got |-> {new[i].seq : i \in 1..whole},
      cursor |-> IF last > 0 THEN new[last].seq ELSE first,
      truncated |-> after < b.dropped \/ whole < Len(new) \/ max = 0]

(* A mutant that reports only what it cut itself.                          *)
ReadForgetsDrops(b, after, max) ==
  [ReadChunks(b, after, max) EXCEPT !.truncated =
     ReadChunks(b, b.dropped, max).truncated]

Read(b, after, max) == ReadChunks(b, after, max)

-----------------------------------------------------------------------------
(* The child, its readers and its watcher.                                 *)

ChildWrites(s, n) ==
  /\ child.state = "alive" \/ child.held
  /\ status # "none" /\ writes < MaxWrites
  /\ pipe' = [pipe EXCEPT ![s] = Append(@, n)]
  /\ writes' = writes + 1
  /\ UNCHANGED <<child, reader, watcher, outcome, kill, status, spool, call, calls,
                 completions, follower>>

(* The child ends; a process it started may still hold the other ends of   *)
(* its pipes, and lets them go at some time or never.                      *)
ChildExits(held) ==
  /\ child.state = "alive"
  /\ child' = [child EXCEPT !.state = "dead", !.held = held]
  /\ UNCHANGED <<pipe, reader, watcher, outcome, kill, status, spool, call, calls,
                 writes, completions, follower>>

PipesReleased ==
  /\ child.held
  /\ child' = [child EXCEPT !.held = FALSE]
  /\ UNCHANGED <<pipe, reader, watcher, outcome, kill, status, spool, call, calls,
                 writes, completions, follower>>

ReaderReads(s) ==
  /\ reader[s] = "reading" /\ pipe[s] # <<>>
  /\ spool' = Push(spool, Head(pipe[s]))
  /\ pipe' = [pipe EXCEPT ![s] = Tail(@)]
  /\ Notify
  /\ UNCHANGED <<child, reader, watcher, outcome, kill, status, calls, writes,
                 completions, follower>>

ReaderEnds(s) ==
  /\ reader[s] = "reading" /\ pipe[s] = <<>>
  /\ child.state = "dead" /\ ~child.held
  /\ reader' = [reader EXCEPT ![s] = "done"]
  /\ UNCHANGED <<child, pipe, watcher, outcome, kill, status, spool, call, calls, writes,
                 completions, follower>>

(* A read error fails the job while the child may still run.               *)
ReaderFails(s) ==
  /\ reader[s] = "reading" /\ watcher # "done"
  /\ reader' = [reader EXCEPT ![s] = "done"]
  /\ status' = "failed"
  /\ Notify
  /\ UNCHANGED <<child, pipe, watcher, outcome, kill, spool, calls, writes,
                 completions, follower>>

(* select!: the exit of the child or the request to kill it, whichever is  *)
(* seen; killing waits for the child as well, and not for a process that   *)
(* the child started and that may hold its pipes (terminate_child).        *)
WatcherSees(killed) ==
  /\ watcher = "select"
  /\ IF killed
     THEN /\ kill
          /\ \E fails, held \in BOOLEAN :
               /\ outcome' = IF fails THEN "failed" ELSE "terminated"
               /\ held => ~fails /\ child.state = "alive"
               /\ child' = IF fails THEN child
                           ELSE [child EXCEPT !.state = "dead", !.held = @ \/ held]
          /\ kill' = FALSE
     ELSE child.state = "dead" /\ outcome' = "exited" /\ UNCHANGED <<child, kill>>
  /\ watcher' = "stdin"
  /\ UNCHANGED <<pipe, reader, status, spool, call, calls, writes, completions, follower>>

(* Closing stdin takes the lock that a tool call holds while it writes.    *)
StdinFree == \A c \in Callers : call[c].pc # "writing"

ClosesStdin ==
  /\ watcher = "stdin" /\ StdinFree
  /\ child' = [child EXCEPT !.stdin = FALSE]
  /\ watcher' = "join"
  /\ UNCHANGED <<pipe, reader, outcome, kill, status, spool, call, calls, writes,
                 completions, follower>>

JoinsNone == TRUE
ReadersDone == \A s \in Streams : reader[s] = "done"

JoinsReaders ==
  /\ watcher = "join" /\ ReadersDone
  /\ watcher' = "finish"
  /\ UNCHANGED <<child, pipe, reader, outcome, kill, status, spool, call, calls, writes,
                 completions, follower>>

FinishedAlways(now, outcomeSeen) == outcomeSeen
Finished(now, outcomeSeen) == IF now = "running" THEN outcomeSeen ELSE now

(* A mutant of the next action that notifies nobody.                       *)
FinishSilently ==
  /\ watcher = "finish"
  /\ status' = Finished(status, outcome) /\ watcher' = "publish"
  /\ UNCHANGED <<child, pipe, reader, outcome, kill, spool, call, calls, writes,
                 completions, follower>>

(* finish_handle, and the completion event for every listener.             *)
Finish ==
  /\ watcher = "finish"
  /\ status' = Finished(status, outcome)
  /\ watcher' = "publish"
  /\ Notify
  /\ UNCHANGED <<child, pipe, reader, outcome, kill, spool, calls, writes, completions, follower>>

Publish ==
  /\ watcher = "publish"
  /\ completions' = completions + 1
  /\ watcher' = "done"
  /\ UNCHANGED <<child, pipe, reader, outcome, kill, status, spool, call, calls, writes, follower>>

-----------------------------------------------------------------------------
(* The calls.                                                              *)

(* start: spawns the child, lists the job, spawns readers and watcher, and *)
(* waits in the foreground when asked to.                                  *)
Start(pipeStdin, foreground) ==
  /\ status = "none" /\ call["tool"].pc = "idle"
  /\ child' = [state |-> "alive", held |-> FALSE, stdin |-> pipeStdin]
  /\ reader' = [s \in Streams |-> "reading"]
  /\ watcher' = "select" /\ status' = "running"
  /\ call' = [call EXCEPT !["tool"] =
       IF foreground THEN [NoCall EXCEPT !.pc = "waiting", !.op = "wait", !.arg = 1] ELSE NoCall]
  /\ UNCHANGED <<pipe, outcome, kill, spool, calls, writes, completions, follower>>

SpawnFails ==
  /\ status = "none" /\ calls < MaxCalls /\ call["tool"].pc = "idle"
  /\ calls' = calls + 1
  /\ UNCHANGED <<jobVars, call, follower>>

Begins(c, pc, op, arg) ==
  /\ status # "none" /\ call[c].pc = "idle"
  /\ calls < MaxCalls /\ calls' = calls + 1
  /\ call' = [call EXCEPT ![c] = [NoCall EXCEPT !.pc = pc, !.op = op, !.arg = arg]]

(* read: wait_for_output_if_needed creates its Notified, looks, and waits. *)
ReadBegins(max, waits) ==
  /\ Begins("tool", IF waits THEN "look" ELSE "status", "read", max)
  /\ UNCHANGED <<jobVars, follower>>

ReadLooks ==
  /\ call["tool"].pc = "look"
  /\ LET new == \E i \in DOMAIN spool.chunks : spool.chunks[i].seq > follower.cursor
     IN call' = [call EXCEPT !["tool"].pc = IF new \/ ~Running THEN "status" ELSE "sleep"]
  /\ UNCHANGED <<jobVars, calls, follower>>

(* Woken, or the time is over.                                             *)
ReadWakes ==
  /\ call["tool"].pc = "sleep"
  /\ call' = [call EXCEPT !["tool"].pc = "status"]
  /\ UNCHANGED <<jobVars, calls, follower>>

(* The status is read before the output.                                   *)
ReadStatus ==
  /\ call["tool"].pc = "status"
  /\ call' = [call EXCEPT !["tool"].pc = "output", !["tool"].st = status]
  /\ UNCHANGED <<jobVars, calls, follower>>

ReadOutput ==
  /\ call["tool"].pc = "output"
  /\ LET r == Read(spool, follower.cursor, call["tool"].arg)
     IN follower' = [cursor |-> r.cursor, got |-> follower.got \cup r.got,
                     warned |-> follower.warned \/ r.truncated,
                     ended |-> call["tool"].st \in {"exited", "terminated"}]
  /\ call' = [call EXCEPT !["tool"] = NoCall]
  /\ UNCHANGED <<jobVars, calls>>

(* wait: arg 1 has a timeout.                                              *)
WaitBegins(timed) ==
  /\ Begins("tool", "waiting", "wait", timed)
  /\ UNCHANGED <<jobVars, follower>>

(* wait_until_not_running: create the Notified, look at the status, wait   *)
(* for the notification, and look again.                                   *)
WaitLooks(c) ==
  /\ call[c].pc = "waiting"
  /\ call' = [call EXCEPT ![c] = IF Running THEN [@ EXCEPT !.pc = "asleep", !.woken = FALSE]
                                 ELSE NoCall]
  /\ UNCHANGED <<jobVars, calls, follower>>

WaitWakes(c) ==
  /\ call[c].pc = "asleep" /\ call[c].woken
  /\ call' = [call EXCEPT ![c].pc = "waiting"]
  /\ UNCHANGED <<jobVars, calls, follower>>

WaitTimesOut ==
  /\ call["tool"].pc \in {"waiting", "asleep"}
  /\ call["tool"].op = "wait" /\ call["tool"].arg = 1
  /\ call' = [call EXCEPT !["tool"] = NoCall]
  /\ UNCHANGED <<jobVars, calls, follower>>

(* write holds stdin until all is written, and fails on a broken pipe.     *)
WriteBegins ==
  /\ StdinFree
  /\ Begins("tool", IF child.stdin THEN "writing" ELSE "idle", "write", 0)
  /\ UNCHANGED <<jobVars, follower>>

WriteEnds ==
  /\ call["tool"].pc = "writing"
  /\ call' = [call EXCEPT !["tool"] = NoCall]
  /\ UNCHANGED <<jobVars, calls, follower>>

(* terminate looks at the status, sends the request, and waits; close does *)
(* the same for each job that is listed when it begins.                    *)
TerminateBegins(c) ==
  /\ Begins(c, "kill", "terminate", 0)
  /\ UNCHANGED <<jobVars, follower>>

NotifiesWatcher == Running /\ watcher \in {"select", "stdin", "join", "finish", "publish"}

Terminate(c) ==
  /\ call[c].pc = "kill"
  /\ kill' = (kill \/ NotifiesWatcher)
  /\ call' = [call EXCEPT ![c] = IF NotifiesWatcher THEN [@ EXCEPT !.pc = "waiting"] ELSE NoCall]
  /\ UNCHANGED <<child, pipe, reader, watcher, outcome, status, spool, calls, writes,
                 completions, follower>>

Watcher ==
  \/ \E killed \in BOOLEAN : WatcherSees(killed)
  \/ ClosesStdin \/ JoinsReaders \/ Finish \/ Publish

Tool ==
  \/ \E max \in ReadSizes, waits \in BOOLEAN : ReadBegins(max, waits)
  \/ ReadLooks \/ ReadWakes \/ ReadStatus \/ ReadOutput
  \/ \E timed \in {0, 1} : WaitBegins(timed)
  \/ WaitTimesOut \/ WriteBegins \/ WriteEnds \/ SpawnFails
  \/ \E pipeStdin, foreground \in BOOLEAN : Start(pipeStdin, foreground)

Next ==
  \/ \E s \in Streams, n \in Sizes : ChildWrites(s, n)
  \/ \E held \in BOOLEAN : ChildExits(held)
  \/ PipesReleased
  \/ \E s \in Streams : ReaderReads(s) \/ ReaderEnds(s) \/ ReaderFails(s)
  \/ Watcher \/ Tool
  \/ \E c \in Callers : TerminateBegins(c) \/ Terminate(c) \/ WaitLooks(c) \/ WaitWakes(c)

Spec == Init /\ [][Next]_vars

(* Tokio polls the tasks that are ready.  Nothing is assumed of the child, *)
(* of who holds its pipes or of the timers, except that a write to a       *)
(* process ends once that process is gone.                                 *)
Tasks ==
  \/ \E s \in Streams : ReaderReads(s) \/ ReaderEnds(s)
  \/ Watcher
  \/ child.state = "dead" /\ WriteEnds
  \/ \E c \in Callers : Terminate(c) \/ WaitLooks(c) \/ WaitWakes(c)

FairSpec == Spec /\ WF_vars(Tasks)

-----------------------------------------------------------------------------
(* Properties.                                                             *)

(* The state is well typed.                                                *)
TypeOK ==
  /\ child.state \in {"none", "alive", "dead"}
  /\ status \in {"none", "running", "exited", "terminated", "failed"}
  /\ spool.next \in Nat /\ spool.dropped < spool.next /\ Len(spool.chunks) <= Spool
  /\ completions \in 0..1

(* A caller that follows the output by passing back nextCursor, and that   *)
(* is told the job ended and was never told that something was truncated,  *)
(* has every chunk the job wrote: the readers are joined before the status *)
(* is set, and read takes the status before the output.                    *)
FollowerHasAll ==
  follower.ended /\ ~follower.warned => follower.got = 1..(spool.next - 1)

(* A job that ended keeps the status its callers were told: an error of a  *)
(* reader, the exit of the child and a request to kill it race, and the    *)
(* first one to be recorded stands.                                        *)
StatusSettles ==
  [][(status \in {"exited", "terminated", "failed"}) => status' = status]_vars

(* terminate and close return once the process is gone and nobody holds    *)
(* its pipes: the request reaches the watcher, which is not stuck behind a *)
(* writer, the readers see the end, and the notification is not missed.    *)
TerminateReturns ==
  \A c \in Callers :
    call[c].op = "terminate" /\ child.state = "dead" /\ ~child.held
      ~> call[c].op # "terminate"
=============================================================================
