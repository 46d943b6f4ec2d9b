-------------------------- MODULE JsonRpcTransport --------------------------
(***************************************************************************)
(* JSON-RPC between interaction clients and the control plane: the         *)
(* websocket client (interaction/client.rs; the app's in                   *)
(* noloong-app/src/interaction/ws.rs), the websocket and stdio servers     *)
(* (interaction/http.rs, interaction/jsonrpc.rs) and the subscriptions     *)
(* that turn an agent's events into notifications (interaction/control.rs).*)
(*                                                                         *)
(* A client keeps a map of pending requests, a writer task and a reader    *)
(* task.  The server reads frames, handles each websocket request in a     *)
(* task of its own (stdio: one after the other), and sends answers and     *)
(* notifications through one bounded channel to a writer task.  A run      *)
(* awaits every listener at every event: a full channel holds the run up,  *)
(* and a listener whose channel is closed makes the run fail.              *)
(***************************************************************************)
EXTENDS Naturals, Sequences, FiniteSets, SequencesExt

CONSTANTS
    Conns,      \* connections, each with one client
    AppConns,   \* the ones whose client is the desktop app's
    StdioConns, \* the ones served by serve_jsonrpc over stdio
    Reqs,       \* requests that may be made, 1..n, made in this order
    Prompters, Watchers, Leavers, Stoppers,
                \* connections that prompt, subscribe, unsubscribe, shut down,
                \* each once
    Events,     \* events of one run
    Buffer,     \* capacity of a server's outbound channel
    MaxFaults   \* bound on broken links, clients' closes and timeouts together

TransportAssumption ==
    /\ AppConns \subseteq Conns /\ StdioConns \subseteq Conns
    /\ Prompters \cup Watchers \cup Leavers \cup Stoppers \subseteq Conns
    /\ Reqs \subseteq Nat \ {0}
    /\ Events \in Nat /\ Buffer \in Nat \ {0} /\ MaxFaults \in Nat

VARIABLES
    pc,      \* request -> "unused", "sending", "sent"
    req,     \* request -> its connection and method
    out,     \* request -> what its caller was told, or "none"
    late,    \* ghost: the request was made after the reader had ended
    pending, \* connection -> requests in the client's map
    sendq,   \* connection -> commands for the client's writer
    client,  \* connection -> which of the client's tasks run
    link,    \* connection -> "up" or "broken"
    up, down,\* connection -> frames under way to the server, to the client
    server,  \* connection -> reader: "on", "ending", "gone"; writer: on?
    outq,    \* connection -> the server's outbound channel
    task,    \* request -> its handling on the server
    lis,     \* listeners of the agent in the order they subscribed
    run,     \* the agent's run: by whom, events left, listeners to notify
    heard,   \* ghost: connection -> events its listener was or will be called with
    seen,    \* connection -> notifications its client read
    due,     \* ghost: request -> events its answer comes after
    faults   \* how many of the bounded faults happened

clientVars == <<pc, req, out, late, pending, sendq, client>>
serverVars == <<server, outq, task, lis>>
vars == <<clientVars, link, up, down, serverVars, run, heard, seen, due, faults>>

Idle == [by |-> 0, left |-> 0, targets |-> <<>>]
CloseFrame == [type |-> "close"]
NoteFrame == [type |-> "note"]
RequestFrame(r) == [type |-> "request", id |-> r]
AnswerFrame(r, ok) == [type |-> "answer", id |-> r, ok |-> ok]

Set(f, x, v) == [f EXCEPT ![x] = v]
Push(f, c, x) == [f EXCEPT ![c] = Append(@, x)]
Pop(f, c) == [f EXCEPT ![c] = Tail(@)]

Asks(c, k) ==
    /\ c \in CASE k = "prompt" -> Prompters [] k = "subscribe" -> Watchers
            [] k = "unsubscribe" -> Leavers [] k = "shutdown" -> Stoppers
    /\ \A r \in Reqs : req[r] # [conn |-> c, kind |-> k]
Kinds == {"prompt", "subscribe", "unsubscribe", "shutdown"}

Init ==
    /\ pc = [r \in Reqs |-> "unused"]
    /\ req = [r \in Reqs |-> [conn |-> "nobody", kind |-> "none"]]
    /\ out = [r \in Reqs |-> "none"]
    /\ late = [r \in Reqs |-> FALSE]
    /\ pending = [c \in Conns |-> {}]
    /\ sendq = [c \in Conns |-> <<>>]
    /\ client = [c \in Conns |-> [writer |-> TRUE, reader |-> TRUE]]
    /\ link = [c \in Conns |-> "up"]
    /\ up = [c \in Conns |-> <<>>]
    /\ down = [c \in Conns |-> <<>>]
    /\ server = [c \in Conns |-> [reader |-> "on", writer |-> TRUE]]
    /\ outq = [c \in Conns |-> <<>>]
    /\ task = [r \in Reqs |-> "none"]
    /\ lis = <<>>
    /\ run = Idle
    /\ heard = [c \in Conns |-> 0]
    /\ seen = [c \in Conns |-> 0]
    /\ due = [r \in Reqs |-> 0]
    /\ faults = 0

-----------------------------------------------------------------------------
(* The client. *)

(* A sender answers its request once; a caller that gave up hears nothing. *)
Told(rs, what) == [r \in Reqs |-> IF r \in rs /\ out[r] = "none" THEN what ELSE out[r]]
NoDrain(c) == UNCHANGED <<out, pending>>
Drain(c) ==
    /\ out' = Told(pending[c], "closed")
    /\ pending' = Set(pending, c, {})

(* request_value: the request enters the map, then goes to the writer. *)
Call(r, c, k) ==
    /\ pc[r] = "unused" /\ \A q \in Reqs : q < r => pc[q] # "unused"
    /\ Asks(c, k)
    /\ pc' = Set(pc, r, "sending")
    /\ req' = Set(req, r, [conn |-> c, kind |-> k])
    /\ late' = Set(late, r, ~client[c].reader)
    /\ pending' = [pending EXCEPT ![c] = @ \cup {r}]
    /\ UNCHANGED <<out, sendq, client, link, up, down, serverVars, run, heard, seen, due, faults>>

Send(r) ==
    LET c == req[r].conn IN
    /\ pc[r] = "sending"
    /\ pc' = Set(pc, r, "sent")
    /\ \/ /\ client[c].writer
          /\ sendq' = Push(sendq, c, RequestFrame(r))
          /\ UNCHANGED <<out, pending>>
       \/ /\ ~client[c].writer
          /\ out' = Set(out, r, "closed")
          /\ pending' = [pending EXCEPT ![c] = @ \ {r}]
          /\ UNCHANGED sendq
    /\ UNCHANGED <<req, late, client, link, up, down, serverVars, run, heard, seen, due, faults>>

RequestTimesOut(r) ==
    /\ faults < MaxFaults /\ faults' = faults + 1
    /\ pc[r] = "sent" /\ out[r] = "none"
    /\ out' = Set(out, r, "timeout")
    /\ pending' = [pending EXCEPT ![req[r].conn] = @ \ {r}]
    /\ UNCHANGED <<pc, req, late, sendq, client, link, up, down, serverVars, run, heard, seen,
                   due>>

(* shutdown(); the app's client has none. *)
ClientCloses(c) ==
    /\ faults < MaxFaults /\ faults' = faults + 1
    /\ c \notin AppConns /\ client[c].writer /\ CloseFrame \notin Range(sendq[c])
    /\ sendq' = Push(sendq, c, CloseFrame)
    /\ UNCHANGED <<pc, req, out, late, pending, client, link, up, down, serverVars, run, heard,
                   seen, due>>

(* A failed write ends the writer: the app's fails only that request, the *)
(* other one fails everything pending.                                    *)
WriteFails(c, r) ==
    /\ client' = [client EXCEPT ![c].writer = FALSE]
    /\ sendq' = Set(sendq, c, <<>>)
    /\ IF c \in AppConns
       THEN /\ out' = Told({r} \cap pending[c], "closed")
            /\ pending' = [pending EXCEPT ![c] = @ \ {r}]
       ELSE Drain(c)
    /\ UNCHANGED up

ClientWrites(c) ==
    /\ client[c].writer /\ sendq[c] # <<>>
    /\ LET x == Head(sendq[c]) IN
       \/ /\ x.type = "request"
          /\ sendq' = Pop(sendq, c)
          /\ up' = IF link[c] = "up" THEN Push(up, c, x) ELSE up
          /\ UNCHANGED <<client, out, pending>>
       \/ /\ x.type = "request" /\ (link[c] = "broken" \/ ~server[c].writer)
          /\ WriteFails(c, x.id)
       \/ /\ x.type = "close"
          /\ up' = IF link[c] = "up" THEN Push(up, c, x) ELSE up
          /\ client' = [client EXCEPT ![c].writer = FALSE]
          /\ sendq' = Set(sendq, c, <<>>)
          /\ Drain(c)
    /\ UNCHANGED <<pc, req, late, link, down, serverVars, run, heard, seen, due, faults>>

ReaderEnds(c) ==
    /\ client' = [client EXCEPT ![c].reader = FALSE]
    /\ Drain(c)
    /\ UNCHANGED seen

(* read_loop, handle_text_message *)
ClientReads(c) ==
    /\ client[c].reader
    /\ \/ /\ down[c] # <<>>
          /\ down' = Pop(down, c)
          /\ LET x == Head(down[c]) IN
             \/ /\ x.type = "note"
                /\ seen' = [seen EXCEPT ![c] = @ + 1]
                /\ UNCHANGED <<client, out, pending>>
             \/ /\ x.type = "answer"
                /\ out' = Told({x.id} \cap pending[c], IF x.ok THEN "ok" ELSE "error")
                /\ pending' = [pending EXCEPT ![c] = @ \ {x.id}]
                /\ UNCHANGED <<client, seen>>
             \/ /\ x.type = "close"
                /\ ReaderEnds(c)
       \/ /\ down[c] = <<>> /\ link[c] = "broken"
          /\ ReaderEnds(c)
          /\ UNCHANGED down
    /\ UNCHANGED <<pc, req, late, sendq, link, up, serverVars, run, heard, due, faults>>

(* External: the connection breaks; what was under way is lost. *)
Break(c) ==
    /\ faults < MaxFaults /\ faults' = faults + 1
    /\ link[c] = "up"
    /\ link' = Set(link, c, "broken")
    /\ up' = Set(up, c, <<>>)
    /\ down' = Set(down, c, <<>>)
    /\ UNCHANGED <<clientVars, serverVars, run, heard, seen, due>>

-----------------------------------------------------------------------------
(* The server. *)

Active(c) == {r \in Reqs : req[r].conn = c /\ task[r] \notin {"none", "done"}}
Room(c) == Len(outq[c]) < Buffer

(* serve_jsonrpc_websocket, serve_jsonrpc: the loop over incoming frames. *)
ServerReads(c) ==
    /\ server[c].reader = "on"
    /\ c \in StdioConns => Active(c) = {}
    /\ \/ /\ up[c] # <<>>
          /\ up' = Pop(up, c)
          /\ LET x == Head(up[c]) IN
             \/ /\ x.type = "request"
                /\ task' = Set(task, x.id, "handling")
                /\ UNCHANGED server
             \/ /\ x.type = "close"
                /\ server' = [server EXCEPT ![c].reader = "ending"]
                /\ UNCHANGED task
       \/ /\ up[c] = <<>> /\ link[c] = "broken"
          /\ server' = [server EXCEPT ![c].reader = "ending"]
          /\ UNCHANGED <<up, task>>
    /\ UNCHANGED <<clientVars, link, down, outq, lis, run, heard, seen, due, faults>>

(* After the loop: Close goes to the writer, and the writer is awaited. *)
ServerEnds(c) ==
    /\ \/ /\ server[c].reader = "ending" /\ server[c].writer /\ Room(c)
          /\ outq' = Push(outq, c, CloseFrame)
          /\ server' = [server EXCEPT ![c].reader = "awaiting"]
       \/ /\ server[c].reader \in {"ending", "awaiting"} /\ ~server[c].writer
          /\ server' = [server EXCEPT ![c].reader = "gone"]
          /\ UNCHANGED outq
    /\ UNCHANGED <<clientVars, link, up, down, task, lis, run, heard, seen, due, faults>>

(* Agent::unsubscribe, of the one listener that a connection has. *)
Unsubscribed(c) ==
    IF c \in Range(lis) THEN RemoveAt(lis, CHOOSE i \in DOMAIN lis : lis[i] = c) ELSE lis

(* InteractionControlHandler::handle; a prompt is answered when its run *)
(* has ended, and refused while another runs.                           *)
Handle(r) ==
    LET c == req[r].conn IN
    /\ task[r] = "handling"
    /\ \/ /\ req[r].kind = "subscribe"
          /\ lis' = IF c \in Range(lis) THEN lis ELSE Append(lis, c)
          /\ task' = Set(task, r, "answer")
          /\ UNCHANGED run
       \/ /\ req[r].kind = "unsubscribe"
          /\ lis' = Unsubscribed(c)
          /\ task' = Set(task, r, IF c \in Range(lis) THEN "answer" ELSE "refuse")
          /\ UNCHANGED run
       \/ /\ req[r].kind = "prompt" /\ run = Idle
          /\ run' = [by |-> r, left |-> Events, targets |-> <<>>]
          /\ task' = Set(task, r, "running")
          /\ UNCHANGED lis
       \/ /\ req[r].kind = "prompt" /\ run # Idle
          /\ task' = Set(task, r, "refuse")
          /\ UNCHANGED <<run, lis>>
       \/ /\ req[r].kind = "shutdown"
          /\ task' = Set(task, r, "answer")
          /\ UNCHANGED <<run, lis>>
    /\ UNCHANGED <<clientVars, link, up, down, server, outq, heard, seen, due, faults>>

(* The answer first, then, for shutdown, Close. *)
ClosesFirst(r, t) ==
    IF t = "close" THEN AnswerFrame(r, TRUE)
    ELSE IF req[r].kind = "shutdown" THEN CloseFrame ELSE AnswerFrame(r, t = "answer")
Reply(r, t) == IF t = "close" THEN CloseFrame ELSE AnswerFrame(r, t = "answer")

Answer(r) ==
    LET c == req[r].conn IN
    /\ task[r] \in {"answer", "refuse", "close"}
    /\ \/ /\ server[c].writer /\ Room(c)
          /\ outq' = Push(outq, c, Reply(r, task[r]))
          /\ task' = Set(task, r, IF req[r].kind = "shutdown" /\ task[r] # "close"
                                  THEN "close" ELSE "done")
          /\ server' = IF c \in StdioConns /\ task[r] = "close"
                       THEN [server EXCEPT ![c].reader = "awaiting"] ELSE server
       \/ /\ ~server[c].writer
          /\ task' = Set(task, r, "done")
          /\ UNCHANGED <<outq, server>>
    /\ UNCHANGED <<clientVars, link, up, down, lis, run, heard, seen, due, faults>>

(* write_websocket_outbound, write_outbound_jsonrpc *)
ServerWrites(c) ==
    /\ server[c].writer /\ outq[c] # <<>>
    /\ LET x == Head(outq[c]) IN
       \/ /\ down' = IF link[c] = "up" THEN Push(down, c, x) ELSE down
          /\ server' = [server EXCEPT ![c].writer = x.type # "close"]
          /\ outq' = IF x.type = "close" THEN Set(outq, c, <<>>) ELSE Pop(outq, c)
       \/ /\ link[c] = "broken"
          /\ server' = [server EXCEPT ![c].writer = FALSE]
          /\ outq' = Set(outq, c, <<>>)
          /\ UNCHANGED down
    /\ UNCHANGED <<clientVars, link, up, task, lis, run, heard, seen, due, faults>>

(* Drop for InteractionControlClientState: when the connection and every *)
(* request of it have ended.                                             *)
Dropped(c) ==
    /\ server[c].reader = "gone" /\ Active(c) = {} /\ c \in Range(lis)
    /\ lis' = Unsubscribed(c)
    /\ UNCHANGED <<clientVars, link, up, down, server, outq, task, run, heard, seen, due, faults>>

-----------------------------------------------------------------------------
(* The agent's run, as its event sink sees it. *)

Emit ==
    /\ run # Idle /\ run.left > 0 /\ run.targets = <<>>
    /\ run' = [run EXCEPT !.left = @ - 1, !.targets = lis]
    /\ heard' = [c \in Conns |-> heard[c] + (IF c \in Range(lis) THEN 1 ELSE 0)]
    /\ UNCHANGED <<clientVars, link, up, down, serverVars, seen, due, faults>>

(* notify: waits for room; fails when the writer is gone, and the run with it: *)
(* the listeners behind it do not hear this event.                            *)
Notify ==
    /\ run.targets # <<>>
    /\ LET c == Head(run.targets) IN
       \/ /\ server[c].writer /\ Room(c)
          /\ outq' = Push(outq, c, NoteFrame)
          /\ run' = [run EXCEPT !.targets = Tail(@)]
          /\ UNCHANGED <<task, heard>>
       \/ /\ ~server[c].writer
          /\ run' = Idle
          /\ task' = Set(task, run.by, "refuse")
          /\ heard' = [d \in Conns |-> heard[d] - (IF d \in Range(run.targets) THEN 1 ELSE 0)]
          /\ UNCHANGED outq
    /\ UNCHANGED <<clientVars, link, up, down, server, lis, seen, due, faults>>

(* The listeners of the last event have been awaited too. *)
OverAtLastEvent == run.left = 0
EveryEventOut == run.left = 0 /\ run.targets = <<>>

RunEnds ==
    /\ run # Idle /\ EveryEventOut
    /\ task' = Set(task, run.by, "answer")
    /\ due' = [due EXCEPT ![run.by] = heard[req[run.by].conn]]
    /\ run' = Idle
    /\ UNCHANGED <<clientVars, link, up, down, server, outq, lis, heard, seen, faults>>

-----------------------------------------------------------------------------
ClientTasks(c) == ClientWrites(c) \/ ClientReads(c)
ServerTasks(c) == ServerReads(c) \/ ServerEnds(c) \/ ServerWrites(c) \/ Dropped(c)
RequestTasks(r) == Send(r) \/ Handle(r) \/ Answer(r)
RunTask == Emit \/ Notify \/ RunEnds

Next ==
    \/ \E r \in Reqs, c \in Conns, k \in Kinds : Call(r, c, k)
    \/ \E r \in Reqs : Send(r) \/ RequestTimesOut(r) \/ Handle(r) \/ Answer(r)
    \/ \E c \in Conns : ClientCloses(c) \/ ClientWrites(c) \/ ClientReads(c) \/ Break(c)
    \/ \E c \in Conns : ServerReads(c) \/ ServerEnds(c) \/ ServerWrites(c) \/ Dropped(c)
    \/ Emit \/ Notify \/ RunEnds

(* The runtime schedules every task that can go on; nothing makes a client *)
(* call, a link break or a timeout elapse.                                 *)
Tasks ==
    \/ \E c \in Conns : ClientTasks(c) \/ ServerTasks(c)
    \/ \E r \in Reqs : RequestTasks(r)
    \/ RunTask

Spec == Init /\ [][Next]_vars
FairSpec == Spec /\ WF_vars(Tasks)

-----------------------------------------------------------------------------
TypeOK ==
    /\ pc \in [Reqs -> {"unused", "sending", "sent"}]
    /\ out \in [Reqs -> {"none", "ok", "error", "closed", "timeout"}]
    /\ pending \in [Conns -> SUBSET Reqs]
    /\ task \in [Reqs -> {"none", "handling", "running", "answer", "refuse", "close", "done"}]
    /\ \A c \in Conns : Len(outq[c]) <= Buffer

(* A client that prompts and listens has read every event of the run when *)
(* the prompt's answer reaches it: the listeners are awaited, and events  *)
(* and answers share one channel.                                         *)
EventsBeforeAnswer ==
    \A r \in Reqs : (req[r].kind = "prompt" /\ out[r] = "ok") => seen[req[r].conn] >= due[r]

(* A client that asks for shutdown is told it happened: its connection is *)
(* closed after the answer.  (Only one of several is.)                    *)
ShutdownAnswered ==
    \A r \in Reqs :
        ( /\ req[r].kind = "shutdown" /\ out[r] = "closed"
          /\ link[req[r].conn] = "up" /\ client[req[r].conn].writer /\ ~late[r] )
        => \E s \in Reqs : req[s] = req[r] /\ out[s] \in {"ok", "timeout"}

(* No request is left to its time limit while the connection can tell: when *)
(* the tasks go on, a request made before the reader ended is answered or   *)
(* failed, whatever else fills the channel, closes or breaks.               *)
RequestsEnd ==
    \A r \in Reqs : (pc[r] = "sent" /\ ~late[r]) ~> (out[r] # "none")

(* A run does not fail because a client that only watches it went away. *)
(* (Not so: its listener stays until its connection and its requests    *)
(* have ended.)                                                         *)
WatcherLossHarmless ==
    \A r \in Reqs :
        (req[r].kind = "prompt" /\ task[r] = "refuse" /\ \A s \in Reqs : s # r => req[s].kind # "prompt")
        => link[req[r].conn] = "broken" \/ ~client[req[r].conn].writer

=============================================================================
