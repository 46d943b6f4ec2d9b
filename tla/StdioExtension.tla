--------------------------- MODULE StdioExtension ---------------------------
(***************************************************************************)
(* A JSON-RPC extension process and the runtime that calls it              *)
(* (jsonrpc/mod.rs, process.rs, adapters.rs).  Every adapter sends a       *)
(* request and waits for the response with its id; one task reads the      *)
(* extension's stdout and hands responses to the waiting requests and      *)
(* stream events to the model stream they name.  The model stream's own    *)
(* request runs in a task beside the loop that collects its events.        *)
(*                                                                         *)
(* One model stream ("model") runs alone or beside one other call of any   *)
(* adapter: they differ in what they make of a result.  The extension is   *)
(* free: it streams events, answers in any order, writes lines that are no *)
(* JSON, and dies.                                                         *)
(***************************************************************************)
EXTENDS Integers, Sequences, SequencesExt, FiniteSets

CONSTANTS Kinds,       \* the other call: "none", "content", "hook" or "optional"
          MaxEvents,   \* delta events of the stream alone; beside another call at most one
          MaxInvalid,  \* lines that are not JSON
          Room,        \* MODEL_STREAM_EVENT_BUFFER_CAPACITY
          PipeRoom     \* requests the extension's stdin takes unread

\* The adapters there are, by what must be in a result.
KindsAssumption == Kinds \subseteq {"none", "content", "hook", "optional"}

VARIABLES
    kind,        \* what the other call is
    fatal,       \* fatal_error is set
    pending,     \* ids in the pending map
    reply,       \* [Ids -> what the oneshot channel holds]
    call,        \* [Ids -> where request() stands, or its result]
    unread,      \* requests in the extension's stdin
    accepted,    \* requests the extension works on
    stdout,      \* lines not yet read
    open,        \* the extension lives
    emitted,     \* delta events it has written
    finished,    \* it has written the terminal event
    invalid,     \* lines that are not JSON so far
    reader,      \* the stdout task: "read", "send", "fail", "last", "over"
    inHand,      \* the event it is delivering
    lock,        \* who holds model_stream_sinks
    registered,  \* the stream is in model_stream_sinks
    chan,        \* the stream's event channel
    collector,   \* stream_model: "new", "collect", "leave", "done"
    events,      \* what it has collected
    answered,    \* response_done
    result,      \* what it returns
    sunk,        \* ghost: events handed to the runtime's sink
    before,      \* ghost: events written before the response
    cancelled

vars == <<kind, fatal, pending, reply, call, unread, accepted, stdout, open, emitted, finished,
          invalid, reader, inHand, lock, registered, chan, collector, events, answered, result,
          sunk, before, cancelled>>

requestVars == <<fatal, pending, reply, call, unread>>
extVars     == <<kind, accepted, open, emitted, finished, invalid, before, cancelled>>
readerVars  == <<stdout, reader, inHand>>
streamVars  == <<lock, registered, chan, collector, events, answered, result, sunk>>

Ids == {"model", "other"}
Over == {"ok", "error", "aborted"}

\* Events: a positive number is a delta, Finished a terminal one, Malformed does not parse.
Finished == 0
Malformed == -1
Terminal(e) == e = Finished

\* The results an extension may answer with.  "inline" is a model result that carries the
\* terminal event itself; "both" has a decision and an approval.
Answers(i) ==
    IF i = "other" THEN {"value", "empty", "jsonrpc_error"} \cup (IF kind = "hook" THEN {"both"} ELSE {})
    ELSE IF kind = "none" THEN {"empty", "inline", "wrong_stream", "jsonrpc_error"} ELSE {"empty"}
EventBound == IF kind = "none" THEN MaxEvents ELSE 1

\* What the adapters make of a result.  A tool's output, a summary, a compaction and a
\* refreshed login have a field that must be there.
Content(a) == IF a = "value" THEN "ok" ELSE "error"

\* The hook before a tool call returns a decision, or an approval, or neither.
HookResult(a) == IF a = "both" THEN "error" ELSE "ok"

\* Every field of the others may be missing: the hook after a tool call, the hooks of the
\* phases, a phase, a context provider, the headers of a login.
AllOptional(a) == "ok"

Decoded(i, a) ==
    IF a = "jsonrpc_error" THEN "error"
    ELSE IF i = "model" THEN "ok"
    ELSE CASE kind = "content"  -> Content(a)
           [] kind = "hook"     -> HookResult(a)
           [] kind = "optional" -> AllOptional(a)

Init ==
    /\ kind \in Kinds
    /\ fatal = FALSE /\ pending = {} /\ unread = {} /\ accepted = {} /\ stdout = <<>>
    /\ reply = [i \in Ids |-> "none"]
    /\ call = [i \in Ids |-> IF i = "other" /\ kind = "none" THEN "ok" ELSE "new"]
    /\ open = TRUE /\ emitted = 0 /\ finished = FALSE /\ invalid = 0
    /\ reader = "read" /\ inHand = Finished
    /\ lock = "free" /\ registered = FALSE /\ chan = <<>>
    /\ collector = "new" /\ events = <<>> /\ answered = FALSE /\ result = "none"
    /\ sunk = <<>> /\ before = 0 /\ cancelled = FALSE

----------------------------------------------------------------------------
(* StdioExtension::request, the same for every call. *)

Fail(i) == /\ call' = [call EXCEPT ![i] = "error"]
           /\ pending' = pending \ {i}

\* The model stream's request starts once the stream is registered.  throw_if_cancelled
\* and the first look at fatal_error.
Check(i) ==
    /\ call[i] = "new"
    /\ i = "model" => collector # "new"
    /\ call' = [call EXCEPT ![i] = IF cancelled THEN "aborted" ELSE IF fatal THEN "error" ELSE "checked"]
    /\ UNCHANGED <<fatal, pending, reply, unread, extVars, readerVars, streamVars>>

Insert(i) ==
    /\ call[i] = "checked"
    /\ pending' = pending \cup {i}
    /\ call' = [call EXCEPT ![i] = "inserted"]
    /\ UNCHANGED <<fatal, reply, unread, extVars, readerVars, streamVars>>

\* A mistake, for the mutants: fatal_error is not looked at again.
NoRecheck(i) ==
    /\ call[i] = "inserted"
    /\ call' = [call EXCEPT ![i] = "writing"]
    /\ UNCHANGED <<fatal, pending, reply, unread, extVars, readerVars, streamVars>>

\* The second look, after the id is in the map.
Recheck(i) ==
    /\ call[i] = "inserted"
    /\ IF fatal THEN Fail(i) ELSE call' = [call EXCEPT ![i] = "writing"] /\ UNCHANGED pending
    /\ UNCHANGED <<fatal, reply, unread, extVars, readerVars, streamVars>>

\* The write has neither timeout nor cancellation; to a dead process it may still succeed
\* (the pipe takes it) or fail.
Write(i) ==
    /\ call[i] = "writing"
    /\ \/ /\ Cardinality(unread) < PipeRoom
          /\ unread' = unread \cup {i}
          /\ call' = [call EXCEPT ![i] = "waiting"]
          /\ UNCHANGED pending
       \/ /\ ~open
          /\ Fail(i)
          /\ UNCHANGED unread
    /\ UNCHANGED <<fatal, reply, extVars, readerVars, streamVars>>

Receive(i) ==
    /\ call[i] = "waiting"
    /\ reply[i] # "none"
    /\ call' = [call EXCEPT ![i] = IF reply[i] = "closed" THEN "error" ELSE Decoded(i, reply[i])]
    /\ UNCHANGED <<fatal, pending, reply, unread, extVars, readerVars, streamVars>>

\* request_timeout
TimesOut(i) ==
    /\ call[i] = "waiting"
    /\ reply[i] = "none"
    /\ Fail(i)
    /\ UNCHANGED <<fatal, reply, unread, extVars, readerVars, streamVars>>

\* The select of request(): cancellation may win even when the response is there.
Aborts(i) ==
    /\ call[i] = "waiting"
    /\ cancelled
    /\ call' = [call EXCEPT ![i] = "aborted"]
    /\ pending' = pending \ {i}
    /\ UNCHANGED <<fatal, reply, unread, extVars, readerVars, streamVars>>

Request(i) == Check(i) \/ Insert(i) \/ Recheck(i) \/ Write(i) \/ Receive(i) \/ TimesOut(i) \/ Aborts(i)

----------------------------------------------------------------------------
(* read_stdout, handle_message, fail_pending *)

\* A response: its sender leaves the map; one nobody waits for is dropped.
ReadResponse ==
    /\ reader = "read" /\ stdout # <<>> /\ Head(stdout).type = "response"
    /\ LET i == Head(stdout).id IN
         /\ reply' = [reply EXCEPT ![i] = IF i \in pending THEN Head(stdout).answer ELSE @]
         /\ pending' = pending \ {i}
    /\ stdout' = Tail(stdout)
    /\ UNCHANGED <<fatal, call, unread, extVars, reader, inHand, streamVars>>

\* A stream event: the lock on model_stream_sinks is taken in the condition and lasts
\* through the delivery.  The sink sees the event first.
ReadEvent ==
    /\ reader = "read" /\ stdout # <<>> /\ Head(stdout).type = "event"
    /\ lock = "free"
    /\ stdout' = Tail(stdout)
    /\ IF registered
       THEN /\ lock' = "reader"
            /\ reader' = "send"
            /\ inHand' = Head(stdout).event
            /\ sunk' = IF Head(stdout).event = Malformed THEN sunk ELSE Append(sunk, Head(stdout).event)
       ELSE UNCHANGED <<lock, reader, inHand, sunk>>
    /\ UNCHANGED <<requestVars, extVars, registered, chan, collector, events, answered, result>>

\* Into the bounded channel, or nowhere when stream_model is gone.
SendEvent ==
    /\ reader = "send"
    /\ collector = "done" \/ Len(chan) < Room
    /\ chan' = IF collector = "done" THEN chan ELSE Append(chan, inHand)
    /\ lock' = "free"
    /\ reader' = "read"
    /\ UNCHANGED <<requestVars, extVars, stdout, inHand, registered, collector, events, answered, result, sunk>>

\* fail_pending sets fatal_error, and in a second step empties the pending map.  The task
\* goes on after a line that is no JSON, and ends with the stream.
ReadInvalid ==
    /\ reader = "read"
    /\ \/ /\ stdout # <<>> /\ Head(stdout).type = "invalid"
          /\ stdout' = Tail(stdout)
          /\ reader' = "fail"
       \/ /\ stdout = <<>> /\ ~open
          /\ reader' = "last"
          /\ UNCHANGED stdout
    /\ fatal' = TRUE
    /\ UNCHANGED <<pending, reply, call, unread, extVars, inHand, streamVars>>

FailPending ==
    /\ reader \in {"fail", "last"}
    /\ reply' = [i \in Ids |-> IF i \in pending THEN "closed" ELSE reply[i]]
    /\ pending' = {}
    /\ reader' = IF reader = "fail" THEN "read" ELSE "over"
    /\ UNCHANGED <<fatal, call, unread, extVars, stdout, inHand, streamVars>>

Reader == ReadResponse \/ ReadEvent \/ SendEvent \/ ReadInvalid \/ FailPending

----------------------------------------------------------------------------
(* StdioModelProvider::stream_model and collect_model_stream *)

Register ==
    /\ collector = "new" /\ lock = "free"
    /\ collector' = IF cancelled THEN "done" ELSE "collect"
    /\ registered' = ~cancelled
    /\ result' = IF cancelled THEN "error" ELSE result
    /\ UNCHANGED <<requestVars, extVars, readerVars, lock, chan, events, answered, sunk>>

Returns(r) == collector' = "leave" /\ result' = r

TakeEvent ==
    /\ collector = "collect" /\ chan # <<>>
    /\ chan' = Tail(chan)
    /\ \/ /\ Head(chan) = Malformed
          /\ Returns("error")
          /\ UNCHANGED events
       \/ /\ Head(chan) # Malformed
          /\ events' = Append(events, Head(chan))
          /\ IF Terminal(Head(chan)) THEN Returns("ok") ELSE UNCHANGED <<collector, result>>
    /\ UNCHANGED <<requestVars, extVars, readerVars, lock, registered, answered, sunk>>

\* A mistake, for the mutants: the response ends the stream whether or not there are events.
AlwaysEnough(es) == TRUE

\* A response without events of its own ends the stream if any event has been collected.
Enough(es) == es # <<>>

\* The response is looked at beside the channel: it may win while events wait there.
TakeResponse ==
    /\ collector = "collect" /\ ~answered /\ call["model"] \in Over
    /\ answered' = TRUE
    /\ \/ /\ call["model"] # "ok" \/ reply["model"] = "wrong_stream"
          /\ Returns("error")
          /\ UNCHANGED <<events, sunk>>
       \/ /\ call["model"] = "ok" /\ reply["model"] = "inline"
          /\ sunk' = Append(sunk, Finished)
          /\ events' = Append(events, Finished)
          /\ Returns("ok")
       \/ /\ call["model"] = "ok" /\ reply["model"] = "empty"
          /\ IF Enough(events) THEN Returns("ok") ELSE UNCHANGED <<collector, result>>
          /\ UNCHANGED <<events, sunk>>
    /\ UNCHANGED <<requestVars, extVars, readerVars, lock, registered, chan>>

\* stream_timeout, or the cancellation
GiveUp ==
    /\ collector = "collect"
    /\ Returns("error")
    /\ UNCHANGED <<requestVars, extVars, readerVars, lock, registered, chan, events, answered, sunk>>

\* unregister_model_stream; then the receiving end of the channel goes.
Unregister ==
    /\ collector = "leave" /\ lock = "free"
    /\ registered' = FALSE
    /\ collector' = "done"
    /\ chan' = <<>>
    /\ UNCHANGED <<requestVars, extVars, readerVars, lock, events, answered, result, sunk>>

Stream == Register \/ TakeEvent \/ TakeResponse \/ GiveUp \/ Unregister

----------------------------------------------------------------------------
(* The extension, and the user who aborts the run. *)

Writes(line) == /\ open
                /\ stdout' = Append(stdout, line)
                /\ UNCHANGED <<kind, open, cancelled, requestVars, reader, inHand, streamVars>>

ExtReads(i) ==
    /\ open /\ i \in unread
    /\ unread' = unread \ {i}
    /\ accepted' = accepted \cup {i}
    /\ UNCHANGED <<fatal, pending, reply, call, kind, open, emitted, finished, invalid, before, cancelled, readerVars, streamVars>>

ExtStreams ==
    /\ emitted > 0 \/ "model" \in accepted
    /\ ~finished /\ emitted < EventBound
    /\ emitted' = emitted + 1
    /\ before' = IF "model" \in accepted THEN emitted' ELSE before
    /\ \E e \in {emitted'} \cup (IF kind = "none" THEN {Malformed} ELSE {}) : Writes([type |-> "event", event |-> e])
    /\ UNCHANGED <<accepted, finished, invalid>>

ExtFinishes ==
    /\ emitted > 0 \/ "model" \in accepted
    /\ ~finished
    /\ finished' = TRUE
    /\ before' = IF "model" \in accepted THEN emitted + 1 ELSE before
    /\ Writes([type |-> "event", event |-> Finished])
    /\ UNCHANGED <<accepted, emitted, invalid>>

\* A result carries events only when none were streamed.
ExtAnswers(i) ==
    /\ i \in accepted
    /\ accepted' = accepted \ {i}
    /\ \E a \in Answers(i) : /\ (a = "inline") => (emitted = 0 /\ ~finished)
                             /\ Writes([type |-> "response", id |-> i, answer |-> a])
    /\ finished' = (finished \/ (i = "model" /\ stdout'[Len(stdout')].answer = "inline"))
    /\ UNCHANGED <<emitted, invalid, before>>

ExtBabbles ==
    /\ invalid < MaxInvalid
    /\ invalid' = invalid + 1
    /\ Writes([type |-> "invalid"])
    /\ UNCHANGED <<accepted, emitted, finished, before>>

ExtDies ==
    /\ open
    /\ open' = FALSE
    /\ UNCHANGED <<kind, accepted, emitted, finished, invalid, before, cancelled, requestVars, readerVars, streamVars>>

Abort ==
    /\ ~cancelled
    /\ cancelled' = TRUE
    /\ UNCHANGED <<kind, accepted, open, emitted, finished, invalid, before, requestVars, readerVars, streamVars>>

Tasks == Reader \/ Stream \/ \E i \in Ids : Request(i)

Ended == /\ collector = "done" /\ \A i \in Ids : call[i] \in Over
         /\ UNCHANGED vars

Next == \/ Tasks
        \/ \E i \in Ids : ExtReads(i) \/ ExtAnswers(i)
        \/ ExtStreams \/ ExtFinishes \/ ExtBabbles \/ ExtDies \/ Abort
        \/ Ended

Spec == Init /\ [][Next]_vars

\* The runtime polls every task that can go on, and its timers fire.
FairSpec == Spec /\ \A i \in Ids : WF_vars(Request(i)) /\ WF_vars(Reader) /\ WF_vars(Stream)

----------------------------------------------------------------------------
TypeOK ==
    /\ pending \subseteq Ids /\ unread \subseteq Ids /\ accepted \subseteq Ids
    /\ call \in [Ids -> Over \cup {"new", "checked", "inserted", "writing", "waiting"}]
    /\ reader \in {"read", "send", "fail", "last", "over"}
    /\ lock \in {"free", "reader"}
    /\ collector \in {"new", "collect", "leave", "done"}
    /\ Len(chan) <= Room
    /\ result \in {"none", "ok", "error"}

\* No request waits for an answer that cannot come: once the reading task has ended, whoever
\* waits has been answered (request() looks at fatal_error again after it put its id in the
\* map, fail_pending sets fatal_error before it empties the map).
NoOrphan ==
    reader = "over" => \A i \in Ids : call[i] \in {"writing", "waiting"} => reply[i] # "none"

\* A model stream that returns ok returns at least one event, and what it returns is what the
\* runtime's sink has been given, in that order (the sink is called by the reading task, the
\* events are collected by another; the response comes by a third way).
OkIsWhatWasSeen ==
    result = "ok" => events # <<>> /\ IsPrefix(events, sunk)

\* A model stream that returns ok returns the events the extension wrote before its response,
\* up to the terminal one: "the extension may stream events before returning"
\* (docs/EXTENSIONS.md).  Not so: the response may overtake events in the channel.
EventsKept ==
    result = "ok" => Terminal(Last(events)) \/ Len(events) >= before

\* The model stream and the call beside it return, whatever the extension does.  Not so when
\* the channel is full: the reading task holds the lock on model_stream_sinks while it waits
\* for room, and stream_model waits for that lock before it drops the channel.
CallsReturn == <>(collector = "done" /\ \A i \in Ids : call[i] \in Over)
=============================================================================
