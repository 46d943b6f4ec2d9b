------------------------------- MODULE SseStream -------------------------------
(***************************************************************************)
(* One streaming model call over HTTP (sse.rs run_sse_model_stream, with   *)
(* the retry after a 401 that chat_completions.rs and responses.rs put     *)
(* around it), its CancellationToken (providers.rs) and the server.        *)
(*                                                                         *)
(* Every wait of the code is a select! of three arms: what the server      *)
(* does, CancellationToken::cancelled and a timer.  cancelled() is not one *)
(* step: it reads the flag, and only then creates the Notified future that *)
(* notify_waiters wakes.  `waiter` is where that future is:                *)
(*   fresh    the select! has not polled it,                               *)
(*   checked  it has read the flag as false,                               *)
(*   armed    it is registered and pending,                                *)
(*   woken    it is ready.                                                 *)
(* A runtime with one thread goes from fresh to armed in one step.  With   *)
(* more threads (Preemptible) another may call cancel in between.          *)
(*                                                                         *)
(* Timers are taken to be longer than the time the executor needs to poll  *)
(* a task that has been woken: a timer expires at an armed waiter only.    *)
(* The server may at any time do anything, or nothing for ever.            *)
(*                                                                         *)
(* A definition with a longer name just above the one it resembles is a    *)
(* faulty variant of it: it shows which property notices the fault.        *)
(***************************************************************************)
EXTENDS Naturals, Sequences, SequencesExt

CONSTANTS MaxReconnects, InitialBackoff, MaxBackoff,    (* SseReconnectConfig *)
          HasAuth,       (* an auth_provider is configured                    *)
          Preemptible,   (* the executor has more than one thread             *)
          BodyChunks,    (* chunks that fill the error body preview           *)
          MaxFrames      (* bound: data frames in one response                *)

StreamAssumption ==
  /\ {MaxReconnects, InitialBackoff, MaxBackoff, MaxFrames} \subseteq Nat
  /\ BodyChunks \in Nat \ {0}
  /\ {HasAuth, Preemptible} \subseteq BOOLEAN

VARIABLES
  pc,          (* the await the call is at                                  *)
  waiter,      (* the cancelled() future of the current select!             *)
  cancel,      (* CancellationInner: "no", "set" (the flag), "notified"     *)
  reconnects,  (* of run_sse_model_stream                                   *)
  authTry,     (* `attempt` of the loop around it                           *)
  status,      (* class of the response's status                            *)
  body,        (* chunks of the error body read                             *)
  wire,        (* history: frames the server wrote in this response         *)
  rest,        (* the decoder's buffer holds the start of frame Len(wire)   *)
  seen,        (* data_delivered                                            *)
  delivered,   (* frames whose events reached the stream sink               *)
  requests,    (* history: requests sent                                    *)
  result

call == <<reconnects, authTry, requests>>
response == <<status, body, wire, rest, seen>>
vars == <<pc, waiter, cancel, call, response, delivered, result>>

Selects == {"send", "errorBody", "read", "backoff"}
Kinds == {"delta", "terminal", "bad"}
Statuses == {"success", "retryable", "unauthorized", "fatal"}
Results == {"none", "ok", "aborted", "timedOut", "exhausted", "broken",
            "httpStatus", "authFailed", "badFrame", "sinkFailed"}

Init ==
  /\ pc = "attempt" /\ waiter = "fresh" /\ cancel = "no"
  /\ reconnects = 0 /\ authTry = 0 /\ requests = 0
  /\ status = "success" /\ body = 0 /\ wire = <<>> /\ rest = FALSE /\ seen = FALSE
  /\ delivered = <<>> /\ result = "none"

-----------------------------------------------------------------------------
(* The token and the select!.                                              *)

(* cancel(): the flag first, then notify_waiters.                          *)
SetFlag ==
  /\ cancel = "no"
  /\ cancel' = "set"
  /\ UNCHANGED <<pc, waiter, call, response, delivered, result>>

NotifyWaiters ==
  /\ cancel = "set"
  /\ cancel' = "notified"
  /\ waiter' = IF waiter = "armed" THEN "woken" ELSE waiter
  /\ UNCHANGED <<pc, call, response, delivered, result>>

IsCancelledNever == FALSE
IsCancelled == cancel # "no"

(* The first poll of cancelled(), up to the creation of the Notified.      *)
CheckFlag ==
  /\ pc \in Selects /\ waiter = "fresh"
  /\ waiter' = IF IsCancelled THEN "woken"
               ELSE IF Preemptible THEN "checked" ELSE "armed"
  /\ UNCHANGED <<pc, cancel, call, response, delivered, result>>

Register ==
  /\ pc \in Selects /\ waiter = "checked"
  /\ waiter' = "armed"
  /\ UNCHANGED <<pc, cancel, call, response, delivered, result>>

(* An arm other than cancelled() can be taken: select! polls its arms in   *)
(* random order, so it may win over an arm that is ready as well.          *)
Answered(p) == pc = p /\ waiter # "checked"
Expired(p) == pc = p /\ waiter = "armed"

Goto(p) == pc' = p /\ waiter' = "fresh"
Return(r) == pc' = "done" /\ result' = r /\ UNCHANGED waiter
Continue(p) == Goto(p) /\ UNCHANGED result

HearCancel ==
  /\ pc \in Selects /\ waiter = "woken"
  /\ Return("aborted")
  /\ UNCHANGED <<cancel, call, response, delivered>>

-----------------------------------------------------------------------------
(* The attempts of run_sse_model_stream.                                   *)

Delay(n) ==
  LET doubled == InitialBackoff * 2^n IN
  IF doubled < MaxBackoff THEN doubled ELSE MaxBackoff

ExhaustedLate == reconnects > MaxReconnects
Exhausted == reconnects >= MaxReconnects

(* RetryableBeforeData; a delay of zero is no await.                       *)
Retry ==
  \/ Exhausted /\ Return("exhausted") /\ UNCHANGED reconnects
  \/ ~Exhausted /\ Delay(reconnects) > 0 /\ Continue("backoff") /\ UNCHANGED reconnects
  \/ ~Exhausted /\ Delay(reconnects) = 0 /\ Continue("attempt") /\ reconnects' = reconnects + 1

BackoffEnds ==
  /\ Expired("backoff")
  /\ Continue("attempt")
  /\ reconnects' = reconnects + 1
  /\ UNCHANGED <<cancel, authTry, requests, response, delivered>>

BeginAttempt ==
  /\ pc = "attempt"
  /\ IF IsCancelled THEN Return("aborted") /\ UNCHANGED <<requests, response>>
     ELSE /\ Continue("send")
          /\ requests' = requests + 1
          /\ status' = "success" /\ body' = 0 /\ wire' = <<>> /\ rest' = FALSE
          /\ seen' = FALSE
  /\ UNCHANGED <<cancel, reconnects, authTry, delivered>>

SendFails ==
  /\ Answered("send")
  /\ Retry
  /\ UNCHANGED <<cancel, authTry, requests, response, delivered>>

RequestTimesOut ==
  /\ Expired("send")
  /\ Return("timedOut")
  /\ UNCHANGED <<cancel, call, response, delivered>>

Respond(s) ==
  /\ Answered("send")
  /\ status' = s
  /\ Continue(IF s = "success" THEN "read" ELSE "errorBody")
  /\ UNCHANGED <<cancel, call, body, wire, rest, seen, delivered>>

(* handle_http_error once the preview is read, and what its caller does    *)
(* with HttpStatus.                                                        *)
HttpError ==
  IF status = "retryable" THEN Retry
  ELSE /\ IF status = "unauthorized" /\ authTry = 0 /\ HasAuth
          THEN Continue("refresh") ELSE Return("httpStatus")
       /\ UNCHANGED reconnects

BodyChunk ==
  /\ Answered("errorBody")
  /\ body' = body + 1
  /\ IF body' < BodyChunks THEN Continue("errorBody") /\ UNCHANGED reconnects
     ELSE HttpError
  /\ UNCHANGED <<cancel, authTry, requests, status, wire, rest, seen, delivered>>

(* The end of the body or a chunk error; stream_idle_timeout is the same.  *)
BodyEnds ==
  /\ Answered("errorBody")
  /\ HttpError
  /\ UNCHANGED <<cancel, authTry, requests, response, delivered>>

BodyTimesOutNever == FALSE
BodyTimesOut == Expired("errorBody") /\ BodyEnds

(* HttpAuthProvider::refresh fails, or gives headers for one more call.    *)
RefreshAuth ==
  /\ pc = "refresh"
  /\ \/ Return("authFailed") /\ UNCHANGED <<authTry, reconnects>>
     \/ Return("httpStatus") /\ UNCHANGED <<authTry, reconnects>>
     \/ Continue("attempt") /\ authTry' = 1 /\ reconnects' = 0
  /\ UNCHANGED <<cancel, requests, response, delivered>>

-----------------------------------------------------------------------------
(* read_sse_response.                                                      *)

BrokenStreamRetried(dataDelivered) == Retry
BrokenStream(dataDelivered) ==
  IF dataDelivered THEN Return("broken") /\ UNCHANGED reconnects ELSE Retry

StreamTimesOut ==
  /\ Expired("read")
  /\ BrokenStream(seen)
  /\ UNCHANGED <<cancel, authTry, requests, response, delivered>>

ChunkFails ==
  /\ Answered("read")
  /\ BrokenStream(seen)
  /\ UNCHANGED <<cancel, authTry, requests, response, delivered>>

(* The numbers of the frames that a chunk hands to handle_data: the        *)
(* decoder stops at a terminal frame, and at a frame handle_data rejects.  *)
Decoded(from, to, frames) ==
  LET stop == {n \in from..to : frames[n] # "delta"}
      last == IF stop = {} THEN to ELSE CHOOSE n \in stop : \A m \in stop : n <= m
  IN [i \in 1..(last + 1 - from) |-> from + i - 1]

(* The events of the decoded frames reach the sink; a sink that fails has  *)
(* the frames before its failure.  A rejected frame drops the frames of    *)
(* the same chunk before it.                                               *)
Emit(numbers) == delivered' = delivered \o [i \in 1..Len(numbers) |-> <<requests, numbers[i]>>]

(* `numbers` have been decoded; then `next` unless the call returns.       *)
Deliver(numbers, frames, next) ==
  LET ending == IF numbers = <<>> THEN "delta" ELSE frames[Last(numbers)] IN
  \/ /\ ending = "bad"
     /\ Return("badFrame") /\ UNCHANGED <<delivered, reconnects>>
  \/ /\ ending # "bad" /\ numbers # <<>>
     /\ \E k \in 0..(Len(numbers) - 1) : Emit(SubSeq(numbers, 1, k))
     /\ Return("sinkFailed") /\ UNCHANGED reconnects
  \/ /\ ending = "terminal" /\ Emit(numbers)
     /\ Return("ok") /\ UNCHANGED reconnects
  \/ /\ ending = "delta" /\ Emit(numbers)
     /\ next

Open == Len(wire) - (IF rest THEN 1 ELSE 0)

(* A chunk: the rest of the frame in the buffer and new frames, the last   *)
(* of them perhaps unfinished.                                             *)
Chunk ==
  /\ Answered("read")
  /\ \E new \in BoundedSeq(Kinds, 2) :
       /\ new # <<>> \/ rest
       /\ Len(wire \o new) <= MaxFrames
       /\ wire' = wire \o new
       /\ rest' \in {new # <<>>, FALSE}
  /\ LET numbers == Decoded(Open + 1, Len(wire') - (IF rest' THEN 1 ELSE 0), wire') IN
     /\ seen' = (seen \/ numbers # <<>>)
     /\ Deliver(numbers, wire', Continue("read") /\ UNCHANGED reconnects)
  /\ UNCHANGED <<cancel, authTry, requests, status, body>>

(* A comment, or a part of a frame that completes nothing.                 *)
Comment ==
  /\ Answered("read")
  /\ Continue("read")
  /\ UNCHANGED <<cancel, call, response, delivered>>

(* The end of the stream before a terminal frame.                          *)
UnterminatedIsEnd(dataDelivered) ==
  IF dataDelivered THEN Return("ok") /\ UNCHANGED reconnects ELSE Retry
Unterminated(dataDelivered) == BrokenStream(dataDelivered)

(* The end of the stream: what the decoder's buffer holds is a frame.      *)
StreamEnds ==
  /\ Answered("read")
  /\ LET numbers == Decoded(Open + 1, Len(wire), wire) IN
     /\ seen' = (seen \/ numbers # <<>>)
     /\ rest' = FALSE
     /\ Deliver(numbers, wire, Unterminated(seen'))
  /\ UNCHANGED <<cancel, authTry, requests, status, body, wire>>

-----------------------------------------------------------------------------
Server ==
  \/ SendFails \/ \E s \in Statuses : Respond(s)
  \/ BodyChunk \/ BodyEnds
  \/ Chunk \/ Comment \/ ChunkFails \/ StreamEnds

Timers == RequestTimesOut \/ BodyTimesOut \/ StreamTimesOut \/ BackoffEnds

(* What the executor does without the server or the clock.                 *)
Task == CheckFlag \/ Register \/ HearCancel \/ BeginAttempt \/ RefreshAuth

Next == Task \/ SetFlag \/ NotifyWaiters \/ Server \/ Timers

Spec == Init /\ [][Next]_vars

-----------------------------------------------------------------------------
(* Fairness.  The executor polls a woken task and finishes notify_waiters; *)
(* select! takes its arms in random order, so an arm that is ready again   *)
(* and again is taken in the end.  Nothing is assumed of the server, nor,  *)
(* here, of the clock.                                                     *)
FairSpec ==
  Spec /\ WF_vars(Task) /\ WF_vars(NotifyWaiters) /\ SF_vars(HearCancel)

-----------------------------------------------------------------------------
(* Properties.                                                             *)

(* Every variable is in its range; no call makes more requests than its    *)
(* reconnects and the retry after a 401 allow.                             *)
TypeOK ==
  /\ pc \in Selects \cup {"attempt", "refresh", "done"}
  /\ waiter \in {"fresh", "checked", "armed", "woken"}
  /\ cancel \in {"no", "set", "notified"}
  /\ reconnects \in 0..MaxReconnects
  /\ authTry \in 0..1
  /\ requests \in 0..((authTry + 1) * (MaxReconnects + 1))
  /\ status \in Statuses /\ body \in 0..BodyChunks
  /\ wire \in BoundedSeq(Kinds, MaxFrames)
  /\ {rest, seen} \subseteq BOOLEAN
  /\ \A i \in 1..Len(delivered) : delivered[i] \in (1..requests) \X (1..MaxFrames)
  /\ result \in Results
  /\ pc = "done" <=> result # "none"

(* What reached the stream sink is a prefix of one response, each frame    *)
(* once and in order: no reconnect, and no retry after a 401, repeats or   *)
(* mixes the deltas of two responses (broken_stream, emit_frame_results).  *)
DeliversOneResponse ==
  \A i \in 1..Len(delivered) : delivered[i] = <<delivered[1][1], i>>

(* The call succeeds only after the provider's terminal event, with every  *)
(* frame up to it delivered (read_sse_response).                           *)
OkIsComplete ==
  result = "ok" =>
    /\ delivered # <<>>
    /\ Last(delivered)[1] = requests
    /\ wire[Last(delivered)[2]] = "terminal"
    /\ \A n \in 1..(Len(delivered) - 1) : wire[n] = "delta"

(* A timer does not decide what becomes of a call whose token had been     *)
(* cancelled when the timer expired: cancellation is answered by Aborted,  *)
(* never by a timeout error or a reconnect (the cancelled() arms).         *)
CancelBeatsTimers == [][cancel = "notified" => ~Timers]_vars

(* A call that has been cancelled sends no request any more: reconnects,   *)
(* the wait before them and the retry after a 401 look at the token again, *)
(* so that a cancel one select! has missed stops it at the next            *)
(* (run_sse_attempt, sleep_before_reconnect).                              *)
NoRequestAfterCancel == [][cancel # "no" => requests' = requests]_vars

(* A cancel that no select! was just then about to register for ends the   *)
(* call, if the server is silent for ever and the timers are of any length *)
(* (the cancelled() arms of every select!).                                *)
CancelEnds == cancel = "notified" /\ waiter \in {"fresh", "woken"} ~> pc = "done"

(* With the clock running the call ends: when the server is silent a timer *)
(* gets it out of every wait, the error body's included, and the           *)
(* reconnects run out.  A server that sends comments for ever keeps it:    *)
(* each of them restarts stream_idle_timeout.                              *)
CallEnds == WF_vars(Timers) /\ <>[][~Comment]_vars => <>(pc = "done")

=============================================================================
