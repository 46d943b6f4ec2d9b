-------------------------- MODULE ProviderStreams --------------------------
(***************************************************************************)
(* The parsers of the three HTTP model providers: what                     *)
(* ChatStreamState (chat_completions.rs), ResponsesStreamState             *)
(* (responses.rs) and AnthropicStreamState (anthropic_messages.rs) make of *)
(* the frames of one response.                                             *)
(*                                                                         *)
(* The response is a script: items of text, thinking or one tool call,     *)
(* each cut into fragments.  The service that streams it is external; it   *)
(* opens items in order, lets the fragments of opened items interleave     *)
(* where the protocol allows it, and may leave out the frames the protocol *)
(* makes redundant.  The events of the stream must tell the script again.  *)
(***************************************************************************)
EXTENDS Naturals, Sequences, FiniteSets, SequencesExt

CONSTANTS
    Providers,  \* a subset of {"chat", "responses", "anthropic"}
    Tokens,     \* what a fragment may be
    MaxItems,   \* bound on the items of a response
    MaxFrags    \* bound on the fragments of an item

ProviderStreamsAssumption ==
    Providers \subseteq {"chat", "responses", "anthropic"} /\ MaxItems \in Nat /\ MaxFrags \in Nat

VARIABLES
    provider,  \* which protocol
    style,     \* how the service writes it (see Styles)
    script,    \* the response: a sequence of items
    sent,      \* item -> fragments sent, once it is opened
    closed,    \* items a closing frame was sent for
    started,   \* the parser's fields ...
    calls,     \* ... key -> [named, args] of the tool calls under way
    keyAt,     \* ... tool_keys_by_output_index
    emitted,   \* ... keys of calls and reasoning items already emitted
    thought,   \* ... key -> thinking text merged so far
    finished,  \* ... finished
    over,      \* "open", "done" (the stream ended), "failed", "error"
    events     \* what stream_model emitted

service == <<provider, style, script>>
vars == <<service, sent, closed, started, calls, keyAt, emitted, thought, finished, over, events>>

(* cumulative: a chat service repeats the thinking so far in every chunk;  *)
(* itemIds: events of the Responses API name their item; listed: its last  *)
(* frame repeats the output items.                                         *)
Styles == [cumulative : BOOLEAN, itemIds : BOOLEAN, listed : BOOLEAN]
Items == [kind : {"text", "think", "call"}, frags : SeqOf(Tokens, MaxFrags)]

Init ==
    /\ provider \in Providers
    /\ style \in Styles
    /\ (provider # "responses") => style.itemIds /\ style.listed
    /\ (provider # "chat") => ~style.cumulative
    /\ script \in SeqOf(Items, MaxItems)
    /\ sent = <<>> /\ closed = {}
    /\ started = FALSE /\ finished = FALSE /\ over = "open"
    /\ calls = <<>> /\ keyAt = <<>> /\ emitted = {} /\ thought = <<>>
    /\ events = <<>>

-----------------------------------------------------------------------------
(* Maps as functions on the keys they hold. *)
Has(m, k) == k \in DOMAIN m
Put(m, k, v) == [x \in DOMAIN m \cup {k} |-> IF x = k THEN v ELSE m[x]]
Drop(m, k) == [x \in DOMAIN m \ {k} |-> m[x]]
Get(m, k, default) == IF Has(m, k) THEN m[k] ELSE default

NewCall == [named |-> FALSE, args |-> <<>>]
Item(i) == script[i]
Opened(i) == i \in DOMAIN sent
Rest(i) == Len(Item(i).frags) - sent[i]
NextFrag(i) == Item(i).frags[sent[i] + 1]
Prefix(i) == SubSeq(Item(i).frags, 1, sent[i] + 1)

StartedEvent == [type |-> "started"]
Text(t) == [type |-> "text", text |-> t]
Thinking(t) == [type |-> "think", text |-> t]
Snapshot(t) == [type |-> "snapshot", text |-> t]
Finished == [type |-> "finished"]
CallEvent(c) == [type |-> "call", named |-> c.named, args |-> c.args]

(* started_event / ensure_started; chat pushes Started at the first frame. *)
EnsureStarted == IF started THEN <<>> ELSE <<StartedEvent>>
Emit(es) == events' = events \o es
EmitStarted(es) == Emit(EnsureStarted \o es) /\ started' = TRUE

(* The service opens items in order; only anthropic blocks are strictly *)
(* one after the other.                                                 *)
MayOpen(i) ==
    /\ over = "open" /\ i \in DOMAIN script /\ ~Opened(i)
    /\ \A j \in 1 .. i - 1 : Opened(j)
    /\ (provider = "anthropic") => \A j \in 1 .. i - 1 : j \in closed
Open(i) == sent' = Append(sent, 0)
MaySend(i) == over = "open" /\ Opened(i) /\ Rest(i) > 0
Send(i) == sent' = [sent EXCEPT ![i] = @ + 1]
MayClose(i) == over = "open" /\ Opened(i) /\ Rest(i) = 0
AllSent == over = "open" /\ \A i \in DOMAIN script : Opened(i) /\ Rest(i) = 0

-----------------------------------------------------------------------------
(* Chat completions. *)
IsChat == provider = "chat"
ChatRest == UNCHANGED <<service, closed, keyAt, emitted, finished, over>>

(* absorb_tool_call_chunks: the chunk that opens a call has id and name, *)
(* the others only a fragment; index tells which call.                   *)
AbsorbChunk(c, named, frag) == [named |-> c.named \/ named, args |-> c.args \o frag]
ChatOpens(i) ==
    /\ IsChat /\ MayOpen(i) /\ Open(i)
    /\ calls' = IF Item(i).kind = "call"
                THEN Put(calls, i, AbsorbChunk(Get(calls, i, NewCall), TRUE, <<>>)) ELSE calls
    /\ EmitStarted(<<>>)
    /\ UNCHANGED thought /\ ChatRest

(* merge_reasoning_text, delta_from_cumulative_value: text that starts with *)
(* all the text so far replaces it, other text is added to it; the event    *)
(* has what that added.                                                     *)
MergeAppends(existing, incoming) == existing \o incoming
Merge(existing, incoming) ==
    IF IsPrefix(existing, incoming) THEN incoming ELSE existing \o incoming
Added(existing, merged) ==
    IF IsPrefix(existing, merged) THEN SubSeq(merged, Len(existing) + 1, Len(merged)) ELSE merged

ChatDelta(i) ==
    /\ IsChat /\ MaySend(i) /\ Send(i)
    /\ LET frag == <<NextFrag(i)>>
           key == "reasoning_content"
           old == Get(thought, key, <<>>)
           new == Merge(old, IF style.cumulative THEN Prefix(i) ELSE frag) IN
       \/ /\ Item(i).kind = "text"
          /\ EmitStarted(<<Text(frag)>>)
          /\ UNCHANGED <<calls, thought>>
       \/ /\ Item(i).kind = "think"
          /\ thought' = Put(thought, key, new)
          /\ EmitStarted(<<Thinking(Added(old, new))>>)
          /\ UNCHANGED calls
       \/ /\ Item(i).kind = "call"
          /\ calls' = Put(calls, i, AbsorbChunk(Get(calls, i, NewCall), FALSE, frag))
          /\ EmitStarted(<<>>)
          /\ UNCHANGED thought
    /\ ChatRest

(* [DONE] ends the stream; finish_events then emits every call and Finished. *)
CallsInOrder(ks) == [n \in 1 .. Cardinality(ks) |->
    CallEvent(calls[CHOOSE k \in ks : Cardinality({j \in ks : j < k}) = n - 1])]
ChatDone ==
    /\ IsChat /\ AllSent
    /\ over' = "done" /\ finished' = TRUE
    /\ EmitStarted(CallsInOrder(DOMAIN calls) \o <<Finished>>)
    /\ UNCHANGED <<service, sent, closed, calls, keyAt, emitted, thought>>

-----------------------------------------------------------------------------
(* Responses API. *)
IsResponses == provider = "responses"
OfItem(i) == [of |-> "item", n |-> i]     \* tool_key_from_item
AtOutput(i) == [of |-> "output", n |-> i] \* the fallback "output-<index>"
KeyFromEvent(i, named) == IF named THEN OfItem(i) ELSE Get(keyAt, i, AtOutput(i))

ResponsesCreated ==
    /\ IsResponses /\ over = "open" /\ ~started
    /\ EmitStarted(<<>>)
    /\ UNCHANGED <<service, sent, closed, calls, keyAt, emitted, thought, finished, over>>

(* absorb_output_item_added, absorb_function_call_item *)
AbsorbItem(i, args, indexed) ==
    /\ calls' = Put(calls, OfItem(i), [named |-> TRUE, args |-> args])
    /\ keyAt' = IF indexed THEN Put(keyAt, i, OfItem(i)) ELSE keyAt
ResponsesAdded(i) ==
    /\ IsResponses /\ started /\ MayOpen(i) /\ Open(i)
    /\ IF Item(i).kind = "call" THEN AbsorbItem(i, <<>>, TRUE) ELSE UNCHANGED <<calls, keyAt>>
    /\ UNCHANGED <<service, closed, started, emitted, thought, finished, over, events>>

(* output_text_delta, reasoning_text_delta, absorb_function_arguments_delta *)
ResponsesDelta(i) ==
    /\ IsResponses /\ MaySend(i) /\ Send(i)
    /\ LET frag == <<NextFrag(i)>>
           key == KeyFromEvent(i, style.itemIds)
           call == Get(calls, key, NewCall) IN
       \/ /\ Item(i).kind = "text"
          /\ EmitStarted(<<Text(frag)>>)
          /\ UNCHANGED <<calls, thought>>
       \/ /\ Item(i).kind = "think"
          /\ thought' = Put(thought, i, Get(thought, i, <<>>) \o frag)
          /\ EmitStarted(<<Thinking(frag)>>)
          /\ UNCHANGED calls
       \/ /\ Item(i).kind = "call"
          /\ calls' = Put(calls, key, [call EXCEPT !.args = @ \o frag])
          /\ UNCHANGED <<thought, started, events>>
    /\ UNCHANGED <<service, closed, keyAt, emitted, finished, over>>

(* emit_tool_call_from_key: at most one event for a key. *)
EmitsAgain(key) == TRUE
Emits(key) == key \notin emitted

(* function_arguments_done: the whole arguments replace the fragments. *)
ResponsesArgumentsDone(i) ==
    LET key == KeyFromEvent(i, style.itemIds) IN
    /\ IsResponses /\ MayClose(i) /\ Item(i).kind = "call" /\ i \notin closed
    /\ calls' = Put(calls, key, [Get(calls, key, NewCall) EXCEPT !.args = Item(i).frags])
    /\ IF Emits(key) THEN EmitStarted(<<CallEvent(calls'[key])>>) ELSE UNCHANGED <<events, started>>
    /\ emitted' = emitted \cup {key}
    /\ closed' = closed \cup {i}
    /\ UNCHANGED <<service, sent, keyAt, thought, finished, over>>

(* output_item_done: a finished call or reasoning item, named by its index. *)
ResponsesItemDone(i) ==
    LET key == OfItem(i) IN
    /\ IsResponses /\ MayClose(i)
    /\ \/ /\ Item(i).kind = "call"
          /\ AbsorbItem(i, Item(i).frags, TRUE)
          /\ IF Emits(key) THEN EmitStarted(<<CallEvent(calls'[key])>>)
             ELSE UNCHANGED <<events, started>>
          /\ emitted' = emitted \cup {key}
       \/ /\ Item(i).kind = "think"
          /\ EmitStarted(IF Emits(key) THEN <<Snapshot(Item(i).frags)>> ELSE <<>>)
          /\ emitted' = emitted \cup {key}
          /\ UNCHANGED <<calls, keyAt>>
    /\ closed' = closed \cup {i}
    /\ UNCHANGED <<service, sent, thought, finished, over>>

(* response_completed, output_item_events: what is listed and was not *)
(* emitted yet is emitted now.                                        *)
Listed == {i \in DOMAIN script : style.listed /\ Item(i).kind # "text"}
InOrder(is, ev(_)) == [n \in 1 .. Cardinality(is) |->
    ev(CHOOSE i \in is : Cardinality({j \in is : j < i}) = n - 1)]
ItemEvent(i) ==
    IF Item(i).kind = "call" THEN CallEvent([named |-> TRUE, args |-> Item(i).frags])
    ELSE Snapshot(Item(i).frags)
ResponsesCompleted ==
    /\ IsResponses /\ AllSent
    /\ \A i \in DOMAIN script : style.listed \/ Item(i).kind = "text" \/ i \in closed
    /\ EmitStarted(InOrder({i \in Listed : Emits(OfItem(i))}, ItemEvent) \o <<Finished>>)
    /\ emitted' = emitted \cup {OfItem(i) : i \in Listed}
    /\ over' = "done" /\ finished' = TRUE
    /\ UNCHANGED <<service, sent, closed, calls, keyAt, thought>>

-----------------------------------------------------------------------------
(* Anthropic messages. *)
IsAnthropic == provider = "anthropic"

AnthropicStart ==
    /\ IsAnthropic /\ over = "open" /\ ~started
    /\ EmitStarted(<<>>)
    /\ UNCHANGED <<service, sent, closed, calls, keyAt, emitted, thought, finished, over>>

(* apply_content_block_start *)
AnthropicBlockStart(i) ==
    /\ IsAnthropic /\ started /\ MayOpen(i) /\ Open(i)
    /\ calls' = IF Item(i).kind = "call" THEN Put(calls, i, [named |-> TRUE, args |-> <<>>]) ELSE calls
    /\ thought' = IF Item(i).kind = "think" THEN Put(thought, i, Get(thought, i, <<>>)) ELSE thought
    /\ UNCHANGED <<service, closed, started, keyAt, emitted, finished, over, events>>

(* apply_content_block_delta *)
AnthropicDelta(i) ==
    /\ IsAnthropic /\ MaySend(i) /\ Send(i)
    /\ LET frag == <<NextFrag(i)>> IN
       \/ /\ Item(i).kind = "text"
          /\ Emit(<<Text(frag)>>)
          /\ UNCHANGED <<calls, thought>>
       \/ /\ Item(i).kind = "think"
          /\ thought' = Put(thought, i, Get(thought, i, <<>>) \o frag)
          /\ Emit(<<Thinking(frag)>>)
          /\ UNCHANGED calls
       \/ /\ Item(i).kind = "call"
          /\ calls' = Put(calls, i, [Get(calls, i, NewCall) EXCEPT !.args = @ \o frag])
          /\ UNCHANGED <<thought, events>>
    /\ UNCHANGED <<service, closed, started, keyAt, emitted, finished, over>>

(* apply_content_block_stop: the call, or the thinking with its snapshot. *)
AnthropicBlockStop(i) ==
    /\ IsAnthropic /\ MayClose(i) /\ i \notin closed
    /\ closed' = closed \cup {i}
    /\ calls' = Drop(calls, i)
    /\ thought' = Drop(thought, i)
    /\ Emit(IF Has(calls, i) THEN <<CallEvent(calls[i])>>
            ELSE IF Has(thought, i) THEN <<Snapshot(thought[i])>> ELSE <<>>)
    /\ UNCHANGED <<service, sent, started, keyAt, emitted, finished, over>>

(* message_stop *)
AnthropicStop ==
    /\ IsAnthropic /\ started /\ AllSent /\ DOMAIN script = closed
    /\ over' = "done" /\ finished' = TRUE
    /\ Emit(<<Finished>>)
    /\ UNCHANGED <<service, sent, closed, started, calls, keyAt, emitted, thought>>

-----------------------------------------------------------------------------
(* An error frame of the service (chat has none): Failed, and no Finished *)
(* after it.                                                              *)
ErrorFrame ==
    /\ over = "open" /\ ~IsChat
    /\ over' = "failed" /\ finished' = TRUE
    /\ Emit(<<[type |-> "failed"]>>)
    /\ UNCHANGED <<service, sent, closed, started, calls, keyAt, emitted, thought>>

(* stream_model calls finish_events once more after the stream has ended. *)
FinishesTwice == <<Finished>>
FinishEvents == IF finished THEN <<>> ELSE <<Finished>>
Ended ==
    /\ over \in {"done", "failed"}
    /\ Emit(FinishEvents)
    /\ over' = "returned"
    /\ finished' = TRUE
    /\ UNCHANGED <<service, sent, closed, started, calls, keyAt, emitted, thought>>

Next ==
    \/ \E i \in DOMAIN script :
        \/ ChatOpens(i) \/ ChatDelta(i)
        \/ ResponsesAdded(i) \/ ResponsesDelta(i) \/ ResponsesArgumentsDone(i)
        \/ ResponsesItemDone(i)
        \/ AnthropicBlockStart(i) \/ AnthropicDelta(i) \/ AnthropicBlockStop(i)
    \/ ChatDone \/ ResponsesCreated \/ ResponsesCompleted \/ AnthropicStart \/ AnthropicStop
    \/ ErrorFrame \/ Ended

Spec == Init /\ [][Next]_vars

-----------------------------------------------------------------------------
TypeOK ==
    /\ over \in {"open", "done", "failed", "returned"}
    /\ closed \subseteq DOMAIN script
    /\ started \in BOOLEAN /\ finished \in BOOLEAN

Of(type) == SelectSeq(events, LAMBDA e : e.type = type)
Texts(es) == FlattenSeq([n \in DOMAIN es |-> es[n].text])
ItemsOf(kind) == SelectSeq(script, LAMBDA x : x.kind = kind)
Told(kind) == FlattenSeq([n \in DOMAIN ItemsOf(kind) |-> ItemsOf(kind)[n].frags])
Whole == over = "returned" /\ Of("failed") = <<>>
Bag(s) == [x \in Range(s) |-> Cardinality({n \in DOMAIN s : s[n] = x})]

(* Every tool call of a response that ended is emitted exactly once, with *)
(* its name and all its arguments, however its frames interleave with the *)
(* others' and whichever of its closing frames the service sends.         *)
CallsExact ==
    Whole => Bag(Of("call")) =
             Bag([n \in DOMAIN ItemsOf("call") |->
                  CallEvent([named |-> TRUE, args |-> ItemsOf("call")[n].frags])])

(* A stream starts with Started, which comes once (unless it failed before *)
(* it began), and ends with exactly one of Finished and Failed.            *)
StreamShape ==
    over = "returned" =>
        /\ Len(Of("started")) <= 1 /\ (Of("failed") = <<>> => Head(events) = StartedEvent)
        /\ Len(Of("finished")) + Len(Of("failed")) = 1
        /\ Last(events).type \in {"finished", "failed"}

(* Thinking reads the same whether the service repeats it or adds to it. *)
(* Text is told in the order it came, so with items one after the other. *)
OneByOne == Cardinality({i \in DOMAIN script : Item(i).kind = "think"}) <= 1
Repeats == \* an added fragment that looks like all of the text so far
    ~style.cumulative /\ \E i \in DOMAIN script : Len(Item(i).frags) > 1
                                              /\ Item(i).frags[1] = Item(i).frags[2]
ThinkingExact ==
    (Whole /\ OneByOne /\ (provider = "chat" => ~Repeats))
        => Texts(Of("think")) = Told("think")

(* ... and so it is with a first fragment that comes twice (not so: chat  *)
(* completions take the second for a repetition of the first).            *)
ThinkingAlwaysExact == (Whole /\ OneByOne) => Texts(Of("think")) = Told("think")

=============================================================================
