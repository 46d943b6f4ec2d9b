----------------------------- MODULE Compaction -----------------------------
(***************************************************************************)
(* Context compaction over a whole conversation (compaction.rs, the        *)
(* context.compact phase of phase/standard.rs, and the replacement         *)
(* compactor of noloong-openai/src/compact.rs).  Before every model        *)
(* request the phase estimates the transcript; when it is large it plans   *)
(* a cut, has the older part summarised, and puts the summary in front of  *)
(* what it keeps.                                                          *)
(*                                                                         *)
(* A message has an id, a role and a size in tokens.  "covers" holds the   *)
(* ids of the messages a summary was made from: what a summarizer is given *)
(* it is taken to keep, what it never sees is lost.  "of" is the assistant *)
(* message whose call a tool result answers.                               *)
(***************************************************************************)
EXTENDS Integers, Sequences, SequencesExt, FiniteSets

CONSTANTS Modes,        \* subset of {"persistent", "request_only"}
          Compactors,   \* subset of {"summary", "replacement"}
          Threshold,    \* trigger_threshold()
          KeepRecent,   \* keep_recent_tokens
          InputLimit,   \* what the model takes, for the finding only
          ToolSizes,    \* sizes of tool results
          MaxMessages,  \* messages of a conversation
          MaxFaults     \* failures of the compactor

VARIABLES
    messages,   \* AgentState.messages
    request,    \* the messages of the last model request
    pc,         \* "idle", "turn" (before context.compact), "model" (request sent)
    said,       \* ids given out so far
    mode, compactor, faults

vars == <<messages, request, pc, said, mode, compactor, faults>>

Message(id, role, size, covers, of) ==
    [id |-> id, role |-> role, size |-> size, covers |-> covers, of |-> of]

----------------------------------------------------------------------------
(* plan_compaction *)

\* HeuristicTokenEstimator, summed
Tokens(ms) == FoldLeft(LAMBDA acc, m : acc + m.size, 0, ms)
From(ms, i) == SubSeq(ms, i, Len(ms))

IsSummary(m) == m.role = "summary"
ValidCut(m) == m.role \in {"user", "assistant", "item"}

Max0(S) == IF S = {} THEN 0 ELSE CHOOSE x \in S : \A y \in S : y <= x
Min0(S) == IF S = {} THEN 0 ELSE CHOOSE x \in S : \A y \in S : x <= y

\* The first index after the last summary (find_previous_compaction_summary).
Boundary(ms) == Max0({i \in DOMAIN ms : IsSummary(ms[i])}) + 1

\* Walking back from the end: the first index at which enough is kept, 0 if there is none.
Target(ms) == Max0({i \in Boundary(ms)..Len(ms) : Tokens(From(ms, i)) >= KeepRecent})

\* A mistake, for the mutants: the cut is the target itself.
CutAnywhere(ms) == LET t == Target(ms) IN IF t = 0 THEN Boundary(ms) ELSE t

\* find_cut_point: forward from the target to a message that may come first, or else back;
\* the first possible one when the whole of it fits.  0: no cut.
CutIndex(ms) ==
    LET cuts == {i \in Boundary(ms)..Len(ms) : ValidCut(ms[i])}
        t    == Target(ms)
    IN IF cuts = {} THEN 0
       ELSE IF t = 0 THEN Min0(cuts)
       ELSE IF \E i \in cuts : i >= t THEN Min0({i \in cuts : i >= t}) ELSE Max0(cuts)

\* find_turn_start: where the turn that is cut began, 0 if it began before the last summary.
TurnStart(ms, cut) == Max0({i \in Boundary(ms)..cut : ms[i].role = "user"})

\* The messages to summarise and the cut turn's prefix, as sets of ids; summaries among them
\* stand for what they cover.
Ids(ms) == UNION {{ms[i].id} \cup ms[i].covers : i \in DOMAIN ms}

\* A mistake, for the mutants: the prefix is left out.
NoPrefix(ms, cut) == {}

TurnPrefix(ms, cut) == IF ms[cut].role = "user" THEN {}
                       ELSE Ids(SubSeq(ms, TurnStart(ms, cut), cut - 1))
History(ms, cut) ==
    LET end == IF ms[cut].role = "user" THEN cut ELSE TurnStart(ms, cut)
    IN Ids(SubSeq(ms, Boundary(ms), end - 1))
Previous(ms) == IF Boundary(ms) = 1 THEN {} ELSE ms[Boundary(ms) - 1].covers

Skip == [cut |-> 0, covers |-> {}]
Plan(ms) ==
    LET cut == CutIndex(ms) IN
    IF \/ ms = <<>>
       \/ Tokens(ms) < Threshold
       \/ Boundary(ms) > Len(ms)
       \/ cut <= 1
       \/ TurnStart(ms, cut) = 0
       \/ Previous(ms) \cup History(ms, cut) \cup TurnPrefix(ms, cut) = {}
    THEN Skip
    ELSE [cut |-> cut, covers |-> Previous(ms) \cup History(ms, cut) \cup TurnPrefix(ms, cut)]

----------------------------------------------------------------------------
(* The phase and the run around it. *)

Init ==
    /\ messages = <<>> /\ request = <<>> /\ pc = "idle" /\ said = 0
    /\ mode \in Modes /\ compactor \in Compactors /\ faults = 0

\* A prompt starts a run; a steering message joins it between two turns.
UserSpeaks ==
    /\ pc \in {"idle", "turn"} /\ said < MaxMessages
    /\ said' = said + 1
    /\ messages' = Append(messages, Message(said', "user", 1, {}, 0))
    /\ pc' = "turn"
    /\ UNCHANGED <<request, mode, compactor, faults>>

\* compact_request: all current messages go to the service, which returns items that stand
\* for them.
Replaced == <<Message(0, "item", 1, Ids(messages), 0)>>

\* compacted_messages: the summary first, with an id of its own.
Compacted(plan) ==
    IF compactor = "replacement" THEN Replaced
    ELSE <<Message(0, "summary", 1, plan.covers, 0)>> \o From(messages, plan.cut)

\* CompactMessages or ReplaceMessages changes the state; request_messages_override only the
\* request.
ContextCompact ==
    /\ pc = "turn"
    /\ LET plan == Plan(messages) IN
         /\ plan # Skip
         /\ request' = Compacted(plan)
         /\ messages' = IF mode = "persistent" THEN Compacted(plan) ELSE messages
    /\ pc' = "model"
    /\ UNCHANGED <<said, mode, compactor, faults>>

\* The compactor fails, returns nothing, or is cancelled: the run fails before the request.
CompactionFails ==
    /\ pc = "turn" /\ Plan(messages) # Skip /\ faults < MaxFaults
    /\ faults' = faults + 1
    /\ pc' = "idle"
    /\ UNCHANGED <<messages, request, said, mode, compactor>>

SendWhole ==
    /\ pc = "turn" /\ Plan(messages) = Skip
    /\ request' = messages
    /\ pc' = "model"
    /\ UNCHANGED <<messages, said, mode, compactor, faults>>

\* The model answers, with calls whose results follow before the next turn, or without.
ModelReplies(calls, size) ==
    /\ pc = "model"
    /\ said + 1 + calls <= MaxMessages
    /\ messages' = messages \o <<Message(said + 1, "assistant", 1, {}, 0)>>
                            \o [i \in 1..calls |-> Message(said + 1 + i, "tool", size, {}, said + 1)]
    /\ said' = said + 1 + calls
    /\ pc' = IF calls = 0 THEN "idle" ELSE "turn"
    /\ UNCHANGED <<request, mode, compactor, faults>>

\* The bound on the conversation.
Stop == /\ said >= MaxMessages - 2
        /\ UNCHANGED vars

Next == \/ UserSpeaks \/ ContextCompact \/ CompactionFails \/ SendWhole
        \/ \E calls \in 0..2, size \in ToolSizes : ModelReplies(calls, size)
        \/ Stop

Spec == Init /\ [][Next]_vars

----------------------------------------------------------------------------
TypeOK ==
    /\ pc \in {"idle", "turn", "model"}
    /\ said \in 0..MaxMessages /\ faults \in 0..MaxFaults
    /\ \A i \in DOMAIN messages : messages[i].role \in {"user", "assistant", "tool", "summary", "item"}

\* Nothing said is ever forgotten: however often the transcript is compacted, each message is
\* in the state and in the request, or went into a summary that is there (what plan_compaction
\* drops is what it hands to the summarizer, the earlier summary and the cut turn's beginning
\* included).
NothingForgotten ==
    /\ 1..said \subseteq Ids(messages)
    /\ pc = "model" => 1..said \subseteq Ids(request)

\* A request never holds a tool result whose call is not in front of it: services refuse
\* one ("only cut at user or assistant boundaries", docs/ARCHITECTURE.md).
ResultsHaveCalls ==
    \A i \in DOMAIN request : request[i].role = "tool" =>
        \E j \in 1..(i - 1) : request[j].id = request[i].of

\* Every request fits: its messages are compacted when the estimate reaches the threshold
\* (docs/ARCHITECTURE.md).  Not so: behind the summary of a turn that was cut there is no user
\* message, find_turn_start finds none, and the rest of that turn is never compacted.
RequestFits == pc = "model" => Tokens(request) <= InputLimit
=============================================================================
