-------------------------- MODULE RequestRendering --------------------------
(***************************************************************************)
(* Rendering of a session's history as the request of its model provider   *)
(* (chat_completions.rs, responses.rs, anthropic_messages.rs, with the     *)
(* shared provider_utils.rs and tool_names.rs).                            *)
(*                                                                         *)
(* Every turn renders the whole history again, so one block the provider   *)
(* refuses ends not one turn but the session.  The history grows by what   *)
(* users, models and tools say; the session may be given another provider, *)
(* tools may disappear, and so may local files the history refers to.      *)
(***************************************************************************)
EXTENDS Naturals, Sequences, FiniteSets, SequencesExt

CONSTANTS
    ChatIds, ResponsesIds, AnthropicIds, \* providers by their protocol
    Tools,          \* canonical tool names
    Files,          \* local files media may refer to
    AllowFileData,  \* ResponsesApiProviderConfig::allow_file_data_url_input
    Stateless,      \* ResponsesStateMode::Stateless
    MaxMessages     \* bound on the history

Providers == ChatIds \cup ResponsesIds \cup AnthropicIds

VARIABLES
    history,   \* the messages of the session
    provider,  \* the provider of the next turn
    tools,     \* tools declared now
    files,     \* local files that exist
    accepted,  \* ghost: every message rendered when it was added
    changed    \* ghost: another provider took over
vars == <<history, provider, tools, files, accepted, changed>>

(* ContentBlock, as far as rendering tells blocks apart. *)
Text == [type |-> "text"]
Media(kind, at) == [type |-> "media", kind |-> kind, at |-> at]
Thinking(by, keeps) == [type |-> "thinking", by |-> by, encrypted |-> keeps]
Audio(by, known) == [type |-> "audio", by |-> by, described |-> known]
ToolCall(n) == [type |-> "call", name |-> n]
ToolResult(n, m) == [type |-> "result", name |-> n, media |-> m]
Payload(by) == [type |-> "payload", by |-> by]
Message(role, blocks) == [role |-> role, blocks |-> blocks]

Error == [type |-> "error"]
Nothing == [type |-> "nothing"]
Replay(b) == [type |-> "replay", of |-> b]

-----------------------------------------------------------------------------
(* materialize_local_file_uri_media: local files are read at every request. *)
Local(b) == b.type = "media" /\ b.at \in Files
InlinesLocal(p, kind) ==
    CASE p \in ChatIds -> TRUE
      [] p \in ResponsesIds -> kind = "image" \/ (kind = "file" /\ AllowFileData)
      [] p \in AnthropicIds -> kind \in {"image", "file"}
Materializes(p, b) ==
    Local(b) => IF InlinesLocal(p, b.kind) THEN b.at \in files ELSE b.kind = "audio"

(* A local file is inline after that; audio may have been left alone. *)
Source(p, b) == IF ~Local(b) THEN b.at ELSE IF InlinesLocal(p, b.kind) THEN "inline" ELSE "uri"

(* media_to_chat_content_part: an image by any source, audio, video and    *)
(* files only with their bytes.                                            *)
ChatMedia(b, at) == b.kind = "image" \/ at = "inline"

(* media_to_responses_input_part: images and files; the bytes of a file    *)
(* only where the configuration allows it.                                 *)
ResponsesMedia(b, at) ==
    \/ b.kind = "image"
    \/ b.kind = "file" /\ (at = "uri" \/ AllowFileData)

(* media_to_anthropic_block: images and documents.                         *)
AnthropicMedia(b, at) == b.kind \in {"image", "file"}

RendersMedia(p, b) ==
    LET at == Source(p, b) IN
    CASE p \in ChatIds -> ChatMedia(b, at)
      [] p \in ResponsesIds -> ResponsesMedia(b, at)
      [] p \in AnthropicIds -> AnthropicMedia(b, at)

(* replay_scope_match: same protocol (descriptor kind), provider and model. *)
SameApi(p, by) == \E api \in {ChatIds, ResponsesIds, AnthropicIds} : {p, by} \subseteq api
OwnApiScope(p, by) == SameApi(p, by)
ReplayScope(p, by) == p = by

(* replay_reasoning of the two OpenAI APIs, replay_thinking: what does not *)
(* match is left out. A stateless Responses request can only replay        *)
(* reasoning that came with its encrypted content.                         *)
ChatThinking(p, b) == ReplayScope(p, b.by)
ResponsesThinking(p, b) == ReplayScope(p, b.by) /\ (Stateless => b.encrypted)
AnthropicThinking(p, b) == ReplayScope(p, b.by)

RenderThinking(p, b) ==
    IF \/ p \in ChatIds /\ ChatThinking(p, b)
       \/ p \in ResponsesIds /\ ResponsesThinking(p, b)
       \/ p \in AnthropicIds /\ AnthropicThinking(p, b)
    THEN Replay(b) ELSE Nothing

(* replay_media and the refusals of the others.                            *)
RenderAudio(p, b) ==
    IF p \notin ChatIds \/ ~b.described \/ ~SameApi(p, b.by) THEN Error
    ELSE IF ReplayScope(p, b.by) THEN Replay(b) ELSE Nothing

(* ProviderToolNameCodec::new_with_message_history: the names of calls and *)
(* results in the history are known besides the declared tools.            *)
NamesIn(h) == {b.name : b \in {x \in UNION {Range(h[i].blocks) : i \in DOMAIN h} :
                               x.type \in {"call", "result"}}}
KnownDeclared(h) == tools
Known(h) == tools \cup NamesIn(h)

(* render_user_content of the two OpenAI APIs,                             *)
(* render_anthropic_user_content.                                          *)
RenderUser(p, b) ==
    CASE b.type = "text" -> Text
      [] b.type = "media" -> IF RendersMedia(p, b) THEN b ELSE Error
      [] OTHER -> Error

(* to_assistant_message, render_assistant_items and                        *)
(* render_anthropic_assistant_content: a call needs a name for the wire.   *)
RenderAssistant(p, h, b) ==
    CASE b.type = "text" -> Text
      [] b.type = "thinking" -> RenderThinking(p, b)
      [] b.type = "audio" -> RenderAudio(p, b)
      [] b.type = "call" -> IF b.name \in Known(h) THEN b ELSE Error
      [] OTHER -> Error

(* to_tool_result_messages names the tool and takes text only,             *)
(* render_tool_result_items takes text only, render_anthropic_tool_results *)
(* takes media too.                                                        *)
ChatResult(h, b) == ~b.media /\ b.name \in Known(h)
ResponsesResult(b) == ~b.media
AnthropicResult(b) == TRUE

RenderResult(p, h, b) ==
    IF \/ p \in ChatIds /\ ChatResult(h, b)
       \/ p \in ResponsesIds /\ ResponsesResult(b)
       \/ p \in AnthropicIds /\ AnthropicResult(b)
    THEN b ELSE Error

(* render_responses_provider_payload_items; the others refuse payloads. *)
RenderPayload(p, b) == IF p \in ResponsesIds THEN Replay(b) ELSE Error

RenderBlock(p, h, role, b) ==
    IF ~Materializes(p, b) THEN Error
    ELSE IF b.type = "payload" THEN RenderPayload(p, b)
    ELSE CASE role = "user" -> RenderUser(p, b)
           [] role = "assistant" -> RenderAssistant(p, h, b)
           [] role = "tool" -> RenderResult(p, h, b)

(* build_chat_payload, render_responses_messages, build_anthropic_payload *)
Rendered(p, h) ==
    UNION {{RenderBlock(p, h, h[i].role, b) : b \in Range(h[i].blocks)} : i \in DOMAIN h}
Renders(p, h) == Error \notin Rendered(p, h)

-----------------------------------------------------------------------------
Init ==
    /\ history = <<>>
    /\ provider \in Providers
    /\ tools = Tools /\ files = Files
    /\ accepted = TRUE /\ changed = FALSE

Adds(m) ==
    /\ Len(history) < MaxMessages
    /\ history' = Append(history, m)
    /\ accepted' = (accepted /\ Renders(provider, <<m>>))
    /\ UNCHANGED <<provider, tools, files, changed>>

UserBlocks == {Text} \cup {Media(k, at) : k \in {"image", "file", "audio"},
                                          at \in {"uri", "inline"} \cup Files}
UserSays == \E b \in UserBlocks : Adds(Message("user", <<b>>))

(* External: what a model of this provider answers. *)
ModelAnswers ==
    \E b \in {Text, Thinking(provider, TRUE), Thinking(provider, FALSE)}
             \cup (IF provider \in ChatIds THEN {Audio(provider, TRUE), Audio(provider, FALSE)} ELSE {}) :
        Adds(Message("assistant", <<b>>))

(* A call and its result. *)
ToolRuns ==
    \E n \in tools, m \in BOOLEAN :
        /\ Len(history) + 1 < MaxMessages
        /\ history' = history \o <<Message("assistant", <<ToolCall(n)>>),
                                   Message("tool", <<ToolResult(n, m)>>)>>
        /\ accepted' = (accepted /\ (m => provider \in AnthropicIds))
        /\ UNCHANGED <<provider, tools, files, changed>>

(* Compaction by the Responses API leaves one payload. *)
Compacts ==
    /\ provider \in ResponsesIds /\ history # <<>>
    /\ history' = <<Message("user", <<Payload(provider)>>)>>
    /\ UNCHANGED <<provider, tools, files, accepted, changed>>

Switches ==
    \E p \in Providers \ {provider} :
        /\ provider' = p /\ changed' = TRUE
        /\ UNCHANGED <<history, tools, files, accepted>>

ToolRemoved ==
    \E n \in tools : tools' = tools \ {n} /\ UNCHANGED <<history, provider, files, accepted, changed>>

FileRemoved ==
    \E x \in files : files' = files \ {x} /\ UNCHANGED <<history, provider, tools, accepted, changed>>

Next == UserSays \/ ModelAnswers \/ ToolRuns \/ Compacts \/ Switches \/ ToolRemoved \/ FileRemoved
Spec == Init /\ [][Next]_vars

-----------------------------------------------------------------------------
TypeOK ==
    /\ provider \in Providers /\ tools \subseteq Tools /\ files \subseteq Files
    /\ \A i \in DOMAIN history : history[i].role \in {"user", "assistant", "tool"}

(* What the provider accepted it accepts in every later turn: its own      *)
(* answers, calls of tools that are gone, compacted history.  (While it is *)
(* the same provider and the files are there.)                             *)
AcceptedStaysAccepted ==
    (accepted /\ ~changed /\ files = Files) => Renders(provider, history)

(* Nothing opaque of one provider is sent to another: reasoning, audio ids *)
(* and compaction payloads go back to the provider they came from.         *)
OnlyOwnReplayed ==
    \A r \in Rendered(provider, history) :
        (r.type = "replay" /\ r.of.type # "payload") => r.of.by = provider

(* A message rendered once can be rendered again (not so: a local file is *)
(* read again at every turn, and its absence ends the session).           *)
AcceptedSurvivesFiles == (accepted /\ ~changed) => Renders(provider, history)

(* ... and payloads too (not so: a payload names no provider but its API). *)
OnlyOwnPayload ==
    \A r \in Rendered(provider, history) : (r.type = "replay") => r.of.by = provider

=============================================================================
