------------------------------- MODULE MCCore -------------------------------
(* Instances of the components of noloong-agent-core around the run loop.  *)
(* They share no state: a behaviour is one of one component, `part`, and   *)
(* the variables of the others are left alone.                             *)
EXTENDS IdleWait

CONSTANTS
  MaxReconnects, InitialBackoff, MaxBackoff, HasAuth, Preemptible, BodyChunks, MaxFrames,
                                                               \* of SseStream
  Modes, Compactors, Threshold, KeepRecent, InputLimit, ToolSizes, MaxMessages,
  MaxFaults,                                                   \* of Compaction
  Stores, MaxRuns, MaxSeq, MaxCrashes,                         \* of EventStore
  ExtensionKinds, StreamedEvents, MaxInvalid, Room, PipeRoom,  \* of StdioExtension
  ChatIds, ResponsesIds, AnthropicIds, ToolNames, LocalFiles, AllowFileData, Stateless,
  MaxHistory                                                   \* of RequestRendering

VARIABLES
  part,        (* what this behaviour is one of *)
  ssePc, sseWaiter, cancel, reconnects, authTry, status, body, wire, rest, seen, delivered,
  requests, sseResult,
  store, rows, record, agent, run, flow, event, runCounter, eventCounter, crashes, torn,
  messages, request, compactPc, said, mode, compactor, faults,
  kind, fatal, pending, reply, call, unread, extAccepted, stdout, open, extEmitted, extFinished,
  invalid, reader, inHand, lock, registered, chan, collector, extEvents, answered, extResult,
  sunk, before, cancelled,
  providerProvider, style, script, sent, closed, started, calls, keyAt, providerEmitted,
  thought, providerFinished, over, providerEvents,
  history, requestProvider, tools, files, requestAccepted, changed

(* An HTTP streaming call, with reconnects and an authentication. *)
Sse == INSTANCE SseStream WITH pc <- ssePc, waiter <- sseWaiter, result <- sseResult

(* Runs, their events and crashes. *)
Log == INSTANCE EventStore

(* A conversation that is compacted again and again. *)
Compact == INSTANCE Compaction WITH pc <- compactPc

(* A stream of events, alone or beside another request. *)
Ext == INSTANCE StdioExtension WITH Kinds <- ExtensionKinds, MaxEvents <- StreamedEvents,
    accepted <- extAccepted, emitted <- extEmitted, finished <- extFinished,
    events <- extEvents, result <- extResult

(* Two tool calls or thinking blocks in two fragments. *)
Provider == INSTANCE ProviderStreams WITH Providers <- {"chat", "responses", "anthropic"},
    Tokens <- {1, 2}, MaxItems <- 2, MaxFrags <- 2, provider <- providerProvider,
    emitted <- providerEmitted, finished <- providerFinished, events <- providerEvents

(* A history under several providers. *)
Request == INSTANCE RequestRendering WITH Tools <- ToolNames, Files <- LocalFiles,
    MaxMessages <- MaxHistory, provider <- requestProvider, accepted <- requestAccepted

ASSUME SseAssumption == Sse!StreamAssumption
ASSUME ExtAssumption == Ext!KindsAssumption
ASSUME Provider!ProviderStreamsAssumption

sseVars == <<ssePc, sseWaiter, cancel, reconnects, authTry, status, body, wire, rest, seen,
             delivered, requests, sseResult>>
logVars == <<store, rows, record, agent, run, flow, event, runCounter, eventCounter, crashes,
             torn>>
compactionVars == <<messages, request, compactPc, said, mode, compactor, faults>>
extensionVars == <<kind, fatal, pending, reply, call, unread, extAccepted, stdout, open,
                   extEmitted, extFinished, invalid, reader, inHand, lock, registered, chan,
                   collector, extEvents, answered, extResult, sunk, before, cancelled>>
providerVars == <<providerProvider, style, script, sent, closed, started, calls, keyAt,
                  providerEmitted, thought, providerFinished, over, providerEvents>>
requestVars == <<history, requestProvider, tools, files, requestAccepted, changed>>

(* What the variables of the other components hold. *)
Off == "off"
SseOff == ssePc = Off /\ sseWaiter = Off /\ cancel = Off /\ reconnects = Off /\ authTry = Off /\
          status = Off /\ body = Off /\ wire = Off /\ rest = Off /\ seen = Off /\
          delivered = Off /\ requests = Off /\ sseResult = Off
LogOff == store = Off /\ rows = Off /\ record = Off /\ agent = Off /\ run = Off /\ flow = Off /\
          event = Off /\ runCounter = Off /\ eventCounter = Off /\ crashes = Off /\ torn = Off
CompactionOff == messages = Off /\ request = Off /\ compactPc = Off /\ said = Off /\
                 mode = Off /\ compactor = Off /\ faults = Off
ExtensionOff == kind = Off /\ fatal = Off /\ pending = Off /\ reply = Off /\ call = Off /\
                unread = Off /\ extAccepted = Off /\ stdout = Off /\ open = Off /\
                extEmitted = Off /\ extFinished = Off /\ invalid = Off /\ reader = Off /\
                inHand = Off /\ lock = Off /\ registered = Off /\ chan = Off /\
                collector = Off /\ extEvents = Off /\ answered = Off /\ extResult = Off /\
                sunk = Off /\ before = Off /\ cancelled = Off
ProviderOff == providerProvider = Off /\ style = Off /\ script = Off /\ sent = Off /\
               closed = Off /\ started = Off /\ calls = Off /\ keyAt = Off /\
               providerEmitted = Off /\ thought = Off /\ providerFinished = Off /\ over = Off /\
               providerEvents = Off
RequestOff == history = Off /\ requestProvider = Off /\ tools = Off /\ files = Off /\
              requestAccepted = Off /\ changed = Off

MCInit ==
  \/ part = "idle" /\ Init /\ SseOff /\ LogOff /\ CompactionOff /\ ExtensionOff /\
     ProviderOff /\ RequestOff
  \/ part = "sse" /\ Sse!Init /\ Init /\ LogOff /\ CompactionOff /\ ExtensionOff /\
     ProviderOff /\ RequestOff
  \/ part = "log" /\ Log!Init /\ Init /\ SseOff /\ CompactionOff /\ ExtensionOff /\
     ProviderOff /\ RequestOff
  \/ part = "compaction" /\ Compact!Init /\ Init /\ SseOff /\ LogOff /\ ExtensionOff /\
     ProviderOff /\ RequestOff
  \/ part = "extension" /\ Ext!Init /\ Init /\ SseOff /\ LogOff /\ CompactionOff /\
     ProviderOff /\ RequestOff
  \/ part = "provider" /\ Provider!Init /\ Init /\ SseOff /\ LogOff /\ CompactionOff /\
     ExtensionOff /\ RequestOff
  \/ part = "request" /\ Request!Init /\ Init /\ SseOff /\ LogOff /\ CompactionOff /\
     ExtensionOff /\ ProviderOff

MCNext ==
  \/ part = "idle" /\ Next /\ UNCHANGED <<part, sseVars, logVars, compactionVars, extensionVars,
     providerVars, requestVars>>
  \/ part = "sse" /\ Sse!Next /\ UNCHANGED <<part, vars, logVars, compactionVars, extensionVars,
     providerVars, requestVars>>
  \/ part = "log" /\ Log!Next /\ UNCHANGED <<part, vars, sseVars, compactionVars, extensionVars,
     providerVars, requestVars>>
  \/ part = "compaction" /\ Compact!Next /\ UNCHANGED <<part, vars, sseVars, logVars,
     extensionVars, providerVars, requestVars>>
  \/ part = "extension" /\ Ext!Next /\ UNCHANGED <<part, vars, sseVars, logVars, compactionVars,
     providerVars, requestVars>>
  \/ part = "provider" /\ Provider!Next /\ UNCHANGED <<part, vars, sseVars, logVars,
     compactionVars, extensionVars, requestVars>>
  \/ part = "request" /\ Request!Next /\ UNCHANGED <<part, vars, sseVars, logVars,
     compactionVars, extensionVars, providerVars>>

mcVars == <<part, vars, sseVars, logVars, compactionVars, extensionVars, providerVars,
                  requestVars>>

MCSpec == MCInit /\ [][MCNext]_mcVars

-----------------------------------------------------------------------------
OkIsComplete == part = "sse" => Sse!OkIsComplete
PausedCanResume == part = "log" => Log!PausedCanResume
NothingForgotten == part = "compaction" => Compact!NothingForgotten
NoOrphan == part = "extension" => Ext!NoOrphan
CallsExact == part = "provider" => Provider!CallsExact
AcceptedStaysAccepted == part = "request" => Request!AcceptedStaysAccepted

-----------------------------------------------------------------------------
(* Statements of the documents and tests that the code does not keep: each *)
(* is violated when it is named as an invariant of this module's instance. *)

(* docs/ARCHITECTURE.md:136: the state is restored from the complete log.  *)
(* After a crash between an append and the save of the session's record    *)
(* the two disagree, and a paused session cannot be resumed.               *)
PausedCanAlwaysResume == part = "log" => Log!PausedCanAlwaysResume

(* docs/ARCHITECTURE.md:538: context is compacted down to what is kept of  *)
(* it.  Not a turn that was split once: find_turn_start finds no user      *)
(* message behind the summary.                                             *)
RequestFits == part = "compaction" => Compact!RequestFits

(* docs/EXTENSIONS.md:290: an extension may stream events before it        *)
(* returns.  The answer may overtake those that wait (jsonrpc/adapters.rs).*)
EventsKept == part = "extension" => Ext!EventsKept

(* What the provider accepted it accepts later.  Not when a file that the  *)
(* history refers to is gone (provider_utils.rs).                          *)
AcceptedSurvivesFiles == part = "request" => Request!AcceptedSurvivesFiles
=============================================================================
