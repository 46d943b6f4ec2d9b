------------------------------- MODULE MCChats -------------------------------
(* Instances of the chat bridges, of Telegram and of Weixin, and of the    *)
(* JSON-RPC connection they talk to the control plane over.  They share no *)
(* state: a behaviour is one of one component, `part`, and the variables   *)
(* of the others are left alone.                                           *)
EXTENDS TelegramPolling, Integers, Sequences

CONSTANTS
  Conns, AppConns, StdioConns, Reqs, Prompters, Watchers, Leavers, Stoppers, Events, Slots,
  MaxLinkFaults,  \* of JsonRpcTransport
  Commands, MaxEntries, MaxKeys, MaxPresses, MaxRestarts,  \* of TelegramActions
  MaxMessages, Unnamed, Silent, Refused, MaxInPage, MaxStops,  \* of WeixinPolling
  Base, Derived, Child, None, MaxChatCommands, MaxChatFaults, MaxNotes  \* of WeixinBridge

VARIABLES
  part,        (* what this behaviour is one of *)
  cp, current, runs, trigger, tBridgeNotes, unseen, tBridgeActive, status, tBridgeRoutes,
  tBridgePending, targets, tBridgePc, msg, on, tBridgeNext, tBridgeCommands, tBridgeOutcome,
  replies, disturbed, tBridgeInterfered,
  tDisplayChat, streamed, acc, preview, result, throttled, tDisplayNotes, approval,
  tDisplayCard, press, tool, tDisplayRun, tDisplayLapsed, tDisplayFailures,
  nextId, entries, buttons, tActionsHandler, again, presses, lives, born, done,
  wPollArrived, wPollStored, syncBuf, wPollPc, wPollBatch, wPollSeen, wPollFailures,
  wPollDeaths, wPollHandled, wPollLapsed, dropped,
  alive, running, subs, wBridgeNotes, nextSub, made, profiled, wBridgeStored, wBridgeActive,
  wBridgeRoutes, listed, cmd, todo, target, stale, leaving, wBridgeCommands, wBridgeFaults,
  lostAnswer, wBridgeInterfered, unheard, clean, failed,
  asked, wDisplayPending, events, order, wDisplayCard, shown, moved, answer, wrong, ignored, token,
  refused, nextToken, job, send, overlap, gaveUp, wDisplayCommands, finals,
  transportPc, req, out, late, transportPending, sendq, client, link, up, down, server, outq,
  task, lis, transportRun, heard, transportSeen, due, transportFaults,
  mediaChat, policy, sent, mediaNext, mediaHandler, files, prompts, noticed, mediaOutcome,
  mediaFaults

(* Three messages, two runs, two sessions; the broadcast holds two notes. *)
TBridge == INSTANCE TelegramBridge WITH MaxMessages <- 3, MaxRuns <- 2, MaxCommands <- 1,
    MaxSessions <- 2, Buffer <- 2, notes <- tBridgeNotes, active <- tBridgeActive,
    routes <- tBridgeRoutes, pending <- tBridgePending, pc <- tBridgePc, next <- tBridgeNext,
    commands <- tBridgeCommands, outcome <- tBridgeOutcome, interfered <- tBridgeInterfered

(* A text, a medium and a text of two pieces; one call fails. *)
TDisplay == INSTANCE TelegramDisplay WITH Pieces <- 3, Blocks <- <<{1}, {}, {2, 3}>>,
    TextLimit <- 2, CaptionLimit <- 1, MaxFailures <- 1, chat <- tDisplayChat,
    notes <- tDisplayNotes, card <- tDisplayCard, run <- tDisplayRun, lapsed <- tDisplayLapsed,
    failures <- tDisplayFailures

(* Buttons, their keys, presses and restarts.                              *)
TActions == INSTANCE TelegramActions WITH handler <- tActionsHandler

(* Messages, some without an id, in pages; deaths of the process.          *)
WPoll == INSTANCE WeixinPolling WITH Page <- MaxInPage, MaxDeaths <- MaxStops, arrived <- wPollArrived, stored <- wPollStored,
    pc <- wPollPc, batch <- wPollBatch, seen <- wPollSeen, failures <- wPollFailures,
    deaths <- wPollDeaths, handled <- wPollHandled, lapsed <- wPollLapsed

(* The chat's base session, those derived of it, and a child.              *)
WBridge == INSTANCE WeixinBridge WITH MaxCommands <- MaxChatCommands,
    MaxFaults <- MaxChatFaults, notes <- wBridgeNotes,
    stored <- wBridgeStored, active <- wBridgeActive, routes <- wBridgeRoutes,
    commands <- wBridgeCommands, faults <- wBridgeFaults, interfered <- wBridgeInterfered

(* Two approvals and two commands; or one command and a final answer. *)
WDisplay == INSTANCE WeixinDisplay WITH Approvals <- {1, 2}, OfChild <- {}, MaxTokens <- 1,
    MaxCommands <- 2, MaxFinals <- 0, pending <- wDisplayPending, card <- wDisplayCard,
    commands <- wDisplayCommands
WFinal == INSTANCE WeixinDisplay WITH Approvals <- {1, 2}, OfChild <- {}, MaxTokens <- 1,
    MaxCommands <- 1, MaxFinals <- 1, pending <- wDisplayPending, card <- wDisplayCard,
    commands <- wDisplayCommands

(* Connections, their requests and the runs they start.                    *)
Transport == INSTANCE JsonRpcTransport WITH Buffer <- Slots, MaxFaults <- MaxLinkFaults, pc <- transportPc,
    pending <- transportPending, run <- transportRun, seen <- transportSeen,
    faults <- transportFaults

(* Two attachments, of one file where Telegram knows it by its id; two calls fail. *)
Media == INSTANCE InboundMedia WITH Files <- {"f"}, Sizes <- {"huge", "unknown"}, MaxItems <- 2,
    MaxFaults <- 2, chat <- mediaChat, next <- mediaNext, handler <- mediaHandler,
    outcome <- mediaOutcome, faults <- mediaFaults

(* The connections are those there are, and requests are numbered.         *)
ASSUME ConnectionsAssumption == Transport!TransportAssumption

(* The commands are ones that have a card.                                 *)
ASSUME CommandsAreKnown == TActions!CommandsAssumption

telegramBridgeVars == <<cp, current, runs, trigger, tBridgeNotes, unseen, tBridgeActive, status,
                        tBridgeRoutes, tBridgePending, targets, tBridgePc, msg, on, tBridgeNext,
                        tBridgeCommands, tBridgeOutcome, replies, disturbed, tBridgeInterfered>>
telegramDisplayVars == <<tDisplayChat, streamed, acc, preview, result, throttled, tDisplayNotes,
                         approval, tDisplayCard, press, tool, tDisplayRun, tDisplayLapsed,
                         tDisplayFailures>>
telegramActionsVars == <<nextId, entries, buttons, tActionsHandler, again, presses, lives, born,
                         done>>
weixinPollingVars == <<wPollArrived, wPollStored, syncBuf, wPollPc, wPollBatch, wPollSeen,
                       wPollFailures, wPollDeaths, wPollHandled, wPollLapsed, dropped>>
weixinBridgeVars == <<alive, running, subs, wBridgeNotes, nextSub, made, profiled,
                      wBridgeStored, wBridgeActive, wBridgeRoutes, listed, cmd, todo, target,
                      stale, leaving, wBridgeCommands, wBridgeFaults, lostAnswer,
                      wBridgeInterfered, unheard, clean, failed>>
weixinDisplayVars == <<asked, wDisplayPending, events, order, wDisplayCard, shown, moved, answer,
                       wrong, ignored, token, refused, nextToken, job, send, overlap, gaveUp,
                       wDisplayCommands, finals>>
transportVars == <<transportPc, req, out, late, transportPending, sendq, client, link, up, down,
                   server, outq, task, lis, transportRun, heard, transportSeen, due,
                   transportFaults>>
inboundMediaVars == <<mediaChat, policy, sent, mediaNext, mediaHandler, files, prompts, noticed,
                      mediaOutcome, mediaFaults>>

(* What the variables of the other components hold. *)
Off == "off"
TelegramPollingOff == Init /\ arrived = 0
TelegramBridgeOff == cp = Off /\ current = Off /\ runs = Off /\ trigger = Off /\
                     tBridgeNotes = Off /\ unseen = Off /\ tBridgeActive = Off /\ status = Off /\
                     tBridgeRoutes = Off /\ tBridgePending = Off /\ targets = Off /\
                     tBridgePc = Off /\ msg = Off /\ on = Off /\ tBridgeNext = Off /\
                     tBridgeCommands = Off /\ tBridgeOutcome = Off /\ replies = Off /\
                     disturbed = Off /\ tBridgeInterfered = Off
TelegramDisplayOff == tDisplayChat = Off /\ streamed = Off /\ acc = Off /\ preview = Off /\
                      result = Off /\ throttled = Off /\ tDisplayNotes = Off /\
                      approval = Off /\ tDisplayCard = Off /\ press = Off /\ tool = Off /\
                      tDisplayRun = Off /\ tDisplayLapsed = Off /\ tDisplayFailures = Off
TelegramActionsOff == nextId = Off /\ entries = Off /\ buttons = Off /\ tActionsHandler = Off /\
                      again = Off /\ presses = Off /\ lives = Off /\ born = Off /\ done = Off
WeixinPollingOff == wPollArrived = Off /\ wPollStored = Off /\ syncBuf = Off /\ wPollPc = Off /\
                    wPollBatch = Off /\ wPollSeen = Off /\ wPollFailures = Off /\
                    wPollDeaths = Off /\ wPollHandled = Off /\ wPollLapsed = Off /\
                    dropped = Off
WeixinBridgeOff == alive = Off /\ running = Off /\ subs = Off /\ wBridgeNotes = Off /\
                   nextSub = Off /\ made = Off /\ profiled = Off /\ wBridgeStored = Off /\
                   wBridgeActive = Off /\ wBridgeRoutes = Off /\ listed = Off /\ cmd = Off /\
                   todo = Off /\ target = Off /\ stale = Off /\ leaving = Off /\
                   wBridgeCommands = Off /\ wBridgeFaults = Off /\ lostAnswer = Off /\
                   wBridgeInterfered = Off /\ unheard = Off /\ clean = Off /\ failed = Off
WeixinDisplayOff == asked = Off /\ wDisplayPending = Off /\ events = Off /\ order = Off /\
                    wDisplayCard = Off /\ shown = Off /\ moved = Off /\ answer = Off /\
                    wrong = Off /\
                    ignored = Off /\ token = Off /\ refused = Off /\ nextToken = Off /\
                    job = Off /\ send = Off /\ overlap = Off /\ gaveUp = Off /\
                    wDisplayCommands = Off /\ finals = Off
TransportOff == transportPc = Off /\ req = Off /\ out = Off /\ late = Off /\
                transportPending = Off /\ sendq = Off /\ client = Off /\ link = Off /\
                up = Off /\ down = Off /\ server = Off /\ outq = Off /\ task = Off /\
                lis = Off /\ transportRun = Off /\ heard = Off /\ transportSeen = Off /\
                due = Off /\ transportFaults = Off
InboundMediaOff == mediaChat = Off /\ policy = Off /\ sent = Off /\ mediaNext = Off /\
                   mediaHandler = Off /\ files = Off /\ prompts = Off /\ noticed = Off /\
                   mediaOutcome = Off /\ mediaFaults = Off

MCInit ==
  \/ part = "telegramPolling" /\ Init /\ TelegramBridgeOff /\ TelegramDisplayOff /\
     TelegramActionsOff /\ WeixinPollingOff /\ WeixinBridgeOff /\ WeixinDisplayOff /\
     TransportOff /\ InboundMediaOff
  \/ part = "telegramBridge" /\ TBridge!Init /\ TelegramPollingOff /\ TelegramDisplayOff /\
     TelegramActionsOff /\ WeixinPollingOff /\ WeixinBridgeOff /\ WeixinDisplayOff /\
     TransportOff /\ InboundMediaOff
  \/ part = "telegramDisplay" /\ TDisplay!Init /\ TelegramPollingOff /\ TelegramBridgeOff /\
     TelegramActionsOff /\ WeixinPollingOff /\ WeixinBridgeOff /\ WeixinDisplayOff /\
     TransportOff /\ InboundMediaOff
  \/ part = "telegramActions" /\ TActions!Init /\ TelegramPollingOff /\ TelegramBridgeOff /\
     TelegramDisplayOff /\ WeixinPollingOff /\ WeixinBridgeOff /\ WeixinDisplayOff /\
     TransportOff /\ InboundMediaOff
  \/ part = "weixinPolling" /\ WPoll!Init /\ TelegramPollingOff /\ TelegramBridgeOff /\
     TelegramDisplayOff /\ TelegramActionsOff /\ WeixinBridgeOff /\ WeixinDisplayOff /\
     TransportOff /\ InboundMediaOff
  \/ part = "weixinBridge" /\ WBridge!Init /\ TelegramPollingOff /\ TelegramBridgeOff /\
     TelegramDisplayOff /\ TelegramActionsOff /\ WeixinPollingOff /\ WeixinDisplayOff /\
     TransportOff /\ InboundMediaOff
  \/ part = "weixinDisplay" /\ WDisplay!Init /\ TelegramPollingOff /\ TelegramBridgeOff /\
     TelegramDisplayOff /\ TelegramActionsOff /\ WeixinPollingOff /\ WeixinBridgeOff /\
     TransportOff /\ InboundMediaOff
  \/ part = "weixinFinals" /\ WFinal!Init /\ TelegramPollingOff /\ TelegramBridgeOff /\
     TelegramDisplayOff /\ TelegramActionsOff /\ WeixinPollingOff /\ WeixinBridgeOff /\
     TransportOff /\ InboundMediaOff
  \/ part = "transport" /\ Transport!Init /\ TelegramPollingOff /\ TelegramBridgeOff /\
     TelegramDisplayOff /\ TelegramActionsOff /\ WeixinPollingOff /\ WeixinBridgeOff /\
     WeixinDisplayOff /\ InboundMediaOff
  \/ part = "inboundMedia" /\ Media!Init /\ TelegramPollingOff /\ TelegramBridgeOff /\
     TelegramDisplayOff /\ TelegramActionsOff /\ WeixinPollingOff /\ WeixinBridgeOff /\
     WeixinDisplayOff /\ TransportOff

MCNext ==
  \/ part = "telegramPolling" /\ Next /\ UNCHANGED <<part, telegramBridgeVars,
     telegramDisplayVars, telegramActionsVars, weixinPollingVars, weixinBridgeVars,
     weixinDisplayVars, transportVars, inboundMediaVars>>
  \/ part = "telegramBridge" /\ TBridge!Next /\ UNCHANGED <<part, vars, telegramDisplayVars,
     telegramActionsVars, weixinPollingVars, weixinBridgeVars, weixinDisplayVars, transportVars,
     inboundMediaVars>>
  \/ part = "telegramDisplay" /\ TDisplay!Next /\ UNCHANGED <<part, vars, telegramBridgeVars,
     telegramActionsVars, weixinPollingVars, weixinBridgeVars, weixinDisplayVars, transportVars,
     inboundMediaVars>>
  \/ part = "telegramActions" /\ TActions!Next /\ UNCHANGED <<part, vars, telegramBridgeVars,
     telegramDisplayVars, weixinPollingVars, weixinBridgeVars, weixinDisplayVars, transportVars,
     inboundMediaVars>>
  \/ part = "weixinPolling" /\ WPoll!Next /\ UNCHANGED <<part, vars, telegramBridgeVars,
     telegramDisplayVars, telegramActionsVars, weixinBridgeVars, weixinDisplayVars,
     transportVars, inboundMediaVars>>
  \/ part = "weixinBridge" /\ WBridge!Next /\ UNCHANGED <<part, vars, telegramBridgeVars,
     telegramDisplayVars, telegramActionsVars, weixinPollingVars, weixinDisplayVars,
     transportVars, inboundMediaVars>>
  \/ part = "weixinDisplay" /\ WDisplay!Next /\ UNCHANGED <<part, vars, telegramBridgeVars,
     telegramDisplayVars, telegramActionsVars, weixinPollingVars, weixinBridgeVars,
     transportVars, inboundMediaVars>>
  \/ part = "weixinFinals" /\ WFinal!Next /\ UNCHANGED <<part, vars, telegramBridgeVars,
     telegramDisplayVars, telegramActionsVars, weixinPollingVars, weixinBridgeVars,
     transportVars, inboundMediaVars>>
  \/ part = "transport" /\ Transport!Next /\ UNCHANGED <<part, vars, telegramBridgeVars,
     telegramDisplayVars, telegramActionsVars, weixinPollingVars, weixinBridgeVars,
     weixinDisplayVars, inboundMediaVars>>
  \/ part = "inboundMedia" /\ Media!Next /\ UNCHANGED <<part, vars, telegramBridgeVars,
     telegramDisplayVars, telegramActionsVars, weixinPollingVars, weixinBridgeVars,
     weixinDisplayVars, transportVars>>

mcVars == <<part, vars, telegramBridgeVars, telegramDisplayVars, telegramActionsVars,
                  weixinPollingVars, weixinBridgeVars, weixinDisplayVars, transportVars,
                  inboundMediaVars>>

MCSpec == MCInit /\ [][MCNext]_mcVars

-----------------------------------------------------------------------------
(* What a run says is sent in reply to the message whose prompt started    *)
(* it, however far the display task is behind, over pauses, approvals,     *)
(* aborts, follow-ups and changes of session: as long as every run is      *)
(* started by a message, every prompt succeeds, and neither its RunStarted *)
(* nor an earlier one was dropped by the bounded broadcast channel (the    *)
(* pending triggers of the Telegram bridge).                               *)
ReplyToTrigger == part = "telegramBridge" => TBridge!ReplyToTrigger

(* A final message that was delivered without an error is in the chat as a *)
(* whole: every piece of its text and every medium, whichever calls failed *)
(* and were made up for, whatever was lost of the stream; but for the last *)
(* edits of a preview that media follow (Telegram's finish).               *)
FinalComplete == part = "telegramDisplay" => TDisplay!FinalComplete

(* What a button stands for is done at most once, however often it is      *)
(* pressed and although a press may be delivered again after a restart     *)
(* (the callback registry of the Telegram bridge).                         *)
DoneOnce == part = "telegramActions" => TActions!DoneOnce

(* What a Weixin chat says gets through.  A message that the stored        *)
(* position has passed was handled, unless the process died with the       *)
(* answer in hand, access refused it, or it has no id and looked like an   *)
(* earlier one.  And the chat hears what it asks: when a message is        *)
(* submitted, the session is subscribed and routed to the chat, through    *)
(* switches, restarts, lost answers and the display task's clean-up.       *)
(* (ensure_session subscribes before it submits; unsubscribe_inactive      *)
(* spares the active session.)                                             *)
WeixinGetsThrough ==
  /\ part = "weixinPolling" => WPoll!PassedIsHandled
  /\ part = "weixinBridge" => WBridge!SubmitIsHeard

(* "/approve n" resolves the approval that the Weixin chat shows under n,  *)
(* as long as no approval was removed from the middle of the numbering, no *)
(* list was shown in another order and no card was lost: it is then the    *)
(* one numbering there is.                                                 *)
AnswerMeansNumber ==
  /\ part = "weixinDisplay" => WDisplay!AnswerMeansNumber
  /\ part = "weixinFinals" => WFinal!AnswerMeansNumber

(* The events of a run reach the client before the answer to the request   *)
(* that started it (the outbound channel of the connection keeps order).   *)
EventsBeforeAnswer == part = "transport" => Transport!EventsBeforeAnswer

(* A prompt holds every attachment of its message that can be fetched, in  *)
(* order and with whole files, after the notice that one became a file; a  *)
(* message that was handled is in a prompt, or the chat was told why not   *)
(* (the resolvers of both bridges; Weixin's exceptions are in the module). *)
PromptsAreWhole == part = "inboundMedia" => Media!PromptsAreWhole

-----------------------------------------------------------------------------
(* Statements of the documents and tests that the code does not keep: each *)
(* is violated when it is named as an invariant of this module's instance. *)

(* docs/TELEGRAM.md:141: what a run says replies to the trigger message.   *)
(* Not when the prompt of a queued message fails: the trigger is rolled    *)
(* back, or taken by another run (bridge.rs).                              *)
ReplyAlwaysToTrigger == part = "telegramBridge" => TBridge!ReplyAlwaysToTrigger

(* display.rs, display_final_flushes_message: a final message flushes the  *)
(* preview.  Not within the throttle when media follow the text.           *)
FinalFlushes == part = "telegramDisplay" => TDisplay!FinalFlushes

(* A button does what it says.  Not after a restart: keys start at 1       *)
(* again, and an old button stands for a new entry (callback.rs).          *)
PressMeansLabel == part = "telegramActions" => TActions!PressMeansLabel

(* docs/WEIXIN.md: a message creates or restores the session.  Not when    *)
(* the session was deleted while the bridge holds it as subscribed.        *)
MessageAlwaysSubmitted == part = "weixinBridge" => WBridge!MessageAlwaysSubmitted

(* docs/WEIXIN.md:72: "/approve 1" approves what is shown as the first.    *)
(* Not when an approval before it was resolved since the card was sent.    *)
AnswerMeansShown == part = "weixinDisplay" => WDisplay!AnswerMeansShown

(* Every message polled is handled.  Not when the process dies with the    *)
(* answer in hand: the position is stored before the messages are handled. *)
EveryMessageHandled == part = "weixinPolling" => WPoll!EveryMessageHandled

(* The file a prompt names stays whole.  Not when it is sent again and the *)
(* second download, to the same path, is cut short (telegram_api.rs).      *)
FilesStayWhole == part = "inboundMedia" => Media!FilesStayWhole

(* docs/WEIXIN.md:84: the transcript of a voice message is preferred to    *)
(* its sound.  Next to a text neither is in the prompt (input.rs).         *)
TranscriptsAreKept == part = "inboundMedia" => Media!TranscriptsAreKept
=============================================================================
