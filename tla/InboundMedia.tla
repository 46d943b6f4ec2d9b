---------------------------- MODULE InboundMedia ----------------------------
(***************************************************************************)
(* From the attachments of a chat message to the prompt: the resolvers of  *)
(* the two bridges (media.rs of noloong-agent-telegram and of              *)
(* noloong-agent-weixin) and the handlers that call them (telegram_cli.rs, *)
(* runtime.rs).  Attachments are fetched one after another; the first that *)
(* fails gives the whole message up, and the chat is told.                 *)
(*                                                                         *)
(* Telegram stores a file under its unique id, so a file that is sent      *)
(* again, or whose message is delivered again, is written over the copy    *)
(* that an earlier prompt refers to.  Weixin makes a directory per file.   *)
(***************************************************************************)
EXTENDS Naturals, SequencesExt

CONSTANTS
  Files,        \* Telegram's file_unique_ids
  Sizes,        \* declared sizes: a subset of AllSizes
  MaxItems,     \* bound: attachments of all messages
  MaxFaults     \* bound: calls that fail, deaths

(* Up to inline_max_bytes, up to max_download_bytes, beyond.               *)
ActualSizes == {"small", "large", "huge"}
AllSizes == ActualSizes \cup {"unknown"}

VARIABLES
  chat,     \* "telegram" or "weixin"
  policy,   \* what voice messages become: native, file or unsupported
  sent,     \* messages: [text, items]
  next,     \* the message to handle next
  handler,  \* [pc, media]: media are the blocks resolved so far
  files,    \* what the download directory holds of each Telegram file
  prompts,  \* what the agent got: [msg, text, media]
  noticed,  \* messages whose fallback to a file was announced
  outcome,  \* of each message handled
  faults

vars == <<chat, policy, sent, next, handler, files, prompts, noticed, outcome, faults>>

(* A Telegram message has one attachment; only a photo has a default MIME  *)
(* type, and "voice" is all that fallback_kind names: audio, voice, video  *)
(* and documents of those types.  A Weixin item may lack its media         *)
(* reference, or have one that is refused; "image" is all but voice, which *)
(* declares no size and may come with a transcript.                        *)
TelegramItems ==
  {a \in [kind : {"photo", "document", "voice"}, size : Sizes, mime : BOOLEAN, file : Files] :
     a.kind = "photo" => a.mime}
WeixinItems ==
  {a \in [kind : {"image", "voice"}, size : Sizes, ref : {"none", "good", "refused"},
          transcript : BOOLEAN] :
     IF a.kind = "image" THEN ~a.transcript ELSE a.size = "unknown"}
Attached == FoldLeft(LAMBDA n, m : n + Len(m.items), 0, sent)
Messages ==
  [text : IF chat = "telegram" THEN {"none", "text"} ELSE {"none", "blank", "text"},
   items : IF chat = "telegram" THEN {<<a>> : a \in TelegramItems}
           ELSE UNION {[1..n -> WeixinItems] : n \in 1..MaxItems - Attached}]

IdleHandler == [pc |-> "idle", item |-> 1, media |-> <<>>]

Init ==
  /\ chat \in {"telegram", "weixin"}
  /\ policy \in IF chat = "telegram" THEN {"native", "file", "unsupported"} ELSE {"file"}
  /\ sent = <<>> /\ next = 1 /\ handler = IdleHandler
  /\ files = [f \in Files |-> "none"]
  /\ prompts = <<>> /\ noticed = {} /\ outcome = <<>> /\ faults = 0

-----------------------------------------------------------------------------
Current == sent[next]
Item == Current.items[handler.item]

Fault == faults < MaxFaults /\ faults' = faults + 1
Works == UNCHANGED faults

(* extract_text: what the first text item has, and without a text item the *)
(* transcript of a voice item.                                             *)
TextOf(m) ==
  CASE m.text = "text"  -> "text"
    [] m.text = "blank" -> "none"
    [] OTHER -> IF chat = "weixin" /\ \E i \in DOMAIN m.items : m.items[i].transcript
                THEN "transcript" ELSE "none"

(* resolve_one of Weixin passes over what has no media reference, and over *)
(* voice that has a transcript.                                            *)
PassesOver(a) == chat = "weixin" /\ (a.ref = "none" \/ a.transcript)

(* What is refused before anything is downloaded.                          *)
RefusedByTelegram(a) ==
  a.size = "huge" \/ ~a.mime \/ (a.kind = "voice" /\ policy = "unsupported")
BadReference(a) == a.ref = "refused"
DeclaredTooLarge(a) == a.size = "huge"
Refuses(a) ==
  IF chat = "telegram" THEN RefusedByTelegram(a) ELSE BadReference(a) \/ DeclaredTooLarge(a)

(* should_inline: bytes are taken into memory first.                       *)
InMemory(a) == chat = "weixin" \/ (a.kind = "photo" /\ a.size \in {"small", "unknown"})

FallsBack(a) == chat = "telegram" /\ a.kind = "voice" /\ policy = "file"

-----------------------------------------------------------------------------
Send(m) ==
  /\ Attached < MaxItems
  /\ sent' = Append(sent, m)
  /\ UNCHANGED <<chat, policy, next, handler, files, prompts, noticed, outcome, faults>>

Ends(o) == next' = next + 1 /\ outcome' = Append(outcome, o) /\ handler' = IdleHandler

(* The handler returns an error: it is logged, and the poller goes on.     *)
HandlerFails == Ends("unsaid")

(* handle_media_message, handle_message: Weixin stores the chat's context  *)
(* token first.                                                            *)
HandleMessage ==
  /\ handler.pc = "idle" /\ next <= Len(sent)
  /\ \/ /\ handler' = [IdleHandler EXCEPT !.pc = "resolve"]
        /\ UNCHANGED <<next, outcome>> /\ Works
     \/ chat = "weixin" /\ HandlerFails /\ Fault
  /\ UNCHANGED <<chat, policy, sent, files, prompts, noticed>>

(* The resolver goes on with the next attachment, or gives its caller what *)
(* it has.                                                                 *)
NextItem(media) ==
  handler' = IF handler.item < Len(Current.items)
             THEN [pc |-> "resolve", item |-> handler.item + 1, media |-> media]
             ELSE [pc |-> "resolved", item |-> handler.item, media |-> media]

Resolved(source) ==
  NextItem(Append(handler.media,
                  [item |-> handler.item, source |-> source, fallback |-> FallsBack(Item)]))

GivesUp == handler' = [handler EXCEPT !.pc = "report"]

(* resolve_one_with_notice up to the download: getFile may fail or give no *)
(* path.                                                                   *)
ResolveOne ==
  /\ handler.pc = "resolve"
  /\ \/ PassesOver(Item) /\ NextItem(handler.media) /\ Works
     \/ ~PassesOver(Item) /\ Refuses(Item) /\ GivesUp /\ Works
     \/ ~PassesOver(Item) /\ ~Refuses(Item)
        /\ handler' = [handler EXCEPT !.pc = "download"] /\ Works
     \/ chat = "telegram" /\ GivesUp /\ Fault
  /\ UNCHANGED <<chat, policy, sent, next, files, prompts, noticed, outcome>>

(* download_file, download_bytes: the body is read up to the limit,        *)
(* whatever size was declared.                                             *)
DownloadBytes ==
  /\ handler.pc = "download" /\ InMemory(Item)
  /\ \/ \E actual \in ActualSizes :
          /\ CASE actual = "small" -> Resolved("inline")
               [] actual = "large" -> handler' = [handler EXCEPT !.pc = "write"]
               [] OTHER -> GivesUp
          /\ Works
     \/ GivesUp /\ Fault
  /\ UNCHANGED <<chat, policy, sent, next, files, prompts, noticed, outcome>>

(* What a write leaves of the file; a Weixin file is alone in a directory  *)
(* of its own.                                                             *)
Holds(what) ==
  files' = IF chat = "telegram" THEN [files EXCEPT ![Item.file] = what] ELSE files

(* large_file_path, write_large_bytes: the directory is made, then the     *)
(* file is truncated and written, and may end in between.                  *)
WriteLarge ==
  /\ handler.pc = "write"
  /\ \/ Holds("whole") /\ Resolved("uri") /\ Works
     \/ (UNCHANGED files \/ Holds("partial")) /\ GivesUp /\ Fault
  /\ UNCHANGED <<chat, policy, sent, next, prompts, noticed, outcome>>

(* download_file_to_path: the answer's head is read, which may tell a      *)
(* length beyond the limit, then the file is truncated ...                 *)
CreateFile ==
  /\ handler.pc = "download" /\ ~InMemory(Item)
  /\ \/ Holds("partial") /\ handler' = [handler EXCEPT !.pc = "body"] /\ Works
     \/ UNCHANGED files /\ GivesUp /\ Works
  /\ UNCHANGED <<chat, policy, sent, next, prompts, noticed, outcome>>

(* ... and the chunks are written as they come: a connection that breaks,  *)
(* or a body longer than the limit, leaves what there is.                  *)
(* As it would be if a body that breaks were taken for its end.            *)
CutShortIsEnd == Resolved("uri") /\ UNCHANGED files
CutShort == GivesUp /\ UNCHANGED files
WriteBody ==
  /\ handler.pc = "body"
  /\ \/ Holds("whole") /\ Resolved("uri") /\ Works
     \/ CutShort /\ Works
  /\ UNCHANGED <<chat, policy, sent, next, prompts, noticed, outcome>>

-----------------------------------------------------------------------------
(* unsupported_media_fallback_notices, before the prompt.                  *)
Announces == \E i \in DOMAIN handler.media : handler.media[i].fallback
SendNotice ==
  /\ handler.pc = "resolved" /\ Announces
  /\ \/ noticed' = noticed \cup {next} /\ handler' = [handler EXCEPT !.pc = "noticed"]
        /\ UNCHANGED <<next, outcome>> /\ Works
     \/ HandlerFails /\ UNCHANGED noticed /\ Fault
  /\ UNCHANGED <<chat, policy, sent, files, prompts>>

Prompt == [msg |-> next, text |-> TextOf(Current), media |-> handler.media]
Empty == TextOf(Current) = "none" /\ handler.media = <<>>

(* handle_inbound_message: a prompt whose answer is late may have been     *)
(* taken; Weixin says nothing of a message with no content.                *)
Submit ==
  /\ handler.pc = IF Announces THEN "noticed" ELSE "resolved"
  /\ \/ Empty /\ Ends("ignored") /\ UNCHANGED prompts /\ Works
     \/ ~Empty /\ Ends("submitted") /\ prompts' = Append(prompts, Prompt) /\ Works
     \/ /\ ~Empty /\ GivesUp /\ Fault
        /\ prompts' \in {prompts, Append(prompts, Prompt)}
        /\ UNCHANGED <<next, outcome>>
  /\ UNCHANGED <<chat, policy, sent, files, noticed>>

(* media_resolution_failed, report_media_error, and what is said of a      *)
(* prompt that failed.                                                     *)
Report ==
  /\ handler.pc = "report"
  /\ \/ Ends("told") /\ Works
     \/ HandlerFails /\ Fault
  /\ UNCHANGED <<chat, policy, sent, files, prompts, noticed>>

(* The process dies, perhaps in the middle of a write.  Telegram's offset  *)
(* is stored when a whole answer is handled: messages of it are delivered  *)
(* again, from any on.  The Weixin position was stored before: the message *)
(* in hand is lost, and those behind it in the answer.                     *)
Death ==
  /\ Fault
  /\ \/ UNCHANGED files
     \/ handler.pc = "write" /\ Holds("partial")
  /\ handler' = IdleHandler
  /\ IF chat = "telegram"
     THEN \E n \in 1..next : next' = n /\ outcome' = SubSeq(outcome, 1, n - 1)
     ELSE /\ handler.pc # "idle"
          /\ \E n \in next..Len(sent) :
               next' = n + 1 /\ outcome' = outcome \o [k \in 1..n - next + 1 |-> "lost"]
  /\ UNCHANGED <<chat, policy, sent, prompts, noticed>>

Next ==
  \/ \E m \in Messages : Send(m)
  \/ HandleMessage \/ ResolveOne \/ DownloadBytes \/ WriteLarge \/ CreateFile \/ WriteBody
  \/ SendNotice \/ Submit \/ Report \/ Death

Spec == Init /\ [][Next]_vars
-----------------------------------------------------------------------------
TypeOK ==
  /\ next \in 1..Len(sent) + 1 /\ Len(outcome) = next - 1
  /\ handler.pc \in {"idle", "resolve", "download", "write", "body", "resolved", "noticed", "report"}
  /\ files \in [Files -> {"none", "partial", "whole"}]

Wanted(m) == SelectSeq([i \in DOMAIN m.items |-> i], LAMBDA i : ~PassesOver(m.items[i]))

(* A prompt holds every attachment of its message that can be fetched, in  *)
(* their order, and a file it names was whole when the resolver was        *)
(* through with it; that a voice message became a file was said before.    *)
(* And a message that was handled is in a prompt, or the chat was told why *)
(* not, unless telling failed: except that Weixin says nothing of a        *)
(* message of which nothing can be used, and forgets one at whose handling *)
(* it died.  (resolve_all gives up at the first error.)                    *)
PromptsAreWhole ==
  /\ \A i \in DOMAIN prompts :
       LET p == prompts[i] IN
       /\ [k \in DOMAIN p.media |-> p.media[k].item] = Wanted(sent[p.msg])
       /\ (\E k \in DOMAIN p.media : p.media[k].fallback) => p.msg \in noticed
  /\ \A i \in DOMAIN handler.media :
       chat = "telegram" /\ handler.pc \in {"resolved", "noticed"} /\ handler.media[i].source = "uri"
         => files[Current.items[handler.media[i].item].file] = "whole"
  /\ \A n \in DOMAIN outcome :
       /\ outcome[n] = "submitted" => \E i \in DOMAIN prompts : prompts[i].msg = n
       /\ outcome[n] \in {"lost", "ignored"} => chat = "weixin"

(* The file that a prompt names stays as it was when the prompt was sent.  *)
(* It does not: see the head of this module.                               *)
FilesStayWhole ==
  \A i \in DOMAIN prompts : \A k \in DOMAIN prompts[i].media :
    LET b == prompts[i].media[k] IN
    chat = "telegram" /\ b.source = "uri" /\ handler.pc = "idle"
      => files[sent[prompts[i].msg].items[b.item].file] = "whole"

(* Of a voice item either the transcript or the sound is in the prompt.    *)
(* Not next to a text: extract_text returns the first text item.           *)
TranscriptsAreKept ==
  \A i \in DOMAIN prompts : LET m == sent[prompts[i].msg] IN
    chat = "weixin" /\ (\E k \in DOMAIN m.items : m.items[k].transcript)
      => prompts[i].text = "transcript"
=============================================================================
