-------------------------- MODULE TelegramDisplay --------------------------
(***************************************************************************)
(* What a chat shows of a run (noloong-agent-telegram/src/display.rs and   *)
(* delivery.rs, approval.rs, callback.rs; the display task and the button  *)
(* handler of src/telegram_cli.rs): the preview that is edited while the   *)
(* model streams, the final message that replaces or completes it, the     *)
(* card of an approval with its buttons, and the cards of tools and runs.  *)
(*                                                                         *)
(* The text of the message is Pieces pieces, streamed in order; Blocks is  *)
(* the final message: each block a set of pieces, empty for a medium. The  *)
(* chat is the list of the messages that were sent, with the pieces each   *)
(* shows. A call of the API may fail, and a message that is gone can be    *)
(* neither edited nor deleted.                                             *)
(***************************************************************************)
EXTENDS Naturals, Sequences, FiniteSets

CONSTANTS
  Pieces,       \* pieces of the text
  Blocks,       \* the blocks of the final message, in order
  TextLimit,    \* pieces that fit in one message
  CaptionLimit, \* pieces that fit in a caption
  MaxFailures   \* bound: API calls that fail

VARIABLES
  chat,      \* messages sent: [kind, body, live]
  streamed,  \* pieces the model has streamed
  acc,       \* DisplayMessageState.accumulated_text
  preview,   \* preview_message_id, 0 for none
  result,    \* the final message: "none" | "ok" | "error"
  throttled, \* the last delta changed no message
  notes,     \* approval events the display task has not read
  approval,  \* "none" | "pending" | "resolved", at the control plane
  card,      \* the approval's entry in the callback store: its message, 0 for none
  press,     \* the button handler
  tool, run, \* tool status message and run card, 0 for none
  lapsed,    \* the entry's time to live ran out
  failures

vars == <<chat, streamed, acc, preview, result, throttled, notes, approval, card, press,
          tool, run, lapsed, failures>>

Text == 1..Pieces
Media == {i \in 1..Len(Blocks) : Blocks[i] = {}}
HasMedia == Media # {}
Message(kind, body) == [kind |-> kind, body |-> body, live |-> TRUE]
IdlePress == [pc |-> "idle", card |-> 0]

Init ==
  /\ chat = <<>> /\ streamed = 0 /\ acc = {} /\ preview = 0 /\ result = "none"
  /\ throttled = FALSE /\ notes = <<>> /\ approval = "none" /\ card = 0
  /\ press = IdlePress /\ tool = 0 /\ run = 0 /\ lapsed = FALSE /\ failures = 0

-----------------------------------------------------------------------------
(* The API: sending, editing and deleting.                                 *)

Least(a, b) == IF a < b THEN a ELSE b
Failing == failures < MaxFailures

(* send_text_with_reply: a text that does not fit goes out in chunks.      *)
Chunks(body) ==
  LET ordered == SelectSeq([i \in 1..Pieces |-> i], LAMBDA p : p \in body)
      count == (Len(ordered) + TextLimit - 1) \div TextLimit
  IN [c \in 1..count |->
        Message("text", {ordered[i] : i \in ((c - 1) * TextLimit + 1)
                                            ..Least(c * TextLimit, Len(ordered))})]

(* A list of messages goes out until a call fails.                         *)
Sends(messages, sent) == SubSeq(messages, 1, sent)
Edited(id, body) == [chat EXCEPT ![id].body = body]
Deleted(c, id) == [c EXCEPT ![id].live = FALSE]
Editable(id, body) == chat[id].live /\ Cardinality(body) <= TextLimit

-----------------------------------------------------------------------------
(* AssistantMessageDelta: record_delta, the first preview, its edits.      *)

Lost ==  \* the display task lagged and missed a delta
  /\ result = "none" /\ streamed < Pieces
  /\ streamed' = streamed + 1
  /\ UNCHANGED <<chat, acc, preview, result, throttled, notes, approval, card, press,
                 tool, run, lapsed, failures>>

Delta ==
  /\ result = "none" /\ streamed < Pieces
  /\ streamed' = streamed + 1 /\ acc' = acc \cup {streamed + 1}
  /\ \/ /\ preview = 0
        /\ \E sent \in 0..Len(Chunks(acc')) :
             /\ sent < Len(Chunks(acc')) => Failing
             /\ chat' = chat \o Sends(Chunks(acc'), sent)
             /\ preview' = IF sent = Len(Chunks(acc')) THEN Len(chat) + 1 ELSE 0
             /\ failures' = IF sent < Len(Chunks(acc')) THEN failures + 1 ELSE failures
             /\ throttled' = (sent < Len(Chunks(acc')))
     \/ /\ preview # 0
        /\ \/ Editable(preview, acc') /\ chat' = Edited(preview, acc')
              /\ throttled' = FALSE /\ failures' = failures
           \/ Failing /\ chat' = chat /\ throttled' = TRUE /\ failures' = failures + 1
           \/ chat' = chat /\ throttled' = TRUE /\ failures' = failures  \* should_edit
        /\ preview' = preview
  /\ UNCHANGED <<result, notes, approval, card, press, tool, run, lapsed>>

-----------------------------------------------------------------------------
(* AssistantMessageFinal.                                                  *)

(* send_agent_message: text before a medium is its caption if it fits; a   *)
(* medium that cannot be sent becomes a text card with the caption.        *)
Plan[n \in 0..Len(Blocks)] ==
  IF n = 0 THEN [out |-> <<>>, pending |-> {}]
  ELSE LET before == Plan[n - 1] IN
       IF n \notin Media
       THEN [before EXCEPT !.pending = @ \cup Blocks[n]]
       ELSE IF Cardinality(before.pending) > CaptionLimit
       THEN [out |-> before.out \o Chunks(before.pending) \o <<Message("media", {})>>,
             pending |-> {}]
       ELSE [out |-> Append(before.out, Message("media", before.pending)), pending |-> {}]

WholeMessage ==
  LET plan == Plan[Len(Blocks)] IN plan.out \o Chunks(plan.pending)

AllMedia ==
  [i \in 1..Cardinality(Media) |-> Message("media", {})]

Deliver(messages) ==
  \E sent \in 0..Len(messages) :
    /\ sent < Len(messages) => Failing
    /\ chat' = chat \o Sends(messages, sent)
    /\ result' = IF sent = Len(messages) THEN "ok" ELSE "error"
    /\ failures' = IF sent < Len(messages) THEN failures + 1 ELSE failures

(* The preview is edited into the final text; if that fails the message is *)
(* sent anew. With media, an edit that would change nothing is left out.   *)
SkipsEdit(text) == acc = text
NeverEdits(text) == FALSE
EditsPreview(text) == text # {} /\ (HasMedia => ~SkipsEdit(text))

Final ==
  /\ result = "none" /\ streamed = Pieces
  /\ IF preview = 0
     THEN Deliver(IF HasMedia THEN WholeMessage ELSE Chunks(Text))
     ELSE \/ /\ EditsPreview(Text) /\ Editable(preview, Text)
             /\ \E sent \in 0..Len(AllMedia) :
                  /\ sent < Len(AllMedia) => Failing
                  /\ chat' = Edited(preview, Text) \o Sends(AllMedia, sent)
                  /\ result' = IF sent = Len(AllMedia) THEN "ok" ELSE "error"
                  /\ failures' = IF sent < Len(AllMedia) THEN failures + 1 ELSE failures
          \/ /\ EditsPreview(Text) /\ (Failing \/ ~Editable(preview, Text))
             /\ Deliver(IF HasMedia THEN WholeMessage ELSE Chunks(Text))
          \/ ~EditsPreview(Text) /\ Deliver(AllMedia)
  /\ preview' = 0 /\ acc' = {}
  /\ UNCHANGED <<streamed, throttled, notes, approval, card, press, tool, run, lapsed>>

-----------------------------------------------------------------------------
(* The control plane: an approval is asked for, and decided by a button    *)
(* (see Press), by another client or by its deadline.                      *)

AskApproval ==
  /\ approval = "none"
  /\ approval' = "pending" /\ notes' = Append(notes, "requested")
  /\ UNCHANGED <<chat, streamed, acc, preview, result, throttled, card, press, tool, run,
                 lapsed, failures>>

DecidedElsewhere ==
  /\ approval = "pending"
  /\ approval' = "resolved" /\ notes' = Append(notes, "resolved")
  /\ UNCHANGED <<chat, streamed, acc, preview, result, throttled, card, press, tool, run,
                 lapsed, failures>>

(* ApprovalRequested: the card is sent and its buttons become known.       *)
ApprovalRequested ==
  /\ notes # <<>> /\ Head(notes) = "requested" /\ notes' = Tail(notes)
  /\ \/ chat' = Append(chat, Message("card", {})) /\ card' = Len(chat) + 1
        /\ failures' = failures
     \/ Failing /\ failures' = failures + 1 /\ UNCHANGED <<chat, card>>
  /\ UNCHANGED <<streamed, acc, preview, result, throttled, approval, press, tool, run, lapsed>>

(* ApprovalResolved, ApprovalExpired: the entry goes, and the card with it *)
(* as far as the API lets it.                                              *)
ForgetsOnly(id) == chat
ClearCard(id) == Deleted(chat, id)
ResolvedCard ==
  /\ notes # <<>> /\ Head(notes) = "resolved" /\ notes' = Tail(notes)
  /\ card' = 0
  /\ IF card = 0 THEN UNCHANGED <<chat, failures>>
     ELSE \/ chat' = ClearCard(card) /\ failures' = failures
          \/ Failing /\ failures' = failures + 1 /\ chat' = chat
  /\ UNCHANGED <<streamed, acc, preview, result, throttled, approval, press, tool, run, lapsed>>

(* ShortCallbackStore: an entry is forgotten after 15 minutes.             *)
SweepExpired ==
  /\ card # 0 /\ ~lapsed
  /\ card' = 0 /\ lapsed' = TRUE
  /\ UNCHANGED <<chat, streamed, acc, preview, result, throttled, notes, approval, press,
                 tool, run, failures>>

-----------------------------------------------------------------------------
(* handle_callback: look the card up, ask the control plane, clear the     *)
(* card, forget the entry, answer the callback. A call that fails ends it. *)

Press ==
  /\ press.pc = "idle"
  /\ \E i \in 1..Len(chat) : chat[i].kind = "card" /\ chat[i].live
  /\ card # 0  \* otherwise the callback is answered as expired
  /\ press' = [pc |-> "apply", card |-> card]
  /\ UNCHANGED <<chat, streamed, acc, preview, result, throttled, notes, approval, card,
                 tool, run, lapsed, failures>>

Apply ==
  /\ press.pc = "apply"
  /\ IF approval = "pending"
     THEN /\ approval' = "resolved" /\ notes' = Append(notes, "resolved")
          /\ press' = [press EXCEPT !.pc = "clear"]
     ELSE press' = IdlePress /\ UNCHANGED <<approval, notes>>
  /\ UNCHANGED <<chat, streamed, acc, preview, result, throttled, card, tool, run, lapsed,
                 failures>>

ClearApprovalCard ==
  /\ press.pc = "clear"
  /\ \/ chat[press.card].live /\ chat' = Deleted(chat, press.card)
        /\ press' = [press EXCEPT !.pc = "forget"] /\ failures' = failures
     \/ ~chat[press.card].live /\ press' = IdlePress /\ UNCHANGED <<chat, failures>>
     \/ Failing /\ failures' = failures + 1 /\ chat' = chat /\ press' = IdlePress
  /\ UNCHANGED <<streamed, acc, preview, result, throttled, notes, approval, card, tool,
                 run, lapsed>>

ResolveCallback ==
  /\ press.pc = "forget"
  /\ card' = IF card = press.card THEN 0 ELSE card
  /\ press' = IdlePress
  /\ UNCHANGED <<chat, streamed, acc, preview, result, throttled, notes, approval, tool,
                 run, lapsed, failures>>

-----------------------------------------------------------------------------
(* Tool status messages and run cards.                                     *)

ToolStarted ==
  /\ tool = 0 /\ result = "none" /\ streamed = 0
  /\ chat' = Append(chat, Message("tool", {})) /\ tool' = Len(chat) + 1
  /\ UNCHANGED <<streamed, acc, preview, result, throttled, notes, approval, card, press,
                 run, lapsed, failures>>

RunPaused ==
  /\ run = 0 /\ approval = "pending" /\ result = "none"
  /\ chat' = Append(chat, Message("run", {})) /\ run' = Len(chat) + 1
  /\ UNCHANGED <<streamed, acc, preview, result, throttled, notes, approval, card, press,
                 tool, lapsed, failures>>

(* RunCompleted: what is left of both is deleted, best effort.             *)
RunCompleted ==
  /\ result # "none" /\ tool + run > 0 /\ notes = <<>>
  /\ \E gone \in SUBSET ({tool, run} \ {0}) :
       /\ gone # {tool, run} \ {0} => Failing
       /\ failures' = IF gone # {tool, run} \ {0} THEN failures + 1 ELSE failures
       /\ chat' = [i \in 1..Len(chat) |-> [chat[i] EXCEPT !.live = @ /\ i \notin gone]]
  /\ tool' = 0 /\ run' = 0
  /\ UNCHANGED <<streamed, acc, preview, result, throttled, notes, approval, card, press, lapsed>>

-----------------------------------------------------------------------------
Next ==
  \/ Lost \/ Delta \/ Final \/ AskApproval \/ DecidedElsewhere \/ ApprovalRequested
  \/ ResolvedCard \/ SweepExpired \/ Press \/ Apply \/ ClearApprovalCard
  \/ ResolveCallback \/ ToolStarted \/ RunPaused \/ RunCompleted

Spec == Init /\ [][Next]_vars

-----------------------------------------------------------------------------
Shown(p) == \E i \in 1..Len(chat) : chat[i].live /\ p \in chat[i].body
MediaShown == Cardinality({i \in 1..Len(chat) : chat[i].kind = "media"}) = Len(AllMedia)

(* A final message that was delivered without an error is in the chat as a *)
(* whole: every piece of its text and every medium, whichever calls failed *)
(* and were made up for, whatever was lost of the stream; but for the last *)
(* edits of a preview that media follow (see FinalFlushes).                *)
FinalComplete ==
  (result = "ok" /\ ~(HasMedia /\ throttled)) => (MediaShown /\ \A p \in Text : Shown(p))

(* The same without the exception: the final message flushes the preview.  *)
FinalFlushes == result = "ok" => \A p \in Text : Shown(p)

(* When a decision has been made and read, its card with the buttons is    *)
(* gone from the chat, whoever decided and whoever cleared it first,       *)
(* unless a call failed or the buttons had expired.                        *)
CardCleared ==
  (approval = "resolved" /\ notes = <<>> /\ press = IdlePress /\ failures = 0 /\ ~lapsed)
    => \A i \in 1..Len(chat) : chat[i].kind = "card" => ~chat[i].live
=============================================================================
