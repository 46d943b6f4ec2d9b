--------------------------- MODULE WeixinDisplay ---------------------------
(***************************************************************************)
(* What a Weixin chat is sent (noloong-agent-weixin/src/display.rs,        *)
(* delivery.rs, and the approval commands of runtime.rs): the numbered     *)
(* approvals, whose numbers the user answers with, and the sending of      *)
(* texts and media with a context token that iLink may refuse.             *)
(*                                                                         *)
(* Two tasks send: the display task ("display"), which shows the events of *)
(* the sessions the chat follows, and the poller's handler ("handler"),    *)
(* which answers commands and stores the tokens of inbound messages.       *)
(***************************************************************************)
EXTENDS Naturals, Sequences, FiniteSets, SequencesExt

CONSTANTS
  Approvals,   \* bound: approval ids, numbers in the order of their ids
  OfChild,     \* those that a subagent's run asks for
  MaxTokens,   \* bound: context tokens
  MaxCommands, \* bound: commands
  MaxFinals    \* bound: final messages

Actors == {"display", "handler"}

VARIABLES
  asked,     \* approvals that were asked for
  pending,   \* external: approvals the control plane waits for
  events,    \* external: display events on their way
  order,     \* WeixinDisplayState.approval_order
  card,      \* WeixinControlCardState.approval_ids
  shown,     \* number -> the approval the chat last saw under it (0: none)
  moved,     \* a number's meaning changed after it was shown, or was never shown, or the
             \* number of an answer went to a new approval whose card the user had not seen
  answer,    \* the user's answer: [phase, n, meant: the approval shown when it was written,
             \* among: the approvals it is looked up in, id: the one it resolves]
  wrong,     \* an answer resolved another approval than the one shown
  ignored,   \* an answer to a pending approval that is shown resolved nothing
  token,     \* the stored context token (0: none)
  refused,   \* external: tokens iLink no longer takes
  nextToken,
  job,       \* actor -> pieces still to be sent
  send,      \* actor -> the send under way: [token, tries]
  overlap,   \* a token was deleted that was not the one refused
  gaveUp,    \* a piece was given up after nothing worse than a refused token
  commands, finals

chat == <<asked, pending, events, order, card, shown, moved, answer, wrong, ignored>>
wire == <<token, refused, nextToken, job, send, overlap, gaveUp>>
vars == <<chat, wire, commands, finals>>

Idle == [phase |-> "idle", token |-> 0, tries |-> 0]
NoAnswer == [phase |-> "none", n |-> 0, meant |-> 0, among |-> {}, id |-> 0]
Numbers == 1..Cardinality(Approvals)

Init ==
  /\ asked = {} /\ pending = {} /\ answer = NoAnswer /\ events = <<>> /\ order = <<>> /\ card = <<>>
  /\ shown = [n \in Numbers |-> 0] /\ moved = FALSE /\ wrong = FALSE /\ ignored = FALSE
  /\ token = 0 /\ refused = {} /\ nextToken = 1
  /\ job = [p \in Actors |-> <<>>] /\ send = [p \in Actors |-> Idle]
  /\ overlap = FALSE /\ gaveUp = FALSE /\ commands = 0 /\ finals = 0

-----------------------------------------------------------------------------
(* The control plane.                                                      *)

AskApproval ==
  \E a \in Approvals \ asked :
    /\ asked' = asked \cup {a} /\ pending' = pending \cup {a}
    /\ events' = Append(events, <<"requested", a>>)
    /\ UNCHANGED <<order, card, shown, moved, answer, wrong, ignored, wire, commands, finals>>

(* Another client decides.                                                 *)
ResolvedElsewhere ==
  \E a \in pending :
    /\ pending' = pending \ {a} /\ events' = Append(events, <<"resolved", a>>)
    /\ UNCHANGED <<asked, order, card, shown, moved, answer, wrong, ignored, wire, commands, finals>>

FinalMessage ==
  /\ finals < MaxFinals /\ finals' = finals + 1
  /\ events' = Append(events, <<"final", 0>>)
  /\ UNCHANGED <<asked, pending, order, card, shown, moved, answer, wrong, ignored, wire, commands>>

-----------------------------------------------------------------------------
(* deliver_display_event. The display task keeps the chat's display state  *)
(* locked until what it sends is sent.                                     *)

Busy(p) == job[p] # <<>>
HandlerFree == ~Busy("handler") /\ answer.phase \in {"none", "written"}
Without(a) == SelectSeq(order, LAMBDA x : x # a)

(* remove_approval: the numbers of the later approvals shift.              *)
Removed(a) ==
  /\ order' = Without(a)
  /\ moved' = (moved \/ (Contains(order, a) /\ Last(order) # a))

Requested(a) ==
  /\ order' = IF Contains(order, a) THEN order ELSE Append(order, a)
  /\ job' = [job EXCEPT !["display"] = <<[kind |-> "card", from |-> Len(order'), list |-> order']>>]
  /\ moved' = (moved \/ (Len(order') # Len(order) /\ answer # NoAnswer /\ answer.n = Len(order')))

DisplayEvent ==
  LET e == Head(events) IN
  /\ events # <<>> /\ ~Busy("display")
  /\ events' = Tail(events)
  /\ \/ e[1] = "requested" /\ Requested(e[2])
     \/ e[1] = "resolved" /\ Removed(e[2]) /\ job' = job
     \/ /\ e[1] = "final" /\ UNCHANGED <<order, moved>>  \* send_agent_message: text, media, text
        /\ job' = [job EXCEPT !["display"] = <<[kind |-> "text"], [kind |-> "media"], [kind |-> "text"]>>]
  /\ UNCHANGED <<asked, pending, card, shown, answer, wrong, ignored, token, refused, nextToken, send,
                 overlap, gaveUp, commands, finals>>

-----------------------------------------------------------------------------
(* Inbound messages: a command, and the token that comes with it.          *)

Current == pending \ OfChild   \* approval/list of the chat's session
Sorted(S) == SetToSortSeq(S, LAMBDA a, b : a < b)
ShowsList(S) ==
  /\ card' = Sorted(S)
  /\ job' = [job EXCEPT !["handler"] = <<[kind |-> "card", from |-> 1, list |-> Sorted(S)]>>]
  /\ moved' = (moved \/ (Sorted(S) # order /\ S # {}))

SaveToken ==
  /\ \/ token' = token /\ nextToken' = nextToken
     \/ nextToken <= MaxTokens /\ token' = nextToken /\ nextToken' = nextToken + 1

(* send_approvals: the list replaces the card.                             *)
ListApprovals ==
  /\ HandlerFree /\ commands < MaxCommands /\ commands' = commands + 1
  /\ SaveToken
  /\ ShowsList(Current)
  /\ UNCHANGED <<asked, pending, events, order, shown, answer, wrong, ignored, refused, send,
                 overlap, gaveUp, finals>>

(* The user writes "/approve n" to what is on the screen.                  *)
WriteAnswer ==
  /\ answer = NoAnswer /\ commands < MaxCommands /\ commands' = commands + 1
  /\ \E n \in Numbers :
       /\ answer' = [NoAnswer EXCEPT !.phase = "written", !.n = n, !.meant = shown[n]]
       /\ moved' = (moved \/ (n \in DOMAIN order /\ shown[n] \notin {0, order[n]}))
  /\ UNCHANGED <<asked, pending, events, order, card, shown, wrong, ignored, wire, finals>>

(* resolve_approval: the control plane is asked what it waits for, ...     *)
HandleAnswer ==
  /\ answer.phase = "written" /\ ~Busy("handler")
  /\ SaveToken
  /\ answer' = [answer EXCEPT !.phase = "select", !.among = Current]
  /\ UNCHANGED <<asked, pending, events, order, card, shown, moved, wrong, ignored, refused, job,
                 send, overlap, gaveUp, commands, finals>>

(* ... selected_approval_id looks the number up, in the display's          *)
(* numbering before the last list, ...                                     *)
NumberedFromZero(list, n) ==
  IF n + 1 \in DOMAIN list THEN {list[n + 1]} \cap answer.among ELSE {}
Numbered(list, n) == IF n \in DOMAIN list THEN {list[n]} \cap answer.among ELSE {}
Selected(n) == IF Numbered(order, n) # {} THEN Numbered(order, n) ELSE Numbered(card, n)
SelectApproval ==
  /\ answer.phase = "select" /\ ~Busy("display")
  /\ \/ /\ Selected(answer.n) = {} /\ ShowsList(answer.among)
        /\ ignored' = (ignored \/ answer.meant \in pending)
        /\ answer' = NoAnswer
     \/ \E a \in Selected(answer.n) :
          /\ answer' = [answer EXCEPT !.phase = "resolve", !.id = a]
          /\ UNCHANGED <<card, job, moved, ignored>>
  /\ UNCHANGED <<asked, pending, events, order, shown, wrong, token, refused, nextToken, send,
                 overlap, gaveUp, commands, finals>>

(* ... the approval is resolved, unless somebody else has by now, ...      *)
ResolveApproval ==
  /\ answer.phase = "resolve"
  /\ IF answer.id \in pending
     THEN /\ pending' = pending \ {answer.id} /\ events' = Append(events, <<"resolved", answer.id>>)
          /\ wrong' = (wrong \/ (answer.meant # 0 /\ answer.meant # answer.id))
          /\ answer' = [answer EXCEPT !.phase = "remove"]
     ELSE answer' = NoAnswer /\ UNCHANGED <<pending, events, wrong>>
  /\ UNCHANGED <<asked, order, card, shown, moved, ignored, wire, commands, finals>>

(* ... and its number is given up and the user told.                       *)
RemoveApproval ==
  /\ answer.phase = "remove" /\ ~Busy("display")
  /\ Removed(answer.id) /\ answer' = NoAnswer
  /\ job' = [job EXCEPT !["handler"] = <<[kind |-> "text"]>>]
  /\ UNCHANGED <<asked, pending, events, card, shown, wrong, ignored, token, refused, nextToken,
                 send, overlap, gaveUp, commands, finals>>

-----------------------------------------------------------------------------
(* send_text_chunk, send_item: the token is read, the message sent, once   *)
(* more after a rate limit, and once more without token when it is refused.*)

Shows(p) ==
  shown' = IF Head(job[p]).kind = "card"
           THEN [n \in Numbers |-> IF n \in Head(job[p]).from..Len(Head(job[p]).list)
                                   THEN Head(job[p]).list[n] ELSE shown[n]]
           ELSE shown

ReadToken(p) ==
  /\ Busy(p) /\ send[p].phase = "idle"
  /\ send' = [send EXCEPT ![p] = [phase |-> "sending", token |-> token, tries |-> 0]]
  /\ UNCHANGED <<chat, token, refused, nextToken, job, overlap, gaveUp, commands, finals>>

Sent(p) ==
  /\ send[p].phase = "sending" /\ send[p].token \notin refused
  /\ Shows(p)
  /\ moved' = (moved \/ \E n \in Numbers : shown'[n] # shown[n] /\ ~(n \in DOMAIN order /\ order[n] = shown'[n]))
  /\ job' = [job EXCEPT ![p] = Tail(@)] /\ send' = [send EXCEPT ![p] = Idle]
  /\ UNCHANGED <<asked, pending, events, order, card, answer, wrong, ignored, token, refused,
                 nextToken, overlap, gaveUp, commands, finals>>

RateLimited(p) ==
  /\ send[p].phase = "sending" /\ send[p].tries = 0
  /\ send' = [send EXCEPT ![p].tries = 1]
  /\ UNCHANGED <<chat, token, refused, nextToken, job, overlap, gaveUp, commands, finals>>

(* The stored token is deleted, whichever it is by now.                    *)
Unretried(p) == [job EXCEPT ![p] = <<>>]
Retried(p) == job
TokenRefused(p) ==
  /\ send[p].phase = "sending" /\ send[p].token \in refused
  /\ overlap' = (overlap \/ (token # 0 /\ token # send[p].token))
  /\ token' = 0
  /\ job' = Retried(p)
  /\ gaveUp' = (gaveUp \/ job'[p] = <<>>)
  /\ send' = [send EXCEPT ![p] = [phase |-> IF job'[p] = <<>> THEN "idle" ELSE "sending",
                                  token |-> 0, tries |-> 0]]
  /\ UNCHANGED <<chat, refused, nextToken, commands, finals>>

(* Any other error: a medium is replaced by a line of text, a text ends    *)
(* the delivery.                                                           *)
SendFails(p) ==
  /\ send[p].phase = "sending"
  /\ job' = [job EXCEPT ![p] = IF Head(@).kind = "media" THEN <<[kind |-> "text"]>> \o Tail(@) ELSE <<>>]
  /\ send' = [send EXCEPT ![p] = Idle]
  /\ moved' = (moved \/ Head(job[p]).kind = "card")
  /\ UNCHANGED <<asked, pending, events, order, card, shown, answer, wrong, ignored, token, refused,
                 nextToken, overlap, gaveUp, commands, finals>>

TokenExpires ==
  \E t \in (1..(nextToken - 1)) \ refused :
    /\ refused' = refused \cup {t}
    /\ UNCHANGED <<chat, token, nextToken, job, send, overlap, gaveUp, commands, finals>>

Next ==
  \/ AskApproval \/ ResolvedElsewhere \/ FinalMessage \/ DisplayEvent
  \/ ListApprovals \/ WriteAnswer \/ HandleAnswer \/ SelectApproval \/ ResolveApproval
  \/ RemoveApproval \/ TokenExpires
  \/ \E p \in Actors : \/ ReadToken(p) \/ Sent(p) \/ RateLimited(p) \/ TokenRefused(p) \/ SendFails(p)

Spec == Init /\ [][Next]_vars

-----------------------------------------------------------------------------
(* "/approve n" resolves the approval that the chat showed under n when it *)
(* was written, as long as no approval was removed from the middle of the  *)
(* numbering, no list was shown in another order, no card was lost, and n  *)
(* was not given to a new approval whose card the user had not seen yet    *)
(* (all of these really make it decide the wrong one): whatever else is    *)
(* asked for, listed or resolved before the answer is written, while it    *)
(* waits, and between its lookup and its resolution.                       *)
AnswerMeansNumber == wrong => moved

(* A piece whose token is refused is sent again without one: the refusal   *)
(* alone never ends a delivery (WEIXIN.md: one retry without token).       *)
RefusalRetried == ~gaveUp

(* display.rs shows "Approval required n ... Reply with "/approve n"":     *)
(* the answer decides that approval. Violated: a removed approval shifts   *)
(* the numbers that are on the screen, and /approvals numbers by id while  *)
(* /approve looks in the order of arrival first.                           *)
AnswerMeansShown == ~wrong

(* The same card, for an approval of a subagent: the answer only looks at  *)
(* the approvals of the chat's own session, and decides nothing.           *)
ShownIsAnswerable == ~ignored

(* The token that is deleted is the one that was refused. Violated when a  *)
(* message stores a fresh token while a send with the old one is refused.  *)
RefusedTokenDeleted == ~overlap
=============================================================================
