--------------------------- MODULE WeixinPolling ---------------------------
(***************************************************************************)
(* The Weixin poller (noloong-agent-weixin/src/polling.rs): a sync buffer  *)
(* that is stored BEFORE the messages it stands for are handled, a memory  *)
(* of the message ids seen in the last five minutes, the retries of a      *)
(* failed poll, and the death and restart of the process.                  *)
(*                                                                         *)
(* Messages are numbered 1, 2, ... in the order iLink receives them, and a *)
(* sync buffer is the number of the last message it covers (0: empty).     *)
(***************************************************************************)
EXTENDS Naturals, FiniteSets, Sequences

CONSTANTS
  MaxMessages, \* bound: messages
  Unnamed,     \* messages without an id that carry one and the same text
  Silent,      \* messages with neither an id nor a text (attachments)
  Refused,     \* messages from_message ignores (bots, access, empty)
  Page,        \* external: messages iLink puts in one answer
  MaxDeaths    \* bound: deaths that are followed by a start

VARIABLES
  arrived,  \* messages iLink has received
  stored,   \* the sync buffer in the client state database
  syncBuf,  \* the poller's sync buffer
  pc,
  batch,    \* messages of the answer that are not yet looked at
  seen,     \* MessageDeduplicator: keys younger than the TTL
  failures, \* consecutive_failures, up to the 3 that lengthen the delay
  deaths,
  handled,  \* how often each message was given to the handler (counted to Twice)
  lapsed,   \* messages whose key aged out of `seen`, or was lost with a process
  dropped   \* messages of an answer that a process died before handling

vars == <<arrived, stored, syncBuf, pc, batch, seen, failures, deaths, handled, lapsed, dropped>>

Messages == 1..MaxMessages
Twice == 2
Counted(n) == IF n < Twice THEN n + 1 ELSE n

(* should_skip_message: the id, else a fingerprint of sender and text;     *)
(* 0 stands for the one fingerprint of the messages in Unnamed.            *)
OneKey(m) == 0
Key(m) == IF m \in Unnamed THEN 0 ELSE m

Init ==
  /\ arrived = 0 /\ stored = 0 /\ syncBuf = 0 /\ pc = "init" /\ batch = <<>> /\ seen = {}
  /\ failures = 0 /\ deaths = 0 /\ handled = [m \in Messages |-> 0]
  /\ lapsed = {} /\ dropped = {}

Arrive ==
  /\ arrived < MaxMessages
  /\ arrived' = arrived + 1
  /\ UNCHANGED <<stored, syncBuf, pc, batch, seen, failures, deaths, handled, lapsed, dropped>>

Initialize ==
  /\ pc = "init"
  /\ syncBuf' = stored /\ pc' = "poll"
  /\ UNCHANGED <<arrived, stored, batch, seen, failures, deaths, handled, lapsed, dropped>>

(* External: an answer covers up to Page messages after the buffer, and    *)
(* may repeat the message before them; it may come without a new buffer.   *)
Answers(from) == {a \in (1..arrived) \X (1..arrived) :
                    /\ a[1] \in {from, from + 1} /\ from < a[2]
                    /\ a[2] <= from + Page}

(* poll_once: the new buffer is taken and saved, then the messages are     *)
(* looked at one by one.                                                   *)
Buffer(from, new) == new
GetUpdates ==
  /\ pc = "poll"
  /\ \E a \in Answers(syncBuf) :
       /\ batch' = [i \in 1..(a[2] - a[1] + 1) |-> a[1] + i - 1]
       /\ syncBuf' \in {Buffer(syncBuf, a[2]), syncBuf}
       /\ pc' = IF syncBuf' = syncBuf THEN "batch" ELSE "save"
  /\ failures' = 0
  /\ UNCHANGED <<arrived, stored, seen, deaths, handled, lapsed, dropped>>

SaveSyncBuf ==
  /\ pc = "save"
  /\ stored' = syncBuf /\ pc' = "batch"
  /\ UNCHANGED <<arrived, syncBuf, batch, seen, failures, deaths, handled, lapsed, dropped>>

(* MessageDeduplicator::seen, then the handler, whose errors are logged.   *)
NeverSkips(m) == FALSE
Skips(m) == m \notin Silent /\ Key(m) \in seen
HandleMessage ==
  LET m == Head(batch) IN
  /\ pc = "batch" /\ batch # <<>>
  /\ batch' = Tail(batch)
  /\ seen' = IF m \in Silent THEN seen ELSE seen \cup {Key(m)}
  /\ handled' = IF Skips(m) \/ m \in Refused THEN handled ELSE [handled EXCEPT ![m] = Counted(@)]
  /\ UNCHANGED <<arrived, stored, syncBuf, pc, failures, deaths, lapsed, dropped>>

Polled ==
  /\ pc = "batch" /\ batch = <<>> /\ pc' = "poll"
  /\ UNCHANGED <<arrived, stored, syncBuf, batch, seen, failures, deaths, handled, lapsed, dropped>>

(* Every error of a poll is retried: an expired session after ten minutes, *)
(* a rate limit after two seconds, the rest with a growing delay.          *)
PollFails ==
  /\ pc = "poll" /\ pc' = "sleep"
  /\ failures' \in {failures, IF failures < 3 THEN failures + 1 ELSE 3}
  /\ UNCHANGED <<arrived, stored, syncBuf, batch, seen, deaths, handled, lapsed, dropped>>

WakeUp ==
  /\ pc = "sleep" /\ pc' = "poll"
  /\ UNCHANGED <<arrived, stored, syncBuf, batch, seen, failures, deaths, handled, lapsed, dropped>>

(* Five minutes pass for a key.                                            *)
Expire ==
  \E k \in seen :
    /\ seen' = seen \ {k}
    /\ lapsed' = lapsed \cup {m \in Messages : Key(m) = k}
    /\ UNCHANGED <<arrived, stored, syncBuf, pc, batch, failures, deaths, handled, dropped>>

(* save_sync_buf fails, the display task ends with an error (a lagging     *)
(* receiver is one), or the process is killed.                             *)
Death ==
  /\ pc # "down"
  /\ pc' = "down" /\ syncBuf' = 0 /\ batch' = <<>> /\ seen' = {} /\ failures' = 0
  /\ dropped' = dropped \cup {batch[i] : i \in DOMAIN batch}
  /\ lapsed' = Messages
  /\ \/ handled' = handled
     \/ pc = "batch" /\ batch # <<>> /\ handled' = [handled EXCEPT ![Head(batch)] = Counted(@)]
  /\ UNCHANGED <<arrived, stored, deaths>>

Restart ==
  /\ pc = "down" /\ deaths < MaxDeaths
  /\ deaths' = deaths + 1 /\ pc' = "init"
  /\ UNCHANGED <<arrived, stored, syncBuf, batch, seen, failures, handled, lapsed, dropped>>

Poller == Initialize \/ GetUpdates \/ SaveSyncBuf \/ HandleMessage \/ Polled \/ WakeUp

Next == Arrive \/ Poller \/ PollFails \/ Expire \/ Death \/ Restart

Spec == Init /\ [][Next]_vars

(* The executor runs the poller; requests and sleeps end, and iLink does   *)
(* not refuse every poll, nor withhold a new buffer for ever.              *)
FairSpec == Spec /\ WF_vars(Poller) /\ SF_vars(GetUpdates /\ syncBuf' # syncBuf)

-----------------------------------------------------------------------------
TypeOK ==
  /\ arrived \in 0..MaxMessages /\ stored \in 0..MaxMessages /\ syncBuf \in 0..MaxMessages
  /\ pc \in {"init", "poll", "save", "batch", "sleep", "down"}
  /\ batch \in Seq(Messages) /\ seen \subseteq 0..MaxMessages

(* A message that iLink repeats is handled once, as long as the poller     *)
(* still remembers it (should_skip_message). Attachments without an id     *)
(* are not remembered at all.                                              *)
RepeatHandledOnce == \A m \in Messages \ (Silent \cup lapsed) : handled[m] <= 1

(* A message that the sync buffer has passed was given to the handler,     *)
(* unless the process died with the answer in hand, access refused it, or  *)
(* it looked like an earlier one: a message without an id whose text was   *)
(* seen before.                                                            *)
PassedIsHandled ==
  \A m \in Messages \ (Unnamed \cup Refused \cup dropped) :
    (m <= syncBuf /\ pc \in {"poll", "sleep"}) => handled[m] > 0

(* A message reaches the handler, over any number of failed polls, unless  *)
(* the process stops.                                                      *)
MessagesHandled ==
  \A m \in Messages \ (Unnamed \cup Refused) :
    [](arrived >= m => <>(handled[m] > 0 \/ pc = "down" \/ m \in dropped))

(* WEIXIN.md: a message the user sends is an input of the agent. Violated  *)
(* by the fingerprint (the same text twice within five minutes) and by the *)
(* order of save_sync_buf and the handlers.                                *)
EveryMessageHandled ==
  \A m \in Messages \ Refused : (m <= syncBuf /\ pc \in {"poll", "sleep"}) => handled[m] > 0
=============================================================================
