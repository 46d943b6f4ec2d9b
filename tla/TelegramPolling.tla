-------------------------- MODULE TelegramPolling --------------------------
(***************************************************************************)
(* The Telegram poller (noloong-agent-telegram/src/polling.rs) and the     *)
(* process around it (src/telegram_cli.rs): getUpdates with an offset that *)
(* lives in memory and in the client state database, one handler call per  *)
(* update, the retries of a failed poll, and the death and restart of the  *)
(* process.                                                                *)
(*                                                                         *)
(* Updates are numbered 1, 2, ... in the order Telegram receives them. An  *)
(* offset n asks for the updates from n on and tells Telegram to forget    *)
(* the earlier ones; 0 stands for no offset.                               *)
(***************************************************************************)
EXTENDS Naturals, FiniteSets

CONSTANTS
  MaxUpdates,   \* bound: updates
  Unsupported,  \* the updates is_supported_update refuses
  Page,         \* external: updates Telegram puts in one answer
  SkipPending,  \* startupUpdatePolicy = skip_pending_without_offset
  MaxConflicts, \* conflicts in a row that are retried (3 in the code)
  MaxNetworks,  \* network errors in a row that are retried (10 in the code)
  MaxDeaths     \* bound: deaths of the process that are followed by a start

ASSUME BoundsAssumption == MaxUpdates \in Nat /\ Page \in Nat

VARIABLES
  arrived,    \* updates Telegram has received
  confirmed,  \* updates Telegram has forgotten
  stored,     \* the offset in the client state database
  offset,     \* the poller's offset
  pc,
  batch,      \* [next, last]: the updates of the answer that are not yet handled
  conflicts, networks,
  deaths,
  handled,    \* how often each update was given to the handler
  skipped,    \* updates passed over by skip_pending_updates
  pendingAtStart \* updates that had arrived at the first start

vars == <<arrived, confirmed, stored, offset, pc, batch, conflicts, networks,
          deaths, handled, skipped, pendingAtStart>>

Updates == 1..MaxUpdates
Lower(a, b) == IF a < b THEN a ELSE b
Upper(a, b) == IF a < b THEN b ELSE a
NoBatch == [next |-> 1, last |-> 0]

Init ==
  /\ arrived \in 0..MaxUpdates /\ pendingAtStart = arrived
  /\ confirmed = 0 /\ stored = 0 /\ offset = 0 /\ pc = "init" /\ batch = NoBatch
  /\ conflicts = 0 /\ networks = 0 /\ deaths = 0
  /\ handled = [u \in Updates |-> 0] /\ skipped = {}

Arrive ==
  /\ arrived < MaxUpdates
  /\ arrived' = arrived + 1
  /\ UNCHANGED <<confirmed, stored, offset, pc, batch, conflicts, networks, deaths,
                 handled, skipped, pendingAtStart>>

(* External: what getUpdates(o) answers, and what Telegram forgets by it.  *)
Forgets(o) == Upper(confirmed, IF o = 0 THEN 0 ELSE o - 1)
Answer(o) == [next |-> Forgets(o) + 1, last |-> Lower(arrived, Forgets(o) + Page)]

(* The process ends: an error leaves run_polling_loop, the display task    *)
(* ends, or it is killed. What it had not saved is gone.                   *)
Dies ==
  /\ pc' = "down" /\ offset' = 0 /\ batch' = NoBatch /\ conflicts' = 0 /\ networks' = 0

-----------------------------------------------------------------------------
(* initialize, skip_pending_updates.                                       *)

Initialize ==
  /\ pc = "init"
  /\ IF stored # 0
     THEN offset' = stored /\ pc' = "poll" /\ UNCHANGED <<confirmed, batch>>
     ELSE IF SkipPending
     THEN /\ confirmed' = Forgets(0) /\ batch' = Answer(0)
          /\ pc' = IF Answer(0).last < Answer(0).next THEN "poll" ELSE "skip"
          /\ offset' = offset
     ELSE pc' = "poll" /\ UNCHANGED <<offset, confirmed, batch>>
  /\ UNCHANGED <<arrived, stored, conflicts, networks, deaths, handled, skipped,
                 pendingAtStart>>

(* save_offset after skip_pending_updates.                                 *)
SavesSkip ==
  /\ pc = "skip"
  /\ stored' = batch.last + 1 /\ offset' = batch.last + 1
  /\ skipped' = skipped \cup (batch.next..batch.last)
  /\ pc' = "poll" /\ batch' = NoBatch
  /\ UNCHANGED <<arrived, confirmed, conflicts, networks, deaths, handled, pendingAtStart>>

-----------------------------------------------------------------------------
(* poll_once: an answer resets the retries.                                *)

PollOnce ==
  /\ pc = "poll"
  /\ confirmed' = Forgets(offset) /\ batch' = Answer(offset)
  /\ Answer(offset).next <= Answer(offset).last  \* an empty long poll changes nothing
  /\ conflicts' = 0 /\ networks' = 0 /\ pc' = "batch"
  /\ UNCHANGED <<arrived, stored, offset, deaths, handled, skipped, pendingAtStart>>

EmptyPoll ==
  /\ pc = "poll" /\ Answer(offset).last < Answer(offset).next
  /\ conflicts + networks > 0 \/ confirmed # Forgets(offset)
  /\ conflicts' = 0 /\ networks' = 0 /\ confirmed' = Forgets(offset)
  /\ UNCHANGED <<arrived, stored, offset, pc, batch, deaths, handled, skipped, pendingAtStart>>

(* The handler is awaited; whether it fails or not, the update counts as   *)
(* handled and the poller's offset moves past it.                          *)
OffsetAfter(u) == u + 1
HandleUpdate ==
  /\ pc = "batch"
  /\ handled' = IF batch.next \in Unsupported THEN handled
                ELSE [handled EXCEPT ![batch.next] = @ + 1]
  /\ offset' = OffsetAfter(batch.next)
  /\ batch' = [batch EXCEPT !.next = @ + 1]
  /\ pc' = IF batch.next = batch.last THEN "save" ELSE "batch"
  /\ UNCHANGED <<arrived, confirmed, stored, conflicts, networks, deaths, skipped,
                 pendingAtStart>>

(* save_offset, once the whole answer is handled.                          *)
SavesNext == batch.last + 2
SavesLast == batch.last
SavedOffset == batch.last + 1
SaveOffset ==
  /\ pc = "save"
  /\ stored' = SavedOffset /\ offset' = SavedOffset
  /\ pc' = "poll" /\ batch' = NoBatch
  /\ UNCHANGED <<arrived, confirmed, conflicts, networks, deaths, handled, skipped,
                 pendingAtStart>>

(* A poll that fails: a delay Telegram asked for, a conflict with another  *)
(* poller, a network error; anything else is fatal (see Death).            *)
RetryAfter ==
  /\ pc = "poll" /\ pc' = "sleep"
  /\ UNCHANGED <<arrived, confirmed, stored, offset, batch, conflicts, networks, deaths,
                 handled, skipped, pendingAtStart>>

Conflict ==
  /\ pc = "poll"
  /\ IF conflicts + 1 > MaxConflicts
     THEN Dies
     ELSE conflicts' = conflicts + 1 /\ pc' = "sleep" /\ UNCHANGED <<offset, batch, networks>>
  /\ UNCHANGED <<arrived, confirmed, stored, deaths, handled, skipped, pendingAtStart>>

NetworkError ==
  /\ pc = "poll"
  /\ IF networks + 1 > MaxNetworks
     THEN Dies
     ELSE networks' = networks + 1 /\ pc' = "sleep" /\ UNCHANGED <<offset, batch, conflicts>>
  /\ UNCHANGED <<arrived, confirmed, stored, deaths, handled, skipped, pendingAtStart>>

WakeUp ==
  /\ pc = "sleep" /\ pc' = "poll"
  /\ UNCHANGED <<arrived, confirmed, stored, offset, batch, conflicts, networks, deaths,
                 handled, skipped, pendingAtStart>>

(* Any await may be the last: a store or API error ends the loop, the      *)
(* process is killed. An update being handled may have taken effect.       *)
Death ==
  /\ pc # "down"
  /\ Dies
  /\ \/ handled' = handled
     \/ /\ pc = "batch" /\ batch.next \notin Unsupported
        /\ handled' = [handled EXCEPT ![batch.next] = @ + 1]
  /\ UNCHANGED <<arrived, confirmed, stored, deaths, skipped, pendingAtStart>>

Restart ==
  /\ pc = "down" /\ deaths < MaxDeaths
  /\ deaths' = deaths + 1 /\ pc' = "init"
  /\ UNCHANGED <<arrived, confirmed, stored, offset, batch, conflicts, networks,
                 handled, skipped, pendingAtStart>>

Poller == Initialize \/ SavesSkip \/ PollOnce \/ EmptyPoll \/ HandleUpdate \/ SaveOffset \/ WakeUp

Next == Arrive \/ Poller \/ RetryAfter \/ Conflict \/ NetworkError \/ Death \/ Restart

Spec == Init /\ [][Next]_vars

(* The executor runs the poller, handlers and sleeps end (every request a  *)
(* handler makes has a timeout), and Telegram does not refuse every poll.  *)
FairSpec == Spec /\ WF_vars(Poller) /\ SF_vars(PollOnce)

-----------------------------------------------------------------------------
(* The state is well typed.                                                *)
TypeOK ==
  /\ arrived \in 0..MaxUpdates /\ confirmed \in Nat /\ stored \in Nat /\ offset \in Nat
  /\ pc \in {"init", "skip", "poll", "batch", "save", "sleep", "down"}
  /\ batch \in [next : Nat, last : Nat]
  /\ deaths \in Nat /\ handled \in [Updates -> Nat]

(* Every update goes to the handler, except those passed over at a start   *)
(* without a stored offset: Telegram forgets an update, and a stored       *)
(* offset passes it, only after that. (poll_once saves the offset when the *)
(* whole answer is handled, and asks with it only then.)                   *)
Settled(u) == handled[u] > 0 \/ u \in Unsupported \/ u \in skipped
NoUpdateLost == \A u \in Updates : (u <= confirmed \/ u < stored) => Settled(u)

(* A process gives an update to the handler once; an update is handled     *)
(* again only because a process died before it saved its offset.           *)
HandledOncePerLife == \A u \in Updates : handled[u] <= deaths + 1

(* An update that has arrived is handled in the end, over any number of    *)
(* failed polls, unless the process stops.                                 *)
UpdatesHandled ==
  \A u \in Updates : [](arrived >= u => <>(Settled(u) \/ pc = "down"))

(* "the bridge consumes pending updates and starts from new messages": no  *)
(* update that was waiting at the first start goes to the handler.         *)
StartsFromNew == \A u \in 1..pendingAtStart : handled[u] = 0
=============================================================================
