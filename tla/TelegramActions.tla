-------------------------- MODULE TelegramActions --------------------------
(***************************************************************************)
(* The buttons of the Telegram cockpit (src/telegram_cli.rs, the commands  *)
(* and handle_session_callback; session.rs and callback.rs of              *)
(* noloong-agent-telegram): a command sends a card with buttons, the store *)
(* keeps under a short key what each will do, a press takes the entry out, *)
(* performs it and edits the card, often to ask for a confirmation.        *)
(*                                                                         *)
(* Cards outlive the process; the store and its key counter do not. An     *)
(* update whose handling was cut short is delivered again after a restart. *)
(***************************************************************************)
EXTENDS Naturals, FiniteSets

CONSTANTS
  Commands,    \* the commands used, a subset of DOMAIN Offers
  MaxEntries,  \* entries of the store (1024 in the code)
  MaxKeys,     \* bound: keys of one process
  MaxPresses,  \* bound: presses
  MaxRestarts  \* bound: restarts

VARIABLES
  nextId,   \* ShortCallbackStore.next_id
  entries,  \* the store: a set of [key, kind, born]
  buttons,  \* buttons in the chat: a set of [key, label, born]
  handler,  \* [pc, button, entry]
  again,    \* presses that will be delivered again
  presses, lives, born,
  done      \* what was performed: a set of [label, kind, born, times]

vars == <<nextId, entries, buttons, handler, again, presses, lives, born, done>>

(* The buttons of each command's card ...                                  *)
Offers ==
  [sessions |-> {"switch_session", "request_delete"}, profiles |-> {"select_profile"},
   abort |-> {"confirm_abort"}, queue |-> {"clear_queue", "set_queue_mode"},
   processes |-> {"open_process"}, process |-> {"confirm_write"},
   manifest |-> {"approve_proposal"}]

(* ... and those its card shows when a button has been pressed.            *)
FollowUps(kind) ==
  CASE kind = "request_delete" -> {"confirm_delete"}
    [] kind \in {"open_process", "read_process"} ->
         {"read_process", "wait_process", "request_terminate"}
    [] kind = "request_terminate" -> {"confirm_terminate"}
    [] kind = "approve_proposal" -> {"request_apply"}
    [] kind = "request_apply" -> {"confirm_apply"}
    [] OTHER -> {}

CommandsAssumption == Commands \subseteq DOMAIN Offers

(* Buttons that change something beyond the card.                          *)
Effects == {"switch_session", "select_profile", "clear_queue", "set_queue_mode",
            "confirm_delete", "confirm_abort", "confirm_terminate", "confirm_write",
            "approve_proposal", "confirm_apply"}

NoEntry == [key |-> 0, kind |-> "none", born |-> 0]
NoButton == [key |-> 0, label |-> "none", born |-> 0]
IdleHandler == [pc |-> "idle", button |-> NoButton, entry |-> NoEntry]

Init ==
  /\ nextId = 0 /\ entries = {} /\ buttons = {} /\ handler = IdleHandler
  /\ again = {} /\ presses = 0 /\ lives = 1 /\ born = 0 /\ done = {}

-----------------------------------------------------------------------------
(* ShortCallbackStore.                                                     *)

(* sweep_overflow: the oldest entries go.                                  *)
Newest(es) == {e \in es : Cardinality({f \in es : f.born > e.born}) < MaxEntries}

(* One new button for each kind, numbered in some order.                   *)
Numbered(kinds) ==
  CHOOSE f \in [kinds -> 1..Cardinality(kinds)] :
    \A a, b \in kinds : a # b => f[a] # f[b]

Shows(kinds) ==
  /\ nextId + Cardinality(kinds) <= MaxKeys
  /\ nextId' = nextId + Cardinality(kinds) /\ born' = born + Cardinality(kinds)
  /\ entries' = Newest(entries \cup
       {[key |-> nextId + Numbered(kinds)[k], kind |-> k, born |-> born + Numbered(kinds)[k]]
          : k \in kinds})

Labelled(kinds) ==
  {[key |-> nextId + Numbered(kinds)[k], label |-> k, born |-> born + Numbered(kinds)[k]]
     : k \in kinds}

(* sweep_expired: after 15 minutes.                                        *)
Expire(e) ==
  /\ entries' = entries \ {e}
  /\ UNCHANGED <<nextId, buttons, handler, again, presses, lives, born, done>>

-----------------------------------------------------------------------------
(* handle_command: the card of a command.                                  *)

Command(c) ==
  /\ handler.pc = "idle"
  /\ Shows(Offers[c]) /\ buttons' = buttons \cup Labelled(Offers[c])
  /\ UNCHANGED <<handler, again, presses, lives, done>>

(* handle_callback, handle_session_callback: the entry is taken out of the *)
(* store before anything is done.                                          *)
KeepsEntry(e) == entries
Resolve(e) == entries \ {e}

Takes(b) ==
  LET found == {e \in entries : e.key = b.key} IN
  IF found = {} THEN handler' = IdleHandler /\ UNCHANGED entries  \* "Action expired"
  ELSE \E e \in found :
         /\ handler' = [pc |-> "perform", button |-> b, entry |-> e]
         /\ entries' = Resolve(e)

Press(b) ==
  /\ handler.pc = "idle" /\ presses < MaxPresses
  /\ presses' = presses + 1
  /\ Takes(b)
  /\ UNCHANGED <<nextId, buttons, again, lives, born, done>>

PressAgain(b) ==
  /\ handler.pc = "idle"
  /\ again' = again \ {b}
  /\ Takes(b)
  /\ UNCHANGED <<nextId, buttons, presses, lives, born, done>>

(* The request to the control plane; if it fails the handler stops here.   *)
Times(e) == LET old == {d \in done : d.born = e.born} IN
            IF old = {} THEN 0 ELSE (CHOOSE d \in old : TRUE).times
Performed(b, e) ==
  IF e.kind \in Effects
  THEN {d \in done : d.born # e.born} \cup
       {[label |-> b.label, kind |-> e.kind, born |-> e.born, times |-> Times(e) + 1]}
  ELSE done

Perform ==
  /\ handler.pc = "perform"
  /\ done' = Performed(handler.button, handler.entry)
  /\ handler' = [handler EXCEPT !.pc = "edit"]
  /\ UNCHANGED <<nextId, entries, buttons, again, presses, lives, born>>

RequestFails ==
  /\ handler.pc = "perform" /\ handler' = IdleHandler
  /\ UNCHANGED <<nextId, entries, buttons, again, presses, lives, born, done>>

(* The card is edited: its buttons are replaced. The new entries are in    *)
(* the store before the edit is tried.                                     *)
EditCard ==
  /\ handler.pc = "edit"
  /\ LET kinds == FollowUps(handler.entry.kind) IN
     /\ Shows(kinds)
     /\ \/ buttons' = (buttons \ {handler.button}) \cup Labelled(kinds)
        \/ buttons' = buttons
  /\ handler' = IdleHandler
  /\ UNCHANGED <<again, presses, lives, done>>

(* The process stops and a new one starts with an empty store.             *)
Restart ==
  /\ lives <= MaxRestarts
  /\ lives' = lives + 1
  /\ nextId' = 0 /\ entries' = {} /\ handler' = IdleHandler
  /\ again' = IF handler.pc = "idle" THEN again ELSE again \cup {handler.button}
  /\ UNCHANGED <<buttons, presses, born, done>>

Next ==
  \/ \E c \in Commands : Command(c)
  \/ \E e \in entries : Expire(e)
  \/ \E b \in buttons : Press(b)
  \/ \E b \in again : PressAgain(b)
  \/ Perform \/ RequestFails \/ EditCard \/ Restart

Spec == Init /\ [][Next]_vars

-----------------------------------------------------------------------------
(* What a button stands for is done at most once, however often it is      *)
(* pressed and although a press may be delivered again after a restart.    *)
DoneOnce == \A d \in done : d.times = 1

(* A press does what the button says: "aborting a running session uses an  *)
(* inline confirmation button".                                            *)
PressMeansLabel == \A d \in done : d.kind = d.label
=============================================================================
