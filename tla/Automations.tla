---------------------------- MODULE Automations ----------------------------
(***************************************************************************)
(* Automations of the session registry (interaction/registry.rs and        *)
(* automation.rs): the runner that scans the schedule and fires what is    *)
(* due, the firing of one automation, and the calls of a client that       *)
(* create, change, delete and fire one.  The records are kept by the       *)
(* object store (store/object.rs), which writes a schedule entry beside    *)
(* each record: two writes that may be interrupted, fail or interleave.    *)
(*                                                                         *)
(* Time is a counter of ticks.  What an automation does to its session is  *)
(* reduced to whether the session exists and whether the delivery ends     *)
(* well.                                                                   *)
(***************************************************************************)
EXTENDS Naturals, FiniteSets

CONSTANTS
  Ids,         \* automations
  Edited,      \* the ones that clients change or fire, and whose delivery may fail
  Kinds,       \* schedules in use: "once" (at tick 1), "interval" (one tick)
  Retry,       \* ticks until a failed delivery of a "once" is tried again
  Permits,     \* automation_runner_max_concurrency
  MaxTime,     \* bound: ticks
  MaxEdits,    \* bound: client calls
  MaxFaults    \* bound: errors of the store and restarts of the process

ASSUME TimeAssumption == Retry \in Nat
ASSUME EditedAssumption == Edited \subseteq Ids

VARIABLES
  now,
  stored,    \* stored[a]: the automation's record, or None
  entry,     \* entry[a]: next firing in the schedule entry, NoTime if absent
  firing,    \* firing_automations: the reservations
  fire,      \* fire[a]: the firing that holds the reservation
  runner,    \* automation_runner_loop
  client,    \* one caller of the control plane
  edits, errors, crashes,
  bound,     \* how many edits and faults this behaviour may have
  made,      \* made[a]: sessions created for the automation
  armed,     \* armed[a]: writes of a client that made active what it had read as inactive
  revived,   \* revived[a]: writes of a client that put back Active, read before a firing
             \* stored that the automation is completed
  delivered, \* delivered[a]: triggered deliveries of a "once" that ended well
  torn,      \* torn[a]: the two writes of a change were cut or interleaved
  lost       \* lost[a]: a change of the record was lost or overlapped by another

vars == <<now, stored, entry, firing, fire, runner, client, edits, errors, crashes, bound,
          made, armed, revived, delivered, torn, lost>>
ghosts == <<made, armed, revived, delivered>>
counters == <<edits, errors, crashes, bound>>

NoTime == 0
None == [status |-> "none", kind |-> "none", next |-> NoTime, target |-> FALSE]
IdleFire == [pc |-> "idle", mode |-> "none", rec |-> None, prev |-> None]
IdleClient == [pc |-> "idle", id |-> "none", rec |-> None, read |-> "none", prev |-> None]
Asleep == [pc |-> "wait", todo |-> {}, due |-> {}, id |-> "none", fix |-> NoTime]

NextFireAfterCreate(kind, at) == IF kind = "once" THEN 1 ELSE at + 1

(* AutomationRecord::new, mark_updated                                     *)
Created(kind, at) == [status |-> "active", kind |-> kind, target |-> FALSE,
                      next |-> NextFireAfterCreate(kind, at)]

(* A process starts on what an earlier one has stored.  To keep the state  *)
(* space small, behaviours with edits and faults have the edited           *)
(* automations only.                                                       *)
Init ==
  /\ now = 0
  /\ stored \in [Ids -> {None} \cup {Created(kind, 0) : kind \in Kinds}]
  /\ bound \in {[edits |-> MaxEdits, faults |-> MaxFaults], [edits |-> 0, faults |-> 0]}
  /\ bound.edits > 0 => \A a \in Ids \ Edited : stored[a] = None
  /\ entry = [a \in Ids |-> stored[a].next]
  /\ firing = {} /\ fire = [a \in Ids |-> IdleFire]
  /\ runner = [Asleep EXCEPT !.pc = "scan"] /\ client = IdleClient
  /\ edits = 0 /\ errors = 0 /\ crashes = 0
  /\ made = [a \in Ids |-> 0] /\ armed = [a \in Ids |-> IF stored[a] = None THEN 0 ELSE 1]
  /\ revived = [a \in Ids |-> 0] /\ delivered = [a \in Ids |-> 0] /\ torn = [a \in Ids |-> FALSE]
  /\ lost = [a \in Ids |-> FALSE]

-----------------------------------------------------------------------------
(* AutomationTimeSchedule.                                                 *)

AfterFireStays(kind) == [status |-> "active", next |-> now + 1]
AfterFire(kind) ==
  IF kind = "once" THEN [status |-> "completed", next |-> NoTime]
  ELSE [status |-> "active", next |-> now + 1]

RetryAfterFailure(kind) ==
  IF AfterFire(kind).next # NoTime THEN AfterFire(kind).next ELSE now + Retry

Scheduled(rec) == rec.status = "active" /\ rec.next # NoTime

-----------------------------------------------------------------------------
(* Writes of the object store.                                             *)

(* Who stands between the two writes of a change of a, or between reading  *)
(* it and repairing its entry.                                             *)
Between(a) ==
  {u \in {"fire", "client", "runner"} :
     \/ u = "fire" /\ fire[a].pc = "record"
     \/ u = "client" /\ client.id = a /\ client.pc \in {"record", "unschedule"}
     \/ u = "runner" /\ runner.id = a /\ runner.pc = "repair"}

(* A read-modify-write of the record that another one overlaps.            *)
Overlapped(a, me) ==
  \/ me = "client" /\ fire[a].pc \in {"deliver", "index", "record"}
  \/ me = "fire" /\ client.id = a

Loses(a, when) == lost' = [lost EXCEPT ![a] = @ \/ when]

Writes(a, me) == torn' = [torn EXCEPT ![a] = @ \/ Between(a) \ {me} # {}]

(* save_automation_schedule_index                                          *)
ScheduleEntry(rec) == IF Scheduled(rec) THEN rec.next ELSE NoTime

(* What insert_automation and save_automation leave of the entry when the  *)
(* record cannot be written.                                               *)
EntryKept(current, prev) == current
EntryAfterError(current, prev) == ScheduleEntry(prev)

WriteRecord(a, rec) == stored' = [stored EXCEPT ![a] = rec]

(* What the write of a client does to the status, given the one it read.   *)
CountsArming(a, rec, read) ==
  LET activates == rec.status = "active" /\ stored[a].status # "active" IN
  /\ armed' = [armed EXCEPT ![a] = IF activates /\ read # "active" THEN @ + 1 ELSE @]
  /\ revived' = [revived EXCEPT ![a] = IF activates /\ read = "active" THEN @ + 1 ELSE @]

MayFail == errors + crashes < bound.faults
Fails == MayFail /\ errors' = errors + 1

(* automation_changes.notify_waiters: wakes the runner if it waits.        *)
Notified == IF runner.pc = "wait" THEN [runner EXCEPT !.pc = "scan"] ELSE runner

-----------------------------------------------------------------------------
(* Firing one automation: fire_automation_with_reservation.                *)

(* The firing ends: reservation and permit are dropped.                    *)
EndFire(a) ==
  /\ firing' = firing \ {a}
  /\ fire' = [fire EXCEPT ![a] = IdleFire]
  /\ runner' = Notified

PermitsFree == Permits - Cardinality({a \in Ids : fire[a].mode = "triggered"})

StartFire(a, mode) ==
  /\ firing' = firing \cup {a}
  /\ fire' = [fire EXCEPT ![a] = [IdleFire EXCEPT !.pc = "read", !.mode = mode]]

(* fire_automation: a client's request; the schedule is left alone.        *)
FireManual(a) ==
  /\ a \notin firing /\ edits < bound.edits
  /\ edits' = edits + 1
  /\ StartFire(a, "manual")
  /\ UNCHANGED <<now, stored, entry, runner, client, errors, crashes, bound, ghosts, torn, lost>>

FiresAnyStatus(rec) == rec # None
Fires(rec) == rec.status = "active"

ReadAutomation(a) ==
  /\ fire[a].pc = "read"
  /\ \/ /\ Fires(stored[a])
        /\ fire' = [fire EXCEPT ![a].pc = "deliver", ![a].rec = stored[a]]
        /\ UNCHANGED <<firing, runner>>
     \/ ~Fires(stored[a]) /\ EndFire(a)
  /\ UNCHANGED <<now, stored, entry, client, counters, ghosts, torn, lost>>

(* The record as the firing will save it.  A session that was created      *)
(* stays the target when the delivery fails after that.                    *)
AfterDeliveryForgets(rec, mode, ok, target) ==
  LET after == AfterFire(rec.kind)
  IN IF ok THEN IF mode = "manual" THEN [rec EXCEPT !.target = target]
                ELSE [rec EXCEPT !.target = target, !.status = after.status, !.next = after.next]
     ELSE IF mode = "manual" THEN rec
     ELSE [rec EXCEPT !.next = RetryAfterFailure(rec.kind)]
AfterDelivery(rec, mode, ok, target) ==
  LET after == AfterFire(rec.kind)
      kept == [rec EXCEPT !.target = target]
  IN IF mode = "manual" THEN kept
     ELSE IF ok THEN [kept EXCEPT !.status = after.status, !.next = after.next]
     ELSE [kept EXCEPT !.next = RetryAfterFailure(rec.kind)]

(* deliver_automation, automation_target_session: a session that does not  *)
(* exist is created first; creation or the run that follows may fail.      *)
Deliver(a, ok, created) ==
  LET tk == fire[a]
      target == tk.rec.target \/ created
  IN /\ tk.pc = "deliver"
     /\ created => ~tk.rec.target
     /\ ok => target
     /\ ok \/ a \in Edited
     /\ fire' = [fire EXCEPT ![a].pc = "index",
                             ![a].rec = AfterDelivery(tk.rec, tk.mode, ok, target)]
     /\ made' = [made EXCEPT ![a] = IF created THEN @ + 1 ELSE @]
     /\ delivered' = [delivered EXCEPT ![a] =
          IF ok /\ tk.mode = "triggered" /\ tk.rec.kind = "once" THEN @ + 1 ELSE @]
     /\ UNCHANGED <<now, stored, entry, firing, runner, client, counters, armed, revived, torn,
                    lost>>

(* save_automation, first write: refuses a record that is gone.            *)
SaveFiredEntry(a) ==
  /\ fire[a].pc = "index"
  /\ \/ /\ stored[a] # None
        /\ entry' = [entry EXCEPT ![a] = ScheduleEntry(fire[a].rec)]
        /\ fire' = [fire EXCEPT ![a].pc = "record", ![a].prev = stored[a]]
        /\ Writes(a, "fire")
        /\ UNCHANGED <<firing, runner, errors, lost>>
     \/ /\ stored[a] = None \/ MayFail
        /\ errors' = IF stored[a] = None THEN errors ELSE errors + 1
        /\ EndFire(a) /\ Loses(a, TRUE)
        /\ UNCHANGED <<entry, torn>>
  /\ UNCHANGED <<now, stored, client, edits, crashes, bound, ghosts>>

(* Second write; when it fails the previous entry is written again.        *)
SaveFiredRecord(a) ==
  /\ fire[a].pc = "record"
  /\ \/ /\ WriteRecord(a, fire[a].rec)
        /\ Loses(a, Overlapped(a, "fire")) /\ UNCHANGED <<entry, errors>>
     \/ /\ Fails /\ Loses(a, TRUE)
        /\ entry' = [entry EXCEPT ![a] = EntryAfterError(@, fire[a].prev)]
        /\ UNCHANGED stored
  /\ EndFire(a)
  /\ Writes(a, "fire")
  /\ UNCHANGED <<now, client, edits, crashes, bound, ghosts>>

-----------------------------------------------------------------------------
(* automation_runner_loop.                                                 *)

BeginScan ==
  /\ runner.pc = "scan" /\ runner.todo = {} /\ runner.id = "none"
  /\ LET found == {a \in Ids : entry[a] # NoTime}
     IN runner' = IF found = {} THEN Asleep
                  ELSE [Asleep EXCEPT !.pc = "look", !.todo = found]
  /\ UNCHANGED <<now, stored, entry, firing, fire, client, counters, ghosts, torn, lost>>

(* After the last entry the due automations are dispatched.                *)
AfterLook(todo, due) ==
  IF todo # {} THEN [Asleep EXCEPT !.pc = "look", !.todo = todo, !.due = due]
  ELSE IF due # {} THEN [Asleep EXCEPT !.pc = "dispatch", !.due = due]
  ELSE Asleep

DueAt(rec) == Scheduled(rec) /\ rec.next <= now
DueWith(a) == IF DueAt(stored[a]) THEN runner.due \cup {a} ELSE runner.due

(* scan_automation_schedule: the record behind an entry is read; an entry  *)
(* without a scheduled record is removed, one that differs written again.  *)
LookAtEntry(a) ==
  /\ runner.pc = "look" /\ a \in runner.todo
  /\ runner' = IF entry[a] = ScheduleEntry(stored[a])
               THEN AfterLook(runner.todo \ {a}, DueWith(a))
               ELSE [runner EXCEPT !.pc = "repair", !.id = a, !.todo = @ \ {a},
                                   !.due = DueWith(a), !.fix = ScheduleEntry(stored[a])]
  /\ UNCHANGED <<now, stored, entry, firing, fire, client, counters, ghosts, torn, lost>>

(* A store error ends the scan; it is made again after a second.           *)
RepairEntry ==
  /\ runner.pc = "repair"
  /\ \/ /\ entry' = [entry EXCEPT ![runner.id] = runner.fix]
        /\ runner' = AfterLook(runner.todo, runner.due)
        /\ Writes(runner.id, "runner") /\ UNCHANGED errors
     \/ Fails /\ runner' = Asleep /\ UNCHANGED <<entry, torn>>
  /\ UNCHANGED <<now, stored, firing, fire, client, edits, crashes, bound, ghosts, lost>>

(* The due automations in turn: no permit ends the loop, a reservation     *)
(* held by another firing skips one and gives the permit back.             *)
Dispatch(a) ==
  /\ runner.pc = "dispatch" /\ a \in runner.due
  /\ \/ /\ PermitsFree = 0
        /\ runner' = Asleep /\ UNCHANGED <<firing, fire>>
     \/ /\ PermitsFree > 0 /\ a \in firing
        /\ runner' = AfterLook({}, runner.due \ {a}) /\ UNCHANGED <<firing, fire>>
     \/ /\ PermitsFree > 0 /\ a \notin firing
        /\ StartFire(a, "triggered")
        /\ runner' = AfterLook({}, runner.due \ {a})
  /\ UNCHANGED <<now, stored, entry, client, counters, ghosts, torn, lost>>

(* The sleep until the next firing, a minute at most, ends.                *)
SleepsForever == FALSE
SleepEnds == runner.pc = "wait"
RunnerWakes ==
  /\ SleepEnds
  /\ runner' = [runner EXCEPT !.pc = "scan"]
  /\ UNCHANGED <<now, stored, entry, firing, fire, client, counters, ghosts, torn, lost>>

-----------------------------------------------------------------------------
(* The client's calls.                                                     *)

BeginEdit(pc, a, rec) ==
  /\ client = IdleClient /\ edits < bound.edits
  /\ edits' = edits + 1
  /\ client' = [pc |-> pc, id |-> a, rec |-> rec, read |-> stored[a].status, prev |-> stored[a]]
  /\ UNCHANGED <<now, stored, entry, firing, fire, runner, errors, crashes, bound, ghosts, torn, lost>>

CreateAutomation(a, kind) ==
  /\ stored[a] = None
  /\ BeginEdit("index", a, Created(kind, now))

(* update_automation: another status or the one that was read, a trigger   *)
(* set anew (of the same kind) or not; an active record without a next     *)
(* firing gets one.                                                        *)
Updated(rec, status, trigger) ==
  [rec EXCEPT !.status = status,
     !.next = IF trigger \/ (status = "active" /\ @ = NoTime)
              THEN NextFireAfterCreate(rec.kind, now) ELSE @]

UpdateAutomation(a, status, trigger) ==
  /\ stored[a] # None
  /\ BeginEdit("index", a, Updated(stored[a], status, trigger))

DeleteAutomation(a) == stored[a] # None /\ BeginEdit("delete", a, None)

EndEdit ==
  /\ client' = IdleClient
  /\ runner' = Notified

WriteEntry ==
  /\ client.pc = "index"
  /\ \/ /\ client.prev = None \/ stored[client.id] # None
        /\ entry' = [entry EXCEPT ![client.id] = ScheduleEntry(client.rec)]
        /\ client' = [client EXCEPT !.pc = "record", !.prev = stored[client.id]]
        /\ Writes(client.id, "client") /\ UNCHANGED <<runner, errors>>
     \/ /\ Fails
        /\ client' = IdleClient
        /\ UNCHANGED <<runner, entry, torn>>
  /\ UNCHANGED <<now, stored, firing, fire, edits, crashes, bound, ghosts, lost>>

WriteClientRecord ==
  /\ client.pc = "record"
  /\ Writes(client.id, "client")
  /\ \/ /\ WriteRecord(client.id, client.rec) /\ EndEdit
        /\ CountsArming(client.id, client.rec, client.read)
        /\ Loses(client.id, Overlapped(client.id, "client"))
        /\ UNCHANGED <<entry, errors>>
     \/ /\ Fails /\ UNCHANGED lost
        /\ entry' = [entry EXCEPT ![client.id] = EntryAfterError(@, client.prev)]
        /\ client' = IdleClient /\ UNCHANGED <<runner, stored, armed, revived>>
  /\ UNCHANGED <<now, firing, fire, edits, crashes, bound, made, delivered>>

(* remove_automation: the record, then its entry.                          *)
RemoveRecord ==
  /\ client.pc = "delete"
  /\ WriteRecord(client.id, None)
  /\ client' = [client EXCEPT !.pc = "unschedule"]
  /\ Writes(client.id, "client") /\ Loses(client.id, TRUE)
  /\ UNCHANGED <<now, entry, firing, fire, runner, counters, ghosts>>

RemoveEntry ==
  /\ client.pc = "unschedule"
  /\ Writes(client.id, "client")
  /\ \/ entry' = [entry EXCEPT ![client.id] = NoTime] /\ EndEdit /\ UNCHANGED errors
     \/ Fails /\ client' = IdleClient /\ UNCHANGED <<entry, runner>>
  /\ UNCHANGED <<now, stored, firing, fire, edits, crashes, bound, ghosts, lost>>

-----------------------------------------------------------------------------
Tick ==
  /\ now < MaxTime
  /\ now' = now + 1
  /\ UNCHANGED <<stored, entry, firing, fire, runner, client, counters, ghosts, torn, lost>>

(* The process dies and a new one starts on the same store.                *)
Crash ==
  /\ MayFail /\ (firing # {} \/ client # IdleClient)
  /\ crashes' = crashes + 1
  /\ firing' = {} /\ fire' = [a \in Ids |-> IdleFire] /\ client' = IdleClient
  /\ runner' = [Asleep EXCEPT !.pc = "scan"]
  /\ torn' = [a \in Ids |-> torn[a] \/ Between(a) # {}]
  /\ lost' = [a \in Ids |-> lost[a] \/ a \in firing]
  /\ UNCHANGED <<now, stored, entry, edits, errors, bound, ghosts>>

FireStep(a) ==
  \/ ReadAutomation(a)
  \/ \E ok, created \in BOOLEAN : Deliver(a, ok, created)
  \/ SaveFiredEntry(a) \/ SaveFiredRecord(a)

RunnerStep ==
  \/ BeginScan \/ RepairEntry \/ RunnerWakes
  \/ \E a \in Ids : LookAtEntry(a) \/ Dispatch(a)

ClientStep == WriteEntry \/ WriteClientRecord \/ RemoveRecord \/ RemoveEntry

Next ==
  \/ \E a \in Ids : FireStep(a)
  \/ \E a \in Edited :
       \/ FireManual(a) \/ DeleteAutomation(a)
       \/ \E kind \in Kinds : CreateAutomation(a, kind)
       \/ \E status \in {"active", "paused", stored[a].status}, trigger \in BOOLEAN :
            UpdateAutomation(a, status, trigger)
  \/ RunnerStep \/ ClientStep \/ Tick \/ Crash

Spec == Init /\ [][Next]_vars

(* Firings and the runner go on by themselves; clients and time need not.  *)
Fairness ==
  /\ WF_vars(RunnerStep)
  /\ \A a \in Ids : WF_vars(FireStep(a))

FairSpec == Spec /\ Fairness

-----------------------------------------------------------------------------
(* Properties.                                                             *)

Recs == [status : {"none", "active", "paused", "completed"}, kind : Kinds \cup {"none"},
         next : Nat, target : BOOLEAN]
Firings == [pc : {"idle", "read", "deliver", "index", "record"},
            mode : {"none", "manual", "triggered"}, rec : Recs, prev : Recs]
Clients == [pc : {"idle", "index", "record", "delete", "unschedule"}, id : Ids \cup {"none"},
            rec : Recs, read : {"none", "active", "paused", "completed"}, prev : Recs]
Runners == [pc : {"scan", "look", "repair", "dispatch", "wait"}, todo : SUBSET Ids,
            due : SUBSET Ids, id : Ids \cup {"none"}, fix : Nat]

(* The state is well typed, and an automation is reserved while a firing   *)
(* holds it.                                                               *)
TypeOK ==
  /\ now \in Nat /\ stored \in [Ids -> Recs] /\ entry \in [Ids -> Nat]
  /\ fire \in [Ids -> Firings] /\ firing = {a \in Ids : fire[a].pc # "idle"}
  /\ client \in Clients /\ (client.pc # "idle" => client.id \in Ids)
  /\ runner \in Runners
  /\ errors \in Nat /\ crashes \in Nat
  /\ armed \in [Ids -> Nat] /\ revived \in [Ids -> Nat] /\ delivered \in [Ids -> Nat]

(* A one-time automation is delivered by the runner at most once for each  *)
(* time a client made it active, plus once for each error or restart that  *)
(* came before its completion was stored, plus once for each update that   *)
(* read it before and wrote it after its completion was stored (it writes  *)
(* the whole record, Active again): scans that are stale when they are     *)
(* used, manual firings, failed deliveries that write the record back and  *)
(* all other edits never deliver it again (update_automation;              *)
(* fire_automation_with_reservation reads the status under the             *)
(* reservation).                                                           *)
OnceFiresOnce ==
  \A a \in Ids : delivered[a] <= armed[a] + revived[a] + crashes + errors

(* ... also when such an update overlaps the firing.  Not so.              *)
OnceFiresOnceAnyway ==
  \A a \in Ids : delivered[a] <= armed[a] + crashes + errors

(* As long as no two changes of an automation interleave and none is cut   *)
(* by a crash, whatever fails on the way, its schedule entry agrees with   *)
(* its record whenever no change is in progress, so that no scan misses it *)
(* (save_automation and its error handler).                                *)
EntryFollowsRecord ==
  \A a \in Ids : ~torn[a] /\ Between(a) = {} /\ stored[a] # None
                   => entry[a] = ScheduleEntry(stored[a])

(* A session target that does not exist yet is created once, even when the *)
(* first delivery to it fails and is retried, as long as every firing      *)
(* stores its record and no edit overlaps it (automation_target_session).  *)
OneSession == \A a \in Ids : ~lost[a] => made[a] <= 1

(* A due automation in the schedule is fired, paused or deleted in the     *)
(* end: neither exhausted permits nor a reservation held by another firing *)
(* make the runner forget it (automation_runner_loop).                     *)
Due(a) == entry[a] # NoTime /\ DueAt(stored[a])
DueIsFired == \A a \in Ids : Due(a) ~> (a \in firing \/ ~Due(a))
=============================================================================
