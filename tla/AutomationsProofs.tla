-------------------------- MODULE AutomationsProofs --------------------------
(***************************************************************************)
(* For any automations, bounds and delays: a one-time automation is        *)
(* delivered at most once for each time a client made it active or wrote   *)
(* back that it is, plus once for each fault.                              *)
(***************************************************************************)
EXTENDS Automations, TLAPS

(* What the deliveries of an automation are paid with.                     *)
Budget(a) == armed[a] + revived[a] + crashes + errors

(* Its delivery has ended well, and the record does not say so yet.        *)
Completing(a) == fire[a].pc \in {"index", "record"} /\ fire[a].rec.status = "completed"

(* Another delivery may still follow: it is going on, it failed and the    *)
(* record is about to be written as it was, or the record lets a firing    *)
(* begin that is not about to be ended by the one in progress.             *)
MayDeliver(a) ==
  \/ fire[a].pc = "deliver"
  \/ fire[a].pc \in {"index", "record"} /\ fire[a].rec.status = "active"
  \/ stored[a].status = "active" /\ ~Completing(a)

(* Such a delivery has been paid for already.                              *)
Covered(a) ==
  /\ delivered[a] <= Budget(a)
  /\ MayDeliver(a) => delivered[a] < Budget(a)

IInv == TypeOK /\ \A a \in Ids : Covered(a)

(* A step that delivers nothing keeps an automation covered if it makes no *)
(* delivery possible without paying for it.                                *)
Pays(a) ==
  /\ delivered'[a] = delivered[a]
  /\ Budget(a)' \in Nat /\ Budget(a)' >= Budget(a)
  /\ MayDeliver(a)' => MayDeliver(a) \/ Budget(a)' > Budget(a)

-----------------------------------------------------------------------------
LEMMA BudgetType == TypeOK => \A a \in Ids : Budget(a) \in Nat /\ delivered[a] \in Nat
BY DEF TypeOK, Budget

LEMMA PaysKeeps ==
  ASSUME TypeOK, NEW a \in Ids, Covered(a), Pays(a)
  PROVE  Covered(a)'
<1>1. Budget(a) \in Nat /\ delivered[a] \in Nat
  BY BudgetType
<1> QED BY <1>1 DEF Covered, Pays

(* What changes neither the record nor the firing makes nothing possible.  *)
LEMMA NothingNew ==
  ASSUME TypeOK, NEW a \in Ids, stored'[a] = stored[a], fire'[a] = fire[a],
         delivered' = delivered, armed' = armed, revived' = revived, crashes' = crashes,
         errors' = errors \/ errors' = errors + 1
  PROVE  Pays(a)
<1>1. Budget(a)' \in Nat /\ Budget(a)' >= Budget(a)
  BY DEF TypeOK, Budget
<1>2. MayDeliver(a)' = MayDeliver(a)
  BY DEF MayDeliver, Completing
<1> QED BY <1>1, <1>2 DEF Pays

-----------------------------------------------------------------------------
(* The types, step by step.                                                *)

Statuses == {"none", "active", "paused", "completed"}

LEMMA RecordTypes ==
  ASSUME TimeAssumption, TypeOK
  PROVE  /\ None \in Recs /\ IdleFire \in Firings /\ IdleClient \in Clients
         /\ \A rec \in Recs : ScheduleEntry(rec) \in Nat
         /\ \A kind \in Kinds : Created(kind, now) \in Recs
         /\ \A rec \in Recs, status \in Statuses, trigger \in BOOLEAN :
              Updated(rec, status, trigger) \in Recs
<1>1. None \in Recs
  BY DEF None, Recs, NoTime
<1>2. IdleFire \in Firings /\ IdleClient \in Clients
  BY <1>1 DEF IdleFire, IdleClient, Firings, Clients
<1>3. \A rec \in Recs : ScheduleEntry(rec) \in Nat
  BY DEF ScheduleEntry, Scheduled, Recs, NoTime
<1>4. \A kind : NextFireAfterCreate(kind, now) \in Nat
  BY DEF NextFireAfterCreate, TypeOK
<1>5. \A kind \in Kinds : Created(kind, now) \in Recs
  BY <1>4 DEF Created, Recs
<1>6. \A rec \in Recs, status \in Statuses, trigger \in BOOLEAN :
        Updated(rec, status, trigger) \in Recs
  BY <1>4 DEF Updated, Recs, Statuses
<1> QED BY <1>1, <1>2, <1>3, <1>5, <1>6

LEMMA AfterDeliveryType ==
  ASSUME TimeAssumption, TypeOK, NEW rec \in Recs, NEW mode, NEW ok \in BOOLEAN,
         NEW target \in BOOLEAN
  PROVE  /\ AfterDelivery(rec, mode, ok, target) \in Recs
         /\ mode = "triggered" /\ ok /\ rec.kind = "once"
              => AfterDelivery(rec, mode, ok, target).status = "completed"
<1> DEFINE kept == [rec EXCEPT !.target = target]
           after == AfterFire(rec.kind)
           fired == [kept EXCEPT !.status = after.status, !.next = after.next]
           retried == [kept EXCEPT !.next = RetryAfterFailure(rec.kind)]
<1>1. kept \in Recs
  BY DEF Recs
<1>2. after.status \in {"active", "completed"} /\ after.next \in Nat
  BY DEF AfterFire, TypeOK, NoTime
<1>3. RetryAfterFailure(rec.kind) \in Nat
  BY <1>2 DEF RetryAfterFailure, TimeAssumption, TypeOK
<1>4. rec.kind = "once" => after.status = "completed"
  BY DEF AfterFire
<1>5. AfterDelivery(rec, mode, ok, target)
        = IF mode = "manual" THEN kept ELSE IF ok THEN fired ELSE retried
  BY DEF AfterDelivery
<1>6. fired \in Recs /\ fired.status = after.status
  <2> HIDE DEF kept, after
  <2> QED BY <1>1, <1>2 DEF Recs
<1>7. retried \in Recs
  <2> HIDE DEF kept
  <2> QED BY <1>1, <1>3 DEF Recs
<1> HIDE DEF kept, after, fired, retried
<1> QED BY <1>1, <1>4, <1>5, <1>6, <1>7

-----------------------------------------------------------------------------
(* The firing.                                                             *)

(* The firing of a goes on as f, ...                                       *)
LEMMA GoesOn ==
  ASSUME TypeOK, NEW a \in Ids, NEW f \in Firings, f.pc # "idle", fire[a].pc # "idle",
         fire' = [fire EXCEPT ![a] = f], firing' = firing
  PROVE  /\ fire' \in [Ids -> Firings] /\ firing' = {b \in Ids : fire'[b].pc # "idle"}
         /\ fire'[a] = f /\ \A b \in Ids \ {a} : fire'[b] = fire[b]
BY DEF TypeOK

(* ... or ends, and the runner is told.                                    *)
LEMMA Ends ==
  ASSUME TimeAssumption, TypeOK, NEW a \in Ids, EndFire(a)
  PROVE  /\ fire' \in [Ids -> Firings] /\ firing' = {b \in Ids : fire'[b].pc # "idle"}
         /\ fire'[a].pc = "idle" /\ \A b \in Ids \ {a} : fire'[b] = fire[b]
         /\ runner' \in Runners
<1>1. IdleFire \in Firings /\ IdleFire.pc = "idle"
  BY RecordTypes DEF IdleFire
<1>2. fire' = [fire EXCEPT ![a] = IdleFire] /\ firing' = firing \ {a}
  BY DEF EndFire
<1>3. runner' \in Runners
  BY DEF EndFire, Notified, TypeOK, Runners
<1> QED BY <1>1, <1>2, <1>3 DEF TypeOK

LEMMA FireStepKeeps ==
  ASSUME TimeAssumption, IInv, NEW a \in Ids, FireStep(a)
  PROVE  IInv'
<1>0. TypeOK /\ \A b \in Ids : Covered(b)
  BY DEF IInv
<1>1. CASE ReadAutomation(a)
  <2> DEFINE f == [fire[a] EXCEPT !.pc = "deliver", !.rec = stored[a]]
  <2>1. f \in Firings /\ f.pc = "deliver"
    BY <1>0 DEF TypeOK, Firings
  <2>2. fire' = [fire EXCEPT ![a] = f] /\ UNCHANGED <<firing, runner>> => TypeOK'
    BY <1>0, <1>1, <2>1, GoesOn DEF ReadAutomation, TypeOK, counters, ghosts
  <2>3. EndFire(a) => TypeOK'
    BY <1>0, <1>1, Ends DEF ReadAutomation, TypeOK, counters, ghosts
  <2>4. TypeOK'
    BY <1>0, <1>1, <2>2, <2>3 DEF ReadAutomation, TypeOK
  <2>5. \A b \in Ids : Pays(b)
    BY <1>0, <1>1, BudgetType DEF ReadAutomation, EndFire, Fires, IdleFire, Pays, Budget, MayDeliver, Completing, TypeOK, ghosts, counters
  <2> QED BY <1>0, <2>4, <2>5, PaysKeeps DEF IInv
<1>2. ASSUME NEW ok \in BOOLEAN, NEW created \in BOOLEAN, Deliver(a, ok, created)
      PROVE  IInv'
  <2> DEFINE target == fire[a].rec.target \/ created
             rec == AfterDelivery(fire[a].rec, fire[a].mode, ok, target)
             f == [fire[a] EXCEPT !.pc = "index", !.rec = rec]
             once == ok /\ fire[a].mode = "triggered" /\ fire[a].rec.kind = "once"
  <2>1. fire[a] \in Firings /\ fire[a].rec \in Recs /\ target \in BOOLEAN
    BY <1>0 DEF TypeOK, Firings, Recs
  <2>2. rec \in Recs /\ (once => rec.status = "completed")
    BY <1>0, <2>1, AfterDeliveryType
  <2> HIDE DEF rec
  <2>3. f \in Firings /\ f.pc = "index" /\ f.rec = rec
    BY <2>1, <2>2 DEF Firings
  <2>4. fire' = [fire EXCEPT ![a] = f]
    BY <1>2 DEF Deliver, rec
  <2>5. /\ delivered' = [delivered EXCEPT ![a] = IF once THEN @ + 1 ELSE @]
        /\ UNCHANGED <<stored, armed, revived, crashes, errors>>
    BY <1>2 DEF Deliver, counters
  <2>6. TypeOK'
    <3>1. /\ fire[a].pc # "idle" /\ firing' = firing
          /\ UNCHANGED <<now, entry, runner, client>>
      BY <1>2 DEF Deliver
    <3>2. delivered' \in [Ids -> Nat]
      BY <1>0, <2>5 DEF TypeOK
    <3>3. fire' \in [Ids -> Firings] /\ firing' = {b \in Ids : fire'[b].pc # "idle"}
      <4> HIDE DEF f
      <4> QED BY <1>0, <2>3, <2>4, <3>1, GoesOn
    <3> QED BY <1>0, <2>5, <3>1, <3>2, <3>3 DEF TypeOK
  <2>7. \A b \in Ids : Budget(b) \in Nat /\ delivered[b] \in Nat /\ Budget(b)' = Budget(b)
    BY <1>0, <2>5, BudgetType DEF Budget
  <2>8. MayDeliver(a) /\ (once => ~MayDeliver(a)')
    <3>1. MayDeliver(a)
      BY <1>2 DEF Deliver, MayDeliver
    <3>2. fire'[a] = f
      BY <1>0, <2>4 DEF TypeOK
    <3>3. once => /\ Completing(a)' /\ fire'[a].pc # "deliver"
                  /\ fire'[a].rec.status = "completed"
      <4> HIDE DEF f
      <4> QED BY <2>2, <2>3, <3>2 DEF Completing
    <3> QED BY <3>1, <3>3 DEF MayDeliver
  <2>9. Covered(a)'
    BY <1>0, <2>5, <2>7, <2>8 DEF Covered, TypeOK
  <2>10. \A b \in Ids \ {a} : Covered(b)'
    BY <1>0, <2>4, <2>5, <2>7 DEF Covered, MayDeliver, Completing, TypeOK
  <2> QED BY <2>6, <2>9, <2>10 DEF IInv
<1>3. CASE SaveFiredEntry(a)
  <2> DEFINE f == [fire[a] EXCEPT !.pc = "record", !.prev = stored[a]]
  <2>1. f \in Firings /\ f.pc = "record" /\ f.rec = fire[a].rec /\ fire[a].rec \in Recs
    BY <1>0 DEF TypeOK, Firings
  <2>2. /\ UNCHANGED <<now, stored, client, crashes, armed, revived, delivered>>
        /\ errors' = errors \/ errors' = errors + 1
        /\ fire[a].pc = "index"
    BY <1>3 DEF SaveFiredEntry, ghosts
  <2>3. CASE /\ entry' = [entry EXCEPT ![a] = ScheduleEntry(fire[a].rec)]
             /\ fire' = [fire EXCEPT ![a] = f] /\ UNCHANGED <<firing, runner, errors>>
    <3>1. TypeOK'
      BY <1>0, <2>1, <2>2, <2>3, GoesOn, RecordTypes DEF TypeOK
    <3>2. \A b \in Ids : Pays(b)
      BY <1>0, <2>1, <2>2, <2>3, BudgetType DEF Pays, Budget, MayDeliver, Completing, TypeOK
    <3> QED BY <1>0, <3>1, <3>2, PaysKeeps DEF IInv
  <2>4. CASE /\ stored[a] = None \/ errors' = errors + 1
             /\ EndFire(a) /\ UNCHANGED entry
    <3>1. TypeOK'
      BY <1>0, <2>2, <2>4, Ends DEF TypeOK
    <3>2. \A b \in Ids : Pays(b)
      BY <1>0, <2>2, <2>4, BudgetType, Ends DEF Pays, Budget, MayDeliver, TypeOK, None, Completing
    <3> QED BY <1>0, <3>1, <3>2, PaysKeeps DEF IInv
  <2> QED BY <1>3, <2>3, <2>4 DEF SaveFiredEntry
<1>4. CASE SaveFiredRecord(a)
  <2>1. /\ UNCHANGED <<now, client, crashes, armed, revived, delivered>> /\ EndFire(a) /\ fire[a].pc = "record"
        /\ fire[a].rec \in Recs /\ fire[a].prev \in Recs
    BY <1>0, <1>4 DEF SaveFiredRecord, TypeOK, Firings, ghosts
  <2>2. CASE WriteRecord(a, fire[a].rec) /\ UNCHANGED <<entry, errors>>
    <3>1. TypeOK'
      BY <1>0, <2>1, <2>2, Ends DEF WriteRecord, TypeOK
    <3>2. \A b \in Ids : Pays(b)
      BY <1>0, <2>1, <2>2, BudgetType, Ends
      DEF WriteRecord, Pays, Budget, MayDeliver, Completing, TypeOK
    <3> QED BY <1>0, <3>1, <3>2, PaysKeeps DEF IInv
  <2>3. CASE /\ errors' = errors + 1 /\ UNCHANGED stored
             /\ entry' = [entry EXCEPT ![a] = EntryAfterError(@, fire[a].prev)]
    <3>1. TypeOK'
      BY <1>0, <2>1, <2>3, Ends, RecordTypes DEF TypeOK, EntryAfterError
    <3>2. \A b \in Ids : Pays(b)
      BY <1>0, <2>1, <2>3, BudgetType, Ends DEF Pays, Budget, TypeOK
    <3> QED BY <1>0, <3>1, <3>2, PaysKeeps DEF IInv
  <2> QED BY <1>4, <2>2, <2>3 DEF SaveFiredRecord, Fails
<1> QED BY <1>1, <1>2, <1>3, <1>4 DEF FireStep

(* A firing begins: it delivers only after it has read the record.         *)
LEMMA StartFireKeeps ==
  ASSUME TimeAssumption, IInv, NEW a \in Ids, a \notin firing,
         NEW mode \in {"manual", "triggered"}, StartFire(a, mode), runner' \in Runners,
         UNCHANGED <<now, stored, entry, client, errors, crashes, armed, revived, delivered>>
  PROVE  IInv'
<1> DEFINE f == [IdleFire EXCEPT !.pc = "read", !.mode = mode]
<1>0. TypeOK /\ \A b \in Ids : Covered(b)
  BY DEF IInv
<1>1. f \in Firings /\ f.pc = "read"
  BY <1>0, RecordTypes DEF Firings, IdleFire
<1>2. fire' = [fire EXCEPT ![a] = f] /\ firing' = firing \cup {a} /\ fire[a].pc = "idle"
  BY <1>0 DEF StartFire, TypeOK
<1>3. TypeOK'
  BY <1>0, <1>1, <1>2 DEF TypeOK
<1>4. \A b \in Ids : Pays(b)
  BY <1>0, <1>1, <1>2, BudgetType DEF Pays, Budget, MayDeliver, Completing, TypeOK
<1> QED BY <1>0, <1>3, <1>4, PaysKeeps DEF IInv

LEMMA FireManualKeeps ==
  ASSUME TimeAssumption, IInv, NEW a \in Ids, FireManual(a)
  PROVE  IInv'
BY StartFireKeeps DEF FireManual, IInv, TypeOK, ghosts

-----------------------------------------------------------------------------
(* The runner: it reads, repairs entries and begins firings.               *)

(* Whatever leaves records and firings alone keeps the invariant if it     *)
(* keeps the types.                                                        *)
LEMMA Bystander ==
  ASSUME IInv, TypeOK', UNCHANGED <<stored, fire, armed, revived, delivered, crashes>>,
         errors' = errors \/ errors' = errors + 1
  PROVE  IInv'
<1>1. \A b \in Ids : Pays(b)
  BY NothingNew DEF IInv
<1> QED BY <1>1, PaysKeeps DEF IInv

LEMMA AfterLookType ==
  \A todo \in SUBSET Ids, due \in SUBSET Ids : AfterLook(todo, due) \in Runners
BY DEF AfterLook, Runners, Asleep, NoTime

LEMMA RunnerStepKeeps ==
  ASSUME TimeAssumption, IInv, RunnerStep
  PROVE  IInv'
<1>0. TypeOK /\ Asleep \in Runners
  BY DEF IInv, Asleep, Runners, NoTime
<1>1. CASE BeginScan
  <2>1. runner' \in Runners
    BY <1>0, <1>1 DEF BeginScan, Asleep, Runners, NoTime
  <2>2. UNCHANGED <<now, stored, entry, firing, fire, client, errors, crashes, armed, revived, delivered>>
    BY <1>1 DEF BeginScan, counters, ghosts
  <2> QED BY <1>0, <2>1, <2>2, Bystander DEF TypeOK
<1>2. CASE RepairEntry
  <2>1. UNCHANGED <<now, stored, firing, fire, client, crashes, armed, revived, delivered>>
    BY <1>2 DEF RepairEntry, ghosts
  <2>2. errors' = errors \/ errors' = errors + 1
    BY <1>2 DEF RepairEntry, Fails
  <2>3. runner' \in Runners
    <3>1. runner.todo \in SUBSET Ids /\ runner.due \in SUBSET Ids
      BY <1>0 DEF TypeOK, Runners
    <3> QED BY <1>0, <1>2, <3>1, AfterLookType DEF RepairEntry
  <2>4. entry' \in [Ids -> Nat]
    BY <1>0, <1>2 DEF RepairEntry, TypeOK, Runners
  <2>5. errors' \in Nat
    BY <1>0, <2>2 DEF TypeOK
  <2> QED BY <1>0, <2>1, <2>2, <2>3, <2>4, <2>5, Bystander DEF TypeOK
<1>3. CASE RunnerWakes
  <2>1. runner' \in Runners
    BY <1>0, <1>3 DEF RunnerWakes, TypeOK, Runners
  <2>2. UNCHANGED <<now, stored, entry, firing, fire, client, errors, crashes, armed, revived, delivered>>
    BY <1>3 DEF RunnerWakes, counters, ghosts
  <2> QED BY <1>0, <2>1, <2>2, Bystander DEF TypeOK
<1>4. ASSUME NEW a \in Ids, LookAtEntry(a)
      PROVE  IInv'
  <2>1. DueWith(a) \in SUBSET Ids /\ runner.todo \ {a} \in SUBSET Ids
    BY <1>0 DEF DueWith, TypeOK, Runners
  <2>2. ScheduleEntry(stored[a]) \in Nat
    BY <1>0, RecordTypes DEF TypeOK
  <2>3. runner' \in Runners
    <3>1. AfterLook(runner.todo \ {a}, DueWith(a)) \in Runners
      BY <2>1, AfterLookType
    <3>2. [runner EXCEPT !.pc = "repair", !.id = a, !.todo = runner.todo \ {a},
                         !.due = DueWith(a), !.fix = ScheduleEntry(stored[a])] \in Runners
      BY <1>0, <2>1, <2>2 DEF TypeOK, Runners
    <3> QED BY <1>4, <3>1, <3>2 DEF LookAtEntry
  <2>4. UNCHANGED <<now, stored, entry, firing, fire, client, errors, crashes, armed, revived, delivered>>
    BY <1>4 DEF LookAtEntry, counters, ghosts
  <2> QED BY <1>0, <2>3, <2>4, Bystander DEF TypeOK
<1>5. ASSUME NEW a \in Ids, Dispatch(a)
      PROVE  IInv'
  <2>1. UNCHANGED <<now, stored, entry, client, errors, crashes, armed, revived, delivered>>
    BY <1>5 DEF Dispatch, counters, ghosts
  <2>2. runner.due \ {a} \in SUBSET Ids
    BY <1>0 DEF TypeOK, Runners
  <2>3. runner' \in Runners
    BY <1>0, <1>5, <2>2, AfterLookType DEF Dispatch
  <2>4. CASE UNCHANGED <<firing, fire>>
    BY <1>0, <2>1, <2>3, <2>4, Bystander DEF TypeOK
  <2>5. CASE a \notin firing /\ StartFire(a, "triggered")
    BY <2>1, <2>3, <2>5, StartFireKeeps
  <2> QED BY <1>5, <2>4, <2>5 DEF Dispatch
<1> QED BY <1>1, <1>2, <1>3, <1>4, <1>5 DEF RunnerStep

-----------------------------------------------------------------------------
(* The client.                                                             *)

LEMMA BeginEditKeeps ==
  ASSUME IInv, NEW a \in Ids, NEW rec \in Recs, NEW pc \in {"index", "delete"},
         BeginEdit(pc, a, rec)
  PROVE  IInv'
<1>1. client' \in Clients /\ client'.id \in Ids
  BY DEF IInv, TypeOK, BeginEdit, Clients, Recs
<1>2. UNCHANGED <<now, stored, entry, firing, fire, runner, errors, crashes, armed, revived, delivered>>
  BY DEF BeginEdit, ghosts
<1> QED BY <1>1, <1>2, Bystander DEF IInv, TypeOK

(* A client that makes the record active pays for a delivery.              *)
LEMMA WritePays ==
  ASSUME TypeOK, NEW a \in Ids, NEW rec \in Recs, NEW read, WriteRecord(a, rec),
         CountsArming(a, rec, read), UNCHANGED <<fire, delivered, crashes, errors>>
  PROVE  /\ stored' \in [Ids -> Recs] /\ armed' \in [Ids -> Nat] /\ revived' \in [Ids -> Nat]
         /\ \A b \in Ids : Pays(b)
<1> DEFINE activates == rec.status = "active" /\ stored[a].status # "active"
<1>1. /\ armed' = [armed EXCEPT ![a] = IF activates /\ read # "active" THEN @ + 1 ELSE @]
      /\ revived' = [revived EXCEPT ![a] = IF activates /\ read = "active" THEN @ + 1 ELSE @]
      /\ stored' = [stored EXCEPT ![a] = rec]
  BY DEF CountsArming, WriteRecord
<1>2. stored' \in [Ids -> Recs] /\ armed' \in [Ids -> Nat] /\ revived' \in [Ids -> Nat]
  BY <1>1 DEF TypeOK
<1>3. \A b \in Ids : armed[b] \in Nat /\ revived[b] \in Nat /\ crashes \in Nat /\ errors \in Nat
  BY DEF TypeOK
<1>4. ASSUME NEW b \in Ids, b # a PROVE Pays(b)
  BY <1>1, <1>3, <1>4 DEF TypeOK, Pays, Budget, MayDeliver, Completing
<1>5. Pays(a)
  <2>1. /\ armed'[a] = IF activates /\ read # "active" THEN armed[a] + 1 ELSE armed[a]
        /\ revived'[a] = IF activates /\ read = "active" THEN revived[a] + 1 ELSE revived[a]
        /\ stored'[a] = rec
    BY <1>1 DEF TypeOK
  <2>2. activates => Budget(a)' > Budget(a)
    BY <1>3, <2>1 DEF Budget
  <2>3. Budget(a)' \in Nat /\ Budget(a)' >= Budget(a)
    BY <1>3, <2>1 DEF Budget
  <2>4. MayDeliver(a)' => MayDeliver(a) \/ activates
    BY <2>1 DEF MayDeliver, Completing
  <2> QED BY <2>2, <2>3, <2>4 DEF Pays
<1> QED BY <1>2, <1>4, <1>5

(* A record that is removed pays nothing, and lets nothing begin.          *)
LEMMA RemovePays ==
  ASSUME TypeOK, NEW a \in Ids, WriteRecord(a, None),
         UNCHANGED <<fire, delivered, armed, revived, crashes, errors>>
  PROVE  stored' \in [Ids -> Recs] /\ \A b \in Ids : Pays(b)
<1>1. stored' \in [Ids -> Recs]
  BY RecordTypes, TimeAssumption DEF WriteRecord, TypeOK
<1>2. \A b \in Ids : Pays(b)
  BY BudgetType DEF WriteRecord, TypeOK, Pays, Budget, MayDeliver, Completing, None
<1> QED BY <1>1, <1>2

LEMMA ClientStepKeeps ==
  ASSUME TimeAssumption, IInv, ClientStep
  PROVE  IInv'
<1>0. /\ TypeOK /\ (\A b \in Ids : Covered(b)) /\ None \in Recs /\ IdleClient \in Clients
      /\ IdleClient.pc = "idle"
  BY RecordTypes DEF IInv, IdleClient
<1>1. Notified \in Runners
  BY <1>0 DEF Notified, TypeOK, Runners
<1>2. client.pc # "idle" /\ client.id \in Ids
  BY <1>0 DEF TypeOK, ClientStep, WriteEntry, WriteClientRecord, RemoveRecord, RemoveEntry
<1>3. client.rec \in Recs /\ ScheduleEntry(client.rec) \in Nat /\ ScheduleEntry(client.prev) \in Nat
  BY <1>0, RecordTypes DEF TypeOK, Clients
<1>4. CASE WriteEntry
  <2> DEFINE c == [client EXCEPT !.pc = "record", !.prev = stored[client.id]]
  <2>1. c \in Clients /\ c.id = client.id
    BY <1>0, <1>2 DEF TypeOK, Clients
  <2>2. UNCHANGED <<now, stored, firing, fire, runner, crashes, armed, revived, delivered>>
    BY <1>4 DEF WriteEntry, ghosts
  <2>3. errors' = errors \/ errors' = errors + 1
    BY <1>4 DEF WriteEntry, Fails
  <2>4. client' \in Clients /\ (client'.pc # "idle" => client'.id \in Ids)
    BY <1>0, <1>2, <1>4, <2>1 DEF WriteEntry
  <2>5. entry' \in [Ids -> Nat] /\ errors' \in Nat
    BY <1>0, <1>2, <1>3, <1>4, <2>3 DEF WriteEntry, TypeOK
  <2> QED BY <1>0, <2>2, <2>3, <2>4, <2>5, Bystander DEF TypeOK
<1>5. CASE WriteClientRecord
  <2>1. UNCHANGED <<now, firing, fire, crashes, delivered>> /\ client' = IdleClient
    BY <1>5 DEF WriteClientRecord, EndEdit
  <2>2. CASE /\ WriteRecord(client.id, client.rec) /\ runner' = Notified
             /\ CountsArming(client.id, client.rec, client.read) /\ UNCHANGED <<entry, errors>>
    <3>1. /\ stored' \in [Ids -> Recs] /\ armed' \in [Ids -> Nat] /\ revived' \in [Ids -> Nat]
          /\ \A b \in Ids : Pays(b)
      BY <1>0, <1>2, <1>3, <2>1, <2>2, WritePays
    <3>2. TypeOK'
      BY <1>0, <1>1, <2>1, <2>2, <3>1 DEF TypeOK
    <3> QED BY <1>0, <3>1, <3>2, PaysKeeps DEF IInv
  <2>3. CASE /\ errors' = errors + 1 /\ UNCHANGED <<runner, stored, armed, revived>>
             /\ entry' = [entry EXCEPT ![client.id] = EntryAfterError(@, client.prev)]
    BY <1>0, <1>2, <1>3, <2>1, <2>3, Bystander DEF TypeOK, EntryAfterError
  <2> QED BY <1>5, <2>2, <2>3 DEF WriteClientRecord, EndEdit, Fails
<1>6. CASE RemoveRecord
  <2>1. /\ UNCHANGED <<now, entry, firing, fire, runner, crashes, errors, armed, revived, delivered>>
        /\ WriteRecord(client.id, None) /\ client' = [client EXCEPT !.pc = "unschedule"]
    BY <1>6 DEF RemoveRecord, counters, ghosts
  <2>2. stored' \in [Ids -> Recs] /\ \A b \in Ids : Pays(b)
    BY <1>0, <1>2, <2>1, RemovePays
  <2>3. client' \in Clients /\ client'.id \in Ids
    BY <1>0, <1>2, <2>1 DEF TypeOK, Clients
  <2>4. TypeOK'
    BY <1>0, <2>1, <2>2, <2>3 DEF TypeOK
  <2> QED BY <1>0, <2>2, <2>4, PaysKeeps DEF IInv
<1>7. CASE RemoveEntry
  <2>1. UNCHANGED <<now, stored, firing, fire, crashes, armed, revived, delivered>> /\ client' = IdleClient
    BY <1>7 DEF RemoveEntry, EndEdit, ghosts
  <2>2. errors' = errors \/ errors' = errors + 1
    BY <1>7 DEF RemoveEntry, Fails
  <2>3. runner' \in Runners
    BY <1>0, <1>1, <1>7 DEF RemoveEntry, EndEdit, TypeOK
  <2>4. entry' \in [Ids -> Nat] /\ errors' \in Nat
    BY <1>0, <1>7, <2>2 DEF RemoveEntry, TypeOK, NoTime
  <2> QED BY <1>0, <2>1, <2>2, <2>3, <2>4, Bystander DEF TypeOK
<1> QED BY <1>4, <1>5, <1>6, <1>7 DEF ClientStep

-----------------------------------------------------------------------------
LEMMA CrashKeeps ==
  ASSUME TimeAssumption, IInv, Crash
  PROVE  IInv'
<1>0. /\ TypeOK /\ (\A b \in Ids : Covered(b)) /\ IdleFire \in Firings /\ IdleFire.pc = "idle"
      /\ IdleClient \in Clients /\ IdleClient.pc = "idle"
  BY RecordTypes DEF IInv, IdleFire, IdleClient
<1>1. /\ UNCHANGED <<now, stored, entry, errors, armed, revived, delivered>> /\ crashes' = crashes + 1
      /\ firing' = {} /\ fire' = [a \in Ids |-> IdleFire] /\ client' = IdleClient
  BY DEF Crash, ghosts
<1>2. runner' \in Runners
  BY DEF Crash, Asleep, Runners, NoTime
<1>3. TypeOK'
  BY <1>0, <1>1, <1>2 DEF TypeOK
<1>4. \A b \in Ids : Pays(b)
  BY <1>0, <1>1, BudgetType DEF Pays, Budget, TypeOK
<1> QED BY <1>0, <1>3, <1>4, PaysKeeps DEF IInv

LEMMA StartsCovered == ASSUME TimeAssumption, Init PROVE IInv
<1>1. now \in Nat /\ errors \in Nat /\ crashes \in Nat /\ now = 0
  BY DEF Init
<1>2. stored \in [Ids -> Recs]
  <2>1. None \in Recs /\ \A kind \in Kinds : NextFireAfterCreate(kind, 0) \in Nat
    BY DEF None, NextFireAfterCreate, Recs, NoTime
  <2>2. \A kind \in Kinds : Created(kind, 0) \in Recs
    BY <2>1 DEF Created, Recs
  <2> QED BY <2>1, <2>2 DEF Init
<1>3. entry \in [Ids -> Nat]
  BY <1>2 DEF Init, Recs
<1>4. IdleFire \in Firings /\ IdleClient \in Clients /\ None \in Recs
  BY DEF IdleFire, IdleClient, Firings, Clients, None, Recs, NoTime
<1>5. fire \in [Ids -> Firings] /\ firing = {a \in Ids : fire[a].pc # "idle"}
  BY <1>4 DEF Init, IdleFire
<1>6. client \in Clients /\ client.pc = "idle" /\ runner \in Runners
  BY <1>4 DEF Init, IdleClient, Asleep, Runners, NoTime
<1>7. armed \in [Ids -> Nat] /\ revived \in [Ids -> Nat] /\ delivered \in [Ids -> Nat]
  BY DEF Init
<1>8. TypeOK
  BY <1>1, <1>2, <1>3, <1>5, <1>6, <1>7 DEF TypeOK
<1>9. ASSUME NEW a \in Ids
      PROVE  Covered(a)
  BY DEF Init, Covered, Budget, MayDeliver, IdleFire, None
<1> QED BY <1>8, <1>9 DEF IInv

LEMMA Inductive == Spec => []IInv
<1>1. Init => IInv
  BY StartsCovered, TimeAssumption
<1>2. IInv /\ [Next]_vars => IInv'
  <2> SUFFICES ASSUME IInv, [Next]_vars PROVE IInv'
    OBVIOUS
  <2>0. TypeOK
    BY DEF IInv
  <2>1. CASE UNCHANGED vars
    BY <2>1 DEF vars, IInv, TypeOK, Covered, Budget, MayDeliver, Completing
  <2>2. CASE \E a \in Ids : FireStep(a)
    BY <2>2, FireStepKeeps, TimeAssumption
  <2>3. CASE \E a \in Edited : FireManual(a)
    BY <2>3, FireManualKeeps, TimeAssumption, EditedAssumption
  <2>4. CASE \E a \in Edited : DeleteAutomation(a)
    BY <2>0, <2>4, BeginEditKeeps, RecordTypes, TimeAssumption, EditedAssumption
    DEF DeleteAutomation
  <2>5. CASE \E a \in Edited, kind \in Kinds : CreateAutomation(a, kind)
    BY <2>0, <2>5, BeginEditKeeps, RecordTypes, TimeAssumption, EditedAssumption
    DEF CreateAutomation
  <2>6. CASE \E a \in Edited : \E status \in {"active", "paused", stored[a].status},
                 trigger \in BOOLEAN : UpdateAutomation(a, status, trigger)
    <3>1. \A a \in Edited : /\ a \in Ids /\ stored[a] \in Recs
                            /\ {"active", "paused", stored[a].status} \subseteq Statuses
      BY <2>0, EditedAssumption DEF TypeOK, Recs, Statuses
    <3> QED BY <2>0, <2>6, <3>1, BeginEditKeeps, RecordTypes, TimeAssumption DEF UpdateAutomation
  <2>7. CASE Tick
    <3>1. /\ UNCHANGED <<stored, entry, firing, fire, runner, client, errors, crashes, armed, revived, delivered>>
          /\ now' = now + 1
      BY <2>7 DEF Tick, counters, ghosts
    <3> QED BY <2>0, <3>1, Bystander DEF TypeOK
  <2> QED BY <2>1, <2>2, <2>3, <2>4, <2>5, <2>6, <2>7, RunnerStepKeeps, ClientStepKeeps,
             CrashKeeps, TimeAssumption DEF Next
<1> QED BY <1>1, <1>2, PTL DEF Spec

(* The state is well typed, for any automations and bounds.                *)
THEOREM TypeCorrect == Spec => []TypeOK
<1>1. IInv => TypeOK
  BY DEF IInv
<1> QED BY <1>1, Inductive, PTL

(* However scans, manual firings, edits, store errors and restarts         *)
(* interleave, the runner delivers a one-time automation at most once for  *)
(* each time a client made it active, plus once for each fault and once    *)
(* for each update that had read it Active before the firing completed it  *)
(* and wrote that back afterwards (update_automation).                     *)
THEOREM OnceDelivered == Spec => []OnceFiresOnce
<1>1. IInv => OnceFiresOnce
  BY DEF IInv, Covered, Budget, OnceFiresOnce
<1> QED BY <1>1, Inductive, PTL
=============================================================================
