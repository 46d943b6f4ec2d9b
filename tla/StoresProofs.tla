----------------------------- MODULE StoresProofs -----------------------------
(***************************************************************************)
(* What outlives a call.                                                   *)
(*                                                                         *)
(* SessionRegistry: for any set of callers, any number of calls, events    *)
(* and restarts, and whatever operations overlap, a process builds one     *)
(* agent for a session, and one more for each it unloads or replaces.      *)
(*                                                                         *)
(* ChatGptAuth (the Auth of MCStores): for any set of requests, any number *)
(* of tokens and either store, one process presents no refresh token       *)
(* twice while no call fails.                                              *)
(*                                                                         *)
(* Manifest (its Manif): for any patches and any number of proposals and   *)
(* of calls that apply them, a proposal is in one place.                   *)
(*                                                                         *)
(* FileEdit (its Edit): for any editors, names and paths, no edit loses    *)
(* another's change.                                                       *)
(***************************************************************************)
EXTENDS MCStores, SequenceTheorems, FiniteSetTheorems, WellFoundedInduction, TLAPS

(* The steps at which a caller holds the id's reservation, ...             *)
Reserving(tk) ==
  \/ tk.op = "create" /\ tk.pc \in {"check", "insert", "publish"}
  \/ tk.op \in {"prompt", "queue"} /\ tk.pc \in {"recheck", "load", "normalize", "publish"}

(* ... and those at which it has found that no agent is registered.        *)
FoundNone(tk) == Reserving(tk) /\ tk.pc \notin {"check", "recheck"}

(* A caller that uses an agent has been given one.                         *)
HasAgent ==
  \A t \in Tasks : task[t].pc \in {"act", "snapshot", "save", "event", "abort"} => task[t].i # 0

(* One caller at a time holds the reservation, and creating_sessions says  *)
(* so.                                                                     *)
OneReserving ==
  \A t \in Tasks : Reserving(task[t]) =>
    reserved /\ \A u \in Tasks : Reserving(task[u]) => u = t

(* Once that caller has found no agent registered, none is in use that was *)
(* not replaced, until it registers one itself, ...                        *)
NoneMeanwhile == \A t \in Tasks : FoundNone(task[t]) => Len(inst) <= replaced

(* ... and none is either while none is registered.                        *)
BuiltIsLoaded == /\ Len(inst) <= 1 + replaced
                 /\ loaded = 0 => Len(inst) <= replaced

IInv == TypeOK /\ HasAgent /\ OneReserving /\ NoneMeanwhile /\ BuiltIsLoaded

(* A caller's state, when n agents were built, and the steps at which it   *)
(* uses the agent it was given.                                            *)
TaskType(n) == [op : AllOps \cup {"idle"}, pc : Pcs, rec : Records, i : 0..n,
                base : Records]
Uses(tk) == tk.pc \in {"act", "snapshot", "save", "event", "abort"}

(* A step of one caller leaves the others alone, or wakes those that wait  *)
(* for the reservation; ...                                                *)
Wakes(t) ==
  /\ task' = [u \in Tasks |-> task'[u]]
  /\ \A u \in Tasks \ {t} :
       \/ task'[u] = task[u]
       \/ task[u].pc = "waiting" /\ task'[u] = [task[u] EXCEPT !.pc = "look"]

(* ... it is well typed; ...                                               *)
Typed(t) ==
  /\ Wakes(t) /\ task'[t] \in TaskType(Len(inst'))
  /\ Uses(task'[t]) => task'[t].i # 0
  /\ stored' \in Records /\ inst' \in Seq(Records) /\ Len(inst') >= Len(inst)
  /\ loaded' \in 0..Len(inst') /\ reserved' \in BOOLEAN /\ replaced' \in Nat

(* ... and it leaves the reservation as it is, ...                         *)
Keeps(t) ==
  /\ Reserving(task'[t]) <=> Reserving(task[t])
  /\ FoundNone(task'[t]) => FoundNone(task[t]) \/ loaded = 0
  /\ UNCHANGED <<loaded, reserved, replaced>> /\ Len(inst') = Len(inst)

(* ... takes it, ...                                                       *)
Takes(t) ==
  /\ Reserving(task'[t]) /\ ~FoundNone(task'[t])
  /\ ~reserved /\ reserved' /\ UNCHANGED <<loaded, replaced>> /\ Len(inst') = Len(inst)

(* ... returns it, with or without an agent, ...                           *)
Returns(t) ==
  /\ Reserving(task[t]) /\ ~Reserving(task'[t]) /\ replaced' = replaced
  /\ \/ loaded' = loaded /\ Len(inst') = Len(inst)
     \/ FoundNone(task[t]) /\ loaded' = Len(inst) + 1 /\ Len(inst') = Len(inst) + 1

(* ... or unloads the agent, or registers another in its place.            *)
Replaces(t) ==
  /\ ~Reserving(task'[t]) /\ ~Reserving(task[t])
  /\ reserved' = reserved
  /\ \/ /\ Len(inst') = Len(inst) /\ loaded' = 0
        /\ replaced' = IF loaded # 0 THEN replaced + 1 ELSE replaced
     \/ /\ Len(inst') = Len(inst) + 1 /\ loaded' # 0 /\ replaced' = replaced + 1

-----------------------------------------------------------------------------
LEMMA NoneType == None \in Records /\ NewRecord \in Records /\ Idle \in TaskType(0)
BY DEF None, NewRecord, Idle, Records, Statuses, TaskType, Pcs

LEMMA Changed ==
  ASSUME NEW S, NEW s \in Seq(S), NEW i, NEW x \in S
  PROVE  [s EXCEPT ![i] = x] \in Seq(S) /\ Len([s EXCEPT ![i] = x]) = Len(s)
<1> DEFINE r == [s EXCEPT ![i] = x]
<1>1. s \in [1..Len(s) -> S] /\ Len(s) \in Nat
  BY LenProperties
<1>2. r = [j \in 1..Len(s) |-> IF j = i THEN x ELSE s[j]]
  BY <1>1
<1>3. r \in [1..Len(s) -> S]
  BY <1>1, <1>2
<1>4. r \in Seq(S)
  BY <1>1, <1>3, SeqDef
<1> QED BY <1>1, <1>3, <1>4, LenProperties

LEMMA Appended ==
  ASSUME NEW S, NEW s \in Seq(S), NEW x \in S
  PROVE  Append(s, x) \in Seq(S) /\ Len(Append(s, x)) = Len(s) + 1
BY AppendProperties

LEMMA TypedIsTyped ==
  ASSUME TypeOK, HasAgent, NEW t \in Tasks, Typed(t)
  PROVE  TypeOK' /\ HasAgent'
<1>0. Len(inst) \in Nat /\ Len(inst') \in Nat
  BY LenProperties DEF TypeOK, Typed
<1>1. ASSUME NEW u \in Tasks
      PROVE  task'[u] \in TaskType(Len(inst')) /\ (Uses(task'[u]) => task'[u].i # 0)
  <2>1. task[u] \in TaskType(Len(inst')) /\ (Uses(task[u]) => task[u].i # 0)
    BY <1>0 DEF TypeOK, TaskType, HasAgent, Uses, Typed
  <2>2. [task[u] EXCEPT !.pc = "look"] \in TaskType(Len(inst'))
          /\ ~Uses([task[u] EXCEPT !.pc = "look"])
    BY <2>1 DEF TaskType, Uses, Pcs
  <2> QED BY <2>1, <2>2 DEF Wakes, Typed
<1>2. TypeOK'
  BY <1>1 DEF TypeOK, TaskType, Wakes, Typed
<1> QED BY <1>1, <1>2 DEF HasAgent, Uses

LEMMA OthersReserve ==
  ASSUME TypeOK, NEW t \in Tasks, Wakes(t), NEW u \in Tasks \ {t}
  PROVE  /\ Reserving(task'[u]) <=> Reserving(task[u])
         /\ FoundNone(task'[u]) <=> FoundNone(task[u])
<1> DEFINE woken == [task[u] EXCEPT !.pc = "look"]
<1>1. task[u] \in TaskType(Len(inst))
  BY DEF TypeOK, TaskType
<1>2. ~Reserving(woken)
  BY <1>1 DEF Reserving, TaskType
<1>3. task[u].pc = "waiting" => ~Reserving(task[u])
  BY DEF Reserving
<1> QED BY <1>2, <1>3 DEF Wakes, FoundNone

LEMMA Preserved ==
  ASSUME IInv, NEW t \in Tasks, Typed(t), Keeps(t) \/ Takes(t) \/ Returns(t) \/ Replaces(t)
  PROVE  IInv'
<1>1. TypeOK' /\ HasAgent'
  BY TypedIsTyped DEF IInv
<1>2. \A u \in Tasks \ {t} : /\ Reserving(task'[u]) <=> Reserving(task[u])
                             /\ FoundNone(task'[u]) <=> FoundNone(task[u])
  BY OthersReserve DEF IInv, Typed
<1>3. Len(inst) \in Nat /\ replaced \in Nat
  BY LenProperties DEF IInv, TypeOK
<1>4. CASE Keeps(t)
  <2>1. OneReserving'
    BY <1>2, <1>4 DEF IInv, OneReserving, Keeps
  <2>2. NoneMeanwhile' /\ BuiltIsLoaded'
    BY <1>2, <1>4 DEF IInv, NoneMeanwhile, BuiltIsLoaded, Keeps
  <2> QED BY <1>1, <2>1, <2>2 DEF IInv
<1>5. CASE Takes(t)
  <2>1. \A u \in Tasks : ~Reserving(task[u])
    BY <1>5 DEF IInv, OneReserving, Takes
  <2>2. OneReserving' /\ NoneMeanwhile'
    BY <1>2, <1>5, <2>1 DEF OneReserving, NoneMeanwhile, FoundNone, Takes
  <2>3. BuiltIsLoaded'
    BY <1>5 DEF IInv, BuiltIsLoaded, Takes
  <2> QED BY <1>1, <2>2, <2>3 DEF IInv
<1>6. CASE Returns(t)
  <2>1. \A u \in Tasks : ~Reserving(task'[u])
    BY <1>2, <1>6 DEF IInv, OneReserving, Returns
  <2>2. OneReserving' /\ NoneMeanwhile'
    BY <2>1 DEF OneReserving, NoneMeanwhile, FoundNone
  <2>3. BuiltIsLoaded'
    BY <1>3, <1>6 DEF IInv, BuiltIsLoaded, NoneMeanwhile, Returns
  <2> QED BY <1>1, <2>2, <2>3 DEF IInv
<1>7. CASE Replaces(t)
  <2>1. OneReserving'
    BY <1>2, <1>7 DEF IInv, OneReserving, Replaces
  <2>2. BuiltIsLoaded'
    BY <1>3, <1>7 DEF IInv, BuiltIsLoaded, Replaces
  <2>3. NoneMeanwhile'
    <3> SUFFICES ASSUME NEW u \in Tasks, FoundNone(task'[u])
                 PROVE  Len(inst') <= replaced'
      BY DEF NoneMeanwhile
    <3>1. u # t
      BY <1>7 DEF Replaces, FoundNone
    <3>2. Len(inst) <= replaced
      BY <1>2, <3>1 DEF IInv, NoneMeanwhile
    <3> QED BY <1>3, <1>7, <3>2 DEF Replaces
  <2> QED BY <1>1, <2>1, <2>2, <2>3 DEF IInv
<1> QED BY <1>4, <1>5, <1>6, <1>7

-----------------------------------------------------------------------------
LEMMA Set ==
  ASSUME TypeOK, NEW t \in Tasks, NEW tk,
         \/ task' = [task EXCEPT ![t] = tk]
         \/ task' = Woken([task EXCEPT ![t] = tk]) /\ tk.pc # "waiting"
  PROVE  Wakes(t) /\ task'[t] = tk
BY DEF TypeOK, Wakes, Woken

(* What the operators that end or continue a call do to its caller.        *)
LEMMA Ends ==
  ASSUME TypeOK, NEW t \in Tasks, End(t) \/ EndAndNotify(t) \/ Release(t, Idle)
  PROVE  Wakes(t) /\ task'[t] = Idle
BY Set DEF End, EndAndNotify, Release, Idle

LEMMA Frees ==
  ASSUME NEW t, NEW tk, Release(t, tk)
  PROVE  reserved' \in BOOLEAN /\ ~reserved'
BY DEF Release

LEMMA GoesTo ==
  ASSUME TypeOK, NEW t \in Tasks, NEW at \in Pcs, GoTo(t, at)
  PROVE  /\ Wakes(t) /\ task'[t] \in TaskType(Len(inst))
         /\ task'[t].op = task[t].op /\ task'[t].pc = at /\ task'[t].i = task[t].i
<1>1. Wakes(t) /\ task'[t] = [task[t] EXCEPT !.pc = at]
  BY Set DEF GoTo
<1> QED BY <1>1 DEF TypeOK, TaskType

LEMMA Holds ==
  ASSUME TypeOK, NEW t \in Tasks, NEW at \in Pcs, NEW i \in 0..Len(inst'), Hold(t, at, i)
  PROVE  /\ Wakes(t) /\ task'[t] \in TaskType(Len(inst'))
         /\ task'[t].op = task[t].op /\ task'[t].pc = at /\ task'[t].i = i
<1> DEFINE tk == [task[t] EXCEPT !.pc = at, !.i = i]
<1>1. tk \in TaskType(Len(inst')) /\ tk.op = task[t].op /\ tk.pc = at /\ tk.i = i
  BY DEF TypeOK, TaskType
<1>2. task' = [task EXCEPT ![t] = tk]
  BY DEF Hold, TypeOK
<1> QED BY <1>1, <1>2, Set

(* The caller is given agent i.                                            *)
LEMMA Gives ==
  ASSUME TypeOK, NEW t \in Tasks, NEW i \in 0..Len(inst'),
         Release(t, With(t, "act", i))
  PROVE  /\ Wakes(t) /\ task'[t] \in TaskType(Len(inst'))
         /\ task'[t].op = task[t].op /\ task'[t].pc = "act" /\ task'[t].i = i
         /\ reserved' \in BOOLEAN /\ ~reserved'
<1> DEFINE tk == With(t, "act", i)
<1>1. /\ tk \in TaskType(Len(inst')) /\ tk.op = task[t].op
      /\ tk.pc = "act" /\ tk.pc # "waiting" /\ tk.i = i
  BY NoneType DEF TypeOK, TaskType, Pcs, With
<1>2. Release(t, tk)
  OBVIOUS
<1> QED BY <1>1, <1>2, Set DEF Release

LEMMA IdleType ==
  /\ \A n \in Nat : Idle \in TaskType(n)
  /\ ~Uses(Idle) /\ ~Reserving(Idle) /\ ~FoundNone(Idle)
BY NoneType DEF Idle, TaskType, Pcs, Uses, Reserving, FoundNone

-----------------------------------------------------------------------------
LEMMA CreateStep ==
  ASSUME IInv, NEW t \in Tasks, Create(t)
  PROVE  IInv'
<1>0. /\ TypeOK /\ HasAgent /\ task[t] \in TaskType(Len(inst)) /\ Len(inst) \in Nat
  BY LenProperties DEF IInv, TypeOK, TaskType
<1>1. CASE CreateReserve(t)
  <2>0. reserved' \in BOOLEAN
    BY <1>0, <1>1 DEF CreateReserve, TypeOK
  <2>1. Typed(t)
    BY <1>0, <1>1, <2>0, Ends, GoesTo, IdleType
    DEF CreateReserve, At, Typed, Uses, Pcs, TypeOK, TaskType
  <2>2. Keeps(t) \/ Takes(t)
    BY <1>0, <1>1, Ends, GoesTo, IdleType
    DEF CreateReserve, At, Keeps, Takes, Reserving, FoundNone, Pcs, TaskType
  <2> QED BY <2>1, <2>2, Preserved
<1>2. CASE CreateCheck(t)
  <2>1. Typed(t)
    BY <1>0, <1>2, Ends, GoesTo, Frees, IdleType
    DEF CreateCheck, At, Typed, Uses, Pcs, TypeOK, TaskType
  <2>2. Keeps(t) \/ Returns(t)
    BY <1>0, <1>2, Ends, GoesTo, IdleType
    DEF CreateCheck, At, Keeps, Returns, Reserving, FoundNone, Pcs, TaskType
  <2> QED BY <2>1, <2>2, Preserved
<1>3. CASE CreateInsert(t)
  <2>1. Typed(t)
    BY <1>0, <1>3, Ends, GoesTo, Frees, IdleType, NoneType
    DEF CreateInsert, At, Typed, Uses, Pcs, TypeOK, TaskType
  <2>2. Keeps(t) \/ Returns(t)
    BY <1>0, <1>3, Ends, GoesTo, IdleType
    DEF CreateInsert, At, Keeps, Returns, Reserving, FoundNone, Pcs, TaskType
  <2> QED BY <2>1, <2>2, Preserved
<1>4. CASE CreatePublish(t)
  <2>0. inst' \in Seq(Records) /\ Len(inst') = Len(inst) + 1
    BY <1>4, Appended, NoneType DEF CreatePublish, Registered, IInv, TypeOK
  <2>1. Typed(t)
    BY <1>0, <1>4, <2>0, Ends, Frees, IdleType
    DEF CreatePublish, Typed, TypeOK
  <2>2. Returns(t)
    BY <1>0, <1>4, <2>0, Ends, IdleType
    DEF CreatePublish, At, Returns, Reserving, FoundNone
  <2> QED BY <2>1, <2>2, Preserved
<1> QED BY <1>1, <1>2, <1>3, <1>4 DEF Create

LEMMA Loads ==
  ASSUME TypeOK, NEW t \in Tasks, GetLoad(t), stored # None
  PROVE  /\ Wakes(t) /\ task'[t] \in TaskType(Len(inst'))
         /\ task'[t].op = task[t].op /\ task'[t].pc \in {"normalize", "publish"}
<1> DEFINE at == IF NeedsNormalizing(stored) THEN "normalize" ELSE "publish"
           rec == IF NeedsNormalizing(stored) THEN Interrupted(stored) ELSE stored
           tk == [task[t] EXCEPT !.pc = at, !.rec = rec, !.base = stored]
<1>1. rec \in Records
  BY DEF TypeOK, Interrupted, Records, Statuses
<1>2. tk \in TaskType(Len(inst)) /\ tk.op = task[t].op /\ tk.pc = at
  BY <1>1 DEF TypeOK, TaskType, Pcs
<1>3. task' = [task EXCEPT ![t] = tk] /\ inst' = inst
  BY DEF GetLoad, TypeOK
<1> QED BY <1>2, <1>3, Set

LEMMA GetStep ==
  ASSUME IInv, NEW t \in Tasks, Get(t)
  PROVE  IInv'
<1>0. /\ TypeOK /\ HasAgent /\ task[t] \in TaskType(Len(inst)) /\ Len(inst) \in Nat
  BY LenProperties DEF IInv, TypeOK, TaskType
<1>1. CASE GetLook(t)
  <2>0. loaded # 0 => /\ Wakes(t) /\ task'[t] \in TaskType(Len(inst'))
                      /\ task'[t].op = task[t].op /\ task'[t].pc = "act" /\ task'[t].i = loaded
    BY <1>0, <1>1, Holds DEF GetLook, TypeOK, Pcs
  <2>1. Typed(t)
    BY <1>0, <1>1, <2>0, GoesTo, IdleType
    DEF GetLook, Getting, Typed, Uses, Pcs, TypeOK, TaskType
  <2>2. Keeps(t)
    BY <1>0, <1>1, <2>0, GoesTo, IdleType
    DEF GetLook, Getting, Keeps, Reserving, FoundNone, Pcs, TaskType
  <2> QED BY <2>1, <2>2, Preserved
<1>2. CASE GetReserve(t)
  <2>0. reserved' \in BOOLEAN
    BY <1>0, <1>2 DEF GetReserve, TypeOK
  <2>1. Typed(t)
    BY <1>0, <1>2, <2>0, GoesTo, IdleType
    DEF GetReserve, Getting, Typed, Uses, Pcs, TypeOK, TaskType, TakesReservation
  <2>2. Keeps(t) \/ Takes(t)
    BY <1>0, <1>2, <2>0, GoesTo, IdleType
    DEF GetReserve, Getting, Keeps, Takes, Reserving, FoundNone, Pcs, TaskType,
         TakesReservation, TypeOK
  <2> QED BY <2>1, <2>2, Preserved
<1>3. CASE GetArm(t)
  <2>1. Typed(t)
    BY <1>0, <1>3, GoesTo
    DEF GetArm, Getting, Typed, Uses, Pcs, TypeOK, TaskType
  <2>2. Keeps(t)
    BY <1>0, <1>3, GoesTo
    DEF GetArm, Getting, Keeps, Reserving, FoundNone, Pcs, TaskType
  <2> QED BY <2>1, <2>2, Preserved
<1>4. CASE GetRecheck(t)
  <2>0. loaded # 0 => /\ Wakes(t) /\ task'[t] \in TaskType(Len(inst'))
                      /\ task'[t].op = task[t].op /\ task'[t].pc = "act" /\ task'[t].i = loaded
                      /\ reserved' \in BOOLEAN /\ ~reserved'
    BY <1>0, <1>4, Gives DEF GetRecheck, TypeOK
  <2>1. Typed(t)
    BY <1>0, <1>4, <2>0, GoesTo
    DEF GetRecheck, Getting, Typed, Uses, Pcs, TypeOK, TaskType
  <2>2. Keeps(t) \/ Returns(t)
    BY <1>0, <1>4, <2>0, GoesTo
    DEF GetRecheck, Getting, Keeps, Returns, Reserving, FoundNone, Pcs, TaskType
  <2> QED BY <2>1, <2>2, Preserved
<1>5. CASE GetLoad(t)
  <2>0. stored # None => /\ Wakes(t) /\ task'[t] \in TaskType(Len(inst'))
                         /\ task'[t].op = task[t].op /\ task'[t].pc \in {"normalize", "publish"}
    BY <1>0, <1>5, Loads DEF GetLoad
  <2>1. Typed(t)
    BY <1>0, <1>5, <2>0, Ends, Frees, IdleType
    DEF GetLoad, Getting, Typed, Uses, Pcs, TypeOK, TaskType
  <2>2. Keeps(t) \/ Returns(t)
    BY <1>0, <1>5, <2>0, Ends, Frees, IdleType
    DEF GetLoad, Getting, Keeps, Returns, Reserving, FoundNone, Pcs, TaskType
  <2> QED BY <2>1, <2>2, Preserved
<1>6. CASE GetNormalize(t)
  <2> DEFINE tk == [task[t] EXCEPT !.pc = "publish", !.base = task[t].rec]
  <2>3. tk \in TaskType(Len(inst)) /\ tk.op = task[t].op /\ tk.pc = "publish"
    BY <1>0 DEF TaskType, Pcs
  <2>5. stored # None => /\ task' = [task EXCEPT ![t] = tk]
                         /\ stored' = task[t].rec /\ reserved' = reserved
    BY <1>0, <1>6 DEF GetNormalize, TypeOK
  <2> HIDE DEF tk
  <2>4. stored # None => Wakes(t) /\ task'[t] = tk /\ stored' = task[t].rec /\ reserved' = reserved
    BY <1>0, <2>3, <2>5, Set
  <2>1. Typed(t)
    BY <1>0, <1>6, <2>3, <2>4, Ends, Frees, IdleType
    DEF GetNormalize, Getting, Typed, Uses, TypeOK, TaskType
  <2>2. Keeps(t) \/ Returns(t)
    BY <1>0, <1>6, <2>3, <2>4, Ends, Frees, IdleType
    DEF GetNormalize, Getting, Keeps, Returns, Reserving, FoundNone
  <2> QED BY <2>1, <2>2, Preserved
<1>7. CASE GetPublish(t)
  <2>0. inst' \in Seq(Records) /\ Len(inst') = Len(inst) + 1
    BY <1>0, <1>7, Appended DEF GetPublish, Registered, TypeOK, TaskType
  <2>3. /\ Wakes(t) /\ task'[t] \in TaskType(Len(inst'))
        /\ task'[t].op = task[t].op /\ task'[t].pc = "act" /\ task'[t].i = Len(inst) + 1
        /\ reserved' \in BOOLEAN /\ ~reserved'
    <3>1. Len(inst) + 1 \in 0..Len(inst')
      BY <1>0, <2>0
    <3>2. Release(t, With(t, "act", Len(inst) + 1))
      BY <1>7 DEF GetPublish
    <3> QED BY <1>0, <3>1, <3>2, Gives
  <2>1. Typed(t)
    BY <1>0, <1>7, <2>0, <2>3, IdleType
    DEF GetPublish, Getting, Typed, Uses, Pcs, TypeOK, TaskType
  <2>2. Returns(t)
    BY <1>0, <1>7, <2>0, <2>3, IdleType
    DEF GetPublish, Getting, Returns, Reserving, FoundNone, Pcs, TaskType
  <2> QED BY <2>1, <2>2, Preserved
<1> QED BY <1>1, <1>2, <1>3, <1>4, <1>5, <1>6, <1>7 DEF Get

-----------------------------------------------------------------------------
LEMMA BeginStep ==
  ASSUME IInv, NEW t \in Tasks, NEW op \in AllOps, NEW at \in {"reserve", "look", "read"},
         Begin(t, op, at)
  PROVE  IInv'
<1> DEFINE tk == [Idle EXCEPT !.op = op, !.pc = at]
<1>0. TypeOK /\ HasAgent /\ Len(inst) \in Nat
  BY LenProperties DEF IInv, TypeOK
<1>1. tk \in TaskType(Len(inst)) /\ tk.pc = at /\ task[t] = Idle
  BY <1>0, IdleType DEF TaskType, Idle, Pcs, Begin
<1>2. Wakes(t) /\ task'[t] = tk
  BY <1>0, <1>1, Set DEF Begin
<1>3. Typed(t)
  BY <1>0, <1>1, <1>2 DEF Begin, Typed, Uses, TypeOK
<1>4. Keeps(t)
  BY <1>0, <1>1, <1>2, IdleType DEF Begin, Keeps, Reserving, FoundNone
<1> QED BY <1>3, <1>4, Preserved

LEMMA StartStep ==
  ASSUME IInv, NEW t \in Tasks, Start(t)
  PROVE  IInv'
BY BeginStep DEF Start, AllOps

-----------------------------------------------------------------------------
LEMMA Agent ==
  ASSUME TypeOK, HasAgent, NEW t \in Tasks, Uses(task[t])
  PROVE  task[t].i \in 1..Len(inst) /\ inst[task[t].i] \in Records
<1>1. task[t].i \in 1..Len(inst)
  BY LenProperties DEF TypeOK, HasAgent, Uses
<1> QED BY <1>1, ElementOfSeq DEF TypeOK

(* A step in which a caller changes the agent it was given.                *)
LEMMA ChangesAgent ==
  ASSUME TypeOK, HasAgent, NEW t \in Tasks, Uses(task[t]), NEW rec \in Records,
         inst' = [inst EXCEPT ![task[t].i] = rec]
  PROVE  inst' \in Seq(Records) /\ Len(inst') = Len(inst)
BY Changed DEF TypeOK

(* An event of a run.                                                      *)
LEMMA Happens ==
  ASSUME NEW r \in Records, NEW status \in Statuses
  PROVE  /\ [r EXCEPT !.status = status, !.events = @ + 1] \in Records
         /\ [r EXCEPT !.status = status, !.events = @ + 1, !.queue = 0] \in Records
<1> DEFINE s == [r EXCEPT !.status = status]
           e == [s EXCEPT !.events = @ + 1]
<1>1. s \in Records
  BY DEF Records
<1>2. s.events = r.events /\ r.events + 1 \in Nat
  BY DEF Records
<1>3. [s EXCEPT !.events = r.events + 1] \in Records
  <2> HIDE DEF s
  <2> QED BY <1>1, <1>2 DEF Records
<1>4. e = [s EXCEPT !.events = r.events + 1]
  BY <1>2
<1>5. e \in Records
  BY <1>3, <1>4
<1>6. [e EXCEPT !.queue = 0] \in Records
  <2> HIDE DEF e
  <2> QED BY <1>5 DEF Records
<1> QED BY <1>5, <1>6

LEMMA ActStep ==
  ASSUME IInv, NEW t \in Tasks, Act(t)
  PROVE  IInv'
<1>0. /\ TypeOK /\ HasAgent /\ task[t] \in TaskType(Len(inst)) /\ Len(inst) \in Nat
  BY LenProperties DEF IInv, TypeOK, TaskType
<1>1. CASE StartRun(t)
  <2> DEFINE i == task[t].i
             rec == [inst[i] EXCEPT !.status = "running", !.events = @ + 1]
             tk == [task[t] EXCEPT !.op = "run", !.pc = "snapshot"]
  <2>3. Uses(task[t]) /\ inst[i] \in Records /\ i # 0
    BY <1>0, <1>1, Agent DEF StartRun, At, Uses, HasAgent
  <2>4. rec \in Records /\ tk \in TaskType(Len(inst)) /\ tk.op = "run" /\ tk.i = i
    <3>1. rec \in Records
      BY <2>3, Happens DEF Statuses, Active
    <3>2. tk \in TaskType(Len(inst)) /\ tk.op = "run" /\ tk.i = i
      BY <1>0 DEF TaskType, Pcs, AllOps
    <3> QED BY <3>1, <3>2
  <2>5. \/ End(t) /\ inst' = inst
        \/ inst' = [inst EXCEPT ![i] = rec] /\ task' = [task EXCEPT ![t] = tk]
    <3>1. CASE inst[i].status = "running" /\ End(t) /\ UNCHANGED inst
      BY <3>1
    <3>2. CASE /\ inst' = [inst EXCEPT ![i].status = "running", ![i].events = @ + 1]
               /\ task' = [task EXCEPT ![t].op = "run", ![t].pc = "snapshot"]
      <4>1. inst' = [inst EXCEPT ![i] = rec]
        BY <3>2, <1>0 DEF TypeOK
      <4>2. task' = [task EXCEPT ![t] = tk]
        BY <3>2, <1>0 DEF TypeOK
      <4> QED BY <4>1, <4>2
    <3> QED BY <1>1, <3>1, <3>2 DEF StartRun
  <2>6. inst' \in Seq(Records) /\ Len(inst') = Len(inst)
    BY <1>0, <2>3, <2>4, <2>5, ChangesAgent DEF TypeOK
  <2>0. /\ Wakes(t) /\ task'[t] \in TaskType(Len(inst'))
        /\ task'[t].op \in {"idle", "run"} /\ (Uses(task'[t]) => task'[t].i # 0)
    <3>1. CASE End(t)
      BY <1>0, <2>6, <3>1, Ends, IdleType DEF Idle
    <3>2. CASE task' = [task EXCEPT ![t] = tk]
      <4>1. Wakes(t) /\ task'[t] = tk
        BY <1>0, <3>2, Set
      <4> QED BY <2>3, <2>4, <2>6, <4>1
    <3> QED BY <2>5, <3>1, <3>2
  <2>1. Typed(t)
    BY <1>0, <1>1, <2>0, <2>6
    DEF StartRun, At, Typed, Uses, Pcs, TypeOK, TaskType
  <2>2. Keeps(t)
    BY <1>0, <1>1, <2>0, <2>6
    DEF StartRun, At, Keeps, Reserving, FoundNone, Pcs, TaskType
  <2> QED BY <2>1, <2>2, Preserved
<1>2. CASE ChangeQueue(t)
  <2> DEFINE i == task[t].i
             rec == [inst[i] EXCEPT !.queue = 1 - @]
  <2>3. Uses(task[t]) /\ inst[i] \in Records /\ task[t].i # 0
    BY <1>0, <1>2, Agent DEF ChangeQueue, At, Uses, HasAgent
  <2>4. rec \in Records
    BY <2>3 DEF Records, Statuses, Active
  <2>5. inst' = [inst EXCEPT ![i] = rec]
    BY <1>0, <1>2 DEF ChangeQueue, TypeOK
  <2>6. inst' \in Seq(Records) /\ Len(inst') = Len(inst)
    BY <1>0, <2>3, <2>4, <2>5, ChangesAgent
  <2>1. Typed(t)
    BY <1>0, <1>2, <2>3, <2>6, GoesTo DEF ChangeQueue, Typed, Pcs, TypeOK
  <2>2. Keeps(t)
    BY <1>0, <1>2, <2>6, GoesTo DEF ChangeQueue, At, Keeps, Reserving, FoundNone, Pcs
  <2> QED BY <2>1, <2>2, Preserved
<1>3. CASE AbortPaused(t)
  <2> DEFINE i == task[t].i
             rec == [inst[i] EXCEPT !.status = "aborted"]
  <2>3. Uses(task[t]) /\ inst[i] \in Records /\ task[t].i # 0
    BY <1>0, <1>3, Agent DEF AbortPaused, At, Uses, HasAgent
  <2>4. rec \in Records
    BY <2>3 DEF Records, Statuses, Active
  <2>5. inst' = [inst EXCEPT ![i] = rec]
    BY <1>0, <1>3 DEF AbortPaused, TypeOK
  <2>6. inst' \in Seq(Records) /\ Len(inst') = Len(inst)
    BY <1>0, <2>3, <2>4, <2>5, ChangesAgent
  <2>1. Typed(t)
    BY <1>0, <1>3, <2>3, <2>6, GoesTo DEF AbortPaused, Typed, Pcs, TypeOK
  <2>2. Keeps(t)
    BY <1>0, <1>3, <2>6, GoesTo DEF AbortPaused, At, Keeps, Reserving, FoundNone, Pcs
  <2> QED BY <2>1, <2>2, Preserved
<1>4. CASE TakeSnapshot(t)
  <2> DEFINE tk == [task[t] EXCEPT !.pc = "save", !.rec = inst[task[t].i],
                              !.base = inst[task[t].i]]
  <2>1. inst[task[t].i] \in Records /\ task[t].i # 0
    BY <1>0, <1>4, Agent DEF TakeSnapshot, Uses, HasAgent
  <2>2. tk \in TaskType(Len(inst)) /\ tk.pc = "save" /\ tk.i # 0
    BY <1>0, <2>1 DEF TaskType, Pcs
  <2>3. Wakes(t) /\ task'[t] = tk
    BY <1>0, <1>4, <2>2, Set DEF TakeSnapshot, Snapshot, TypeOK
  <2>4. Typed(t)
    BY <1>0, <1>4, <2>2, <2>3 DEF TakeSnapshot, Typed, TypeOK
  <2>5. Keeps(t)
    BY <1>0, <1>4, <2>2, <2>3 DEF TakeSnapshot, Keeps, Reserving, FoundNone
  <2> QED BY <2>4, <2>5, Preserved
<1>5. CASE SaveSnapshot(t)
  <2> DEFINE i == task[t].i
             put == [inst[i] EXCEPT !.meta = task[t].rec.meta, !.dir = task[t].rec.dir]
             over == [inst[i] EXCEPT !.status =
                        IF task[t].op = "run" /\ task[t].rec.status = "running" THEN "failed"
                        ELSE @]
  <2>1. Uses(task[t]) /\ inst[i] \in Records /\ task[t].i # 0 /\ task[t].rec \in Records
    BY <1>0, <1>5, Agent DEF SaveSnapshot, Uses, HasAgent, TaskType
  <2>2. put \in Records /\ over \in Records
    BY <2>1 DEF Records, Statuses
  <2>3. inst' = [inst EXCEPT ![i] = put] \/ inst' = [inst EXCEPT ![i] = over]
    BY <1>0, <1>5 DEF SaveSnapshot, TypeOK
  <2>4. inst' \in Seq(Records) /\ Len(inst') = Len(inst)
    BY <1>0, <2>1, <2>2, <2>3, ChangesAgent
  <2>5. /\ Wakes(t) /\ task'[t] \in TaskType(Len(inst))
        /\ \/ task'[t] = Idle
           \/ task'[t].op = task[t].op /\ task'[t].pc = "event" /\ task'[t].i = i
    <3> DEFINE on == With(t, "event", i)
    <3>1. on \in TaskType(Len(inst)) /\ on.op = task[t].op /\ on.pc = "event" /\ on.i = i
      BY <1>0, NoneType DEF TaskType, Pcs, With
    <3>2. \/ task' = [task EXCEPT ![t] = on]
          \/ task' = [task EXCEPT ![t] = Idle]
      BY <1>0, <1>5 DEF SaveSnapshot, End, TypeOK
    <3> HIDE DEF on
    <3>3. Wakes(t) /\ (task'[t] = on \/ task'[t] = Idle)
      BY <1>0, <3>2, Set
    <3> QED BY <1>0, <3>1, <3>3, IdleType
  <2>6. stored' \in Records /\ UNCHANGED <<loaded, reserved, replaced>>
    BY <1>0, <1>5, <2>1, NoneType DEF SaveSnapshot, TypeOK
  <2>7. Typed(t)
    BY <1>0, <2>1, <2>4, <2>5, <2>6, IdleType DEF Typed, TypeOK, Uses
  <2>8. Keeps(t)
    BY <1>0, <1>5, <2>4, <2>5, <2>6, IdleType
    DEF SaveSnapshot, Keeps, Reserving, FoundNone
  <2> QED BY <2>7, <2>8, Preserved
<1>6. ASSUME NEW status \in {"running", "paused", "completed"},
             RunEvent(t, status)
      PROVE  IInv'
  <2> DEFINE i == task[t].i
             rec == [inst[i] EXCEPT !.status = status, !.events = @ + 1, !.queue = 0]
  <2>3. Uses(task[t]) /\ inst[i] \in Records /\ task[t].i # 0
    BY <1>0, <1>6, Agent DEF RunEvent, At, Uses, HasAgent
  <2>4. rec \in Records
    BY <2>3, Happens DEF Statuses, Active
  <2>5. inst' = [inst EXCEPT ![i] = rec]
    BY <1>0, <1>6 DEF RunEvent, TypeOK
  <2>6. inst' \in Seq(Records) /\ Len(inst') = Len(inst)
    BY <1>0, <2>3, <2>4, <2>5, ChangesAgent
  <2>7. UNCHANGED <<reserved, replaced, loaded, stored>>
    BY <1>6 DEF RunEvent
  <2>8. /\ Wakes(t) /\ task'[t] \in TaskType(Len(inst))
        /\ task'[t].op = task[t].op /\ task'[t].pc = "snapshot" /\ task'[t].i = task[t].i
    <3>1. GoTo(t, "snapshot")
      BY <1>6 DEF RunEvent
    <3> QED BY <1>0, <3>1, GoesTo DEF Pcs
  <2>9. /\ stored' \in Records /\ loaded' \in 0..Len(inst)
        /\ reserved' \in BOOLEAN /\ replaced' \in Nat
    BY <1>0, <2>7 DEF TypeOK
  <2>1. Typed(t)
    BY <2>3, <2>6, <2>8, <2>9 DEF Typed
  <2>2. Keeps(t)
    BY <1>0, <1>6, <2>6, GoesTo DEF RunEvent, At, Keeps, Reserving, FoundNone, Pcs
  <2> QED BY <2>1, <2>2, Preserved
<1> QED BY <1>1, <1>2, <1>3, <1>4, <1>5, <1>6 DEF Act

-----------------------------------------------------------------------------
(* The record that normalize_record writes back.                           *)
LEMMA Normalized == \A r \in Records : Interrupted(r) \in Records
BY DEF Interrupted, Records, Statuses

(* A caller holds the record it read.                                      *)
LEMMA Reads ==
  ASSUME TypeOK, NEW t \in Tasks, NEW at \in Pcs, NEW i \in 0..Len(inst), NEW rec \in Records
  PROVE  LET tk == [task[t] EXCEPT !.pc = at, !.i = i, !.rec = rec]
         IN  /\ tk \in TaskType(Len(inst))
             /\ tk.op = task[t].op /\ tk.pc = at /\ tk.i = i
BY DEF TypeOK, TaskType

LEMMA DescribeStep ==
  ASSUME IInv, NEW t \in Tasks, Describe(t)
  PROVE  IInv'
<1>0. /\ TypeOK /\ HasAgent /\ task[t] \in TaskType(Len(inst)) /\ Len(inst) \in Nat
  BY LenProperties DEF IInv, TypeOK, TaskType
<1>1. CASE DescribeLook(t)
  <2>1. Typed(t)
    BY <1>0, <1>1, Ends, GoesTo, IdleType
    DEF DescribeLook, At, Typed, Uses, Pcs, TypeOK, TaskType
  <2>2. Keeps(t)
    BY <1>0, <1>1, Ends, GoesTo, IdleType
    DEF DescribeLook, At, Keeps, Reserving, FoundNone, Pcs, TaskType
  <2> QED BY <2>1, <2>2, Preserved
<1>2. CASE ReadDescriptor(t)
  <2> DEFINE tk == [task[t] EXCEPT !.pc = "normalize", !.rec = Interrupted(stored)]
  <2>1. tk \in TaskType(Len(inst)) /\ tk.op = task[t].op /\ tk.pc = "normalize"
    BY <1>0, Normalized DEF TypeOK, TaskType, Pcs
  <2>2. task' = [task EXCEPT ![t] = tk] \/ End(t)
    BY <1>0, <1>2 DEF ReadDescriptor, TypeOK
  <2>3. Wakes(t) /\ (task'[t] = tk \/ task'[t] = Idle)
    BY <1>0, <2>2, Set, Ends
  <2> HIDE DEF tk
  <2>4. Typed(t)
    BY <1>0, <1>2, <2>1, <2>3, IdleType DEF ReadDescriptor, Typed, Uses, TypeOK
  <2>5. Keeps(t)
    BY <1>0, <1>2, <2>1, <2>3, IdleType DEF ReadDescriptor, Keeps, Reserving, FoundNone
  <2> QED BY <2>4, <2>5, Preserved
<1>3. CASE NormalizeDescriptor(t)
  <2>1. stored' \in Records /\ End(t) /\ UNCHANGED <<inst, loaded, reserved, replaced>>
    BY <1>0, <1>3, NoneType DEF NormalizeDescriptor, TaskType
  <2>2. Typed(t)
    BY <1>0, <2>1, Ends, IdleType DEF Typed, TypeOK
  <2>3. Keeps(t)
    BY <1>0, <1>3, <2>1, Ends, IdleType DEF NormalizeDescriptor, Keeps, Reserving, FoundNone
  <2> QED BY <2>2, <2>3, Preserved
<1> QED BY <1>1, <1>2, <1>3 DEF Describe

LEMMA PatchedType == \A r \in Records, op \in AllOps : Patched(op, r) \in Records
BY DEF Patched, Records

LEMMA UpdateStep ==
  ASSUME IInv, NEW t \in Tasks, Update(t)
  PROVE  IInv'
<1>0. /\ TypeOK /\ HasAgent /\ task[t] \in TaskType(Len(inst)) /\ Len(inst) \in Nat
  BY LenProperties DEF IInv, TypeOK, TaskType
<1>1. CASE UpdateRead(t)
  <2> DEFINE rec == IF loaded # 0 THEN Snapshot(loaded)
                    ELSE IF NeedsNormalizing(stored) THEN Interrupted(stored) ELSE stored
             base == IF loaded # 0 THEN inst[loaded] ELSE rec
             tk == [task[t] EXCEPT !.pc = "write", !.i = loaded, !.rec = Patched(task[t].op, rec),
                                   !.base = base]
  <2>0. task[t].op \in AllOps /\ task[t].op \notin {"create", "prompt", "queue"}
    BY <1>1 DEF UpdateRead, AllOps
  <2>1. rec \in Records /\ base \in Records
    BY <1>0, Normalized, ElementOfSeq DEF TypeOK, Snapshot
  <2>2. tk \in TaskType(Len(inst)) /\ tk.op = task[t].op /\ tk.pc = "write"
    <3> HIDE DEF rec, base
    <3> QED BY <1>0, <2>0, <2>1, PatchedType DEF TypeOK, TaskType, Pcs
  <2>3. task' = [task EXCEPT ![t] = Idle] \/ task' = [task EXCEPT ![t] = tk]
    BY <1>0, <1>1 DEF UpdateRead, TypeOK
  <2>4. Wakes(t) /\ (task'[t] = tk \/ task'[t] = Idle)
    <3> HIDE DEF tk
    <3> QED BY <1>0, <2>3, Set
  <2>5. stored' \in Records /\ UNCHANGED <<inst, loaded, reserved, replaced>>
    BY <1>0, <1>1, <2>1 DEF UpdateRead, TypeOK
  <2> HIDE DEF tk, rec, base
  <2>6. Typed(t)
    BY <1>0, <2>2, <2>4, <2>5, IdleType DEF Typed, Uses, TypeOK
  <2>7. Keeps(t)
    BY <1>0, <2>0, <2>2, <2>4, <2>5, IdleType DEF Keeps, Reserving, FoundNone
  <2> QED BY <2>6, <2>7, Preserved
<1>2. CASE UpdateWrite(t)
  <2> DEFINE i == task[t].i
             put == [inst[i] EXCEPT !.meta = task[t].rec.meta, !.dir = task[t].rec.dir]
  <2>1. inst' \in Seq(Records) /\ Len(inst') = Len(inst)
    <3>1. CASE i = 0 \/ stored = None
      BY <1>0, <1>2, <3>1 DEF UpdateWrite, TypeOK
    <3>2. CASE i # 0 /\ stored # None
      <4>1. inst[i] \in Records /\ task[t].rec \in Records
        BY <1>0, <3>2, ElementOfSeq DEF TypeOK, TaskType
      <4>2. put \in Records
        BY <4>1 DEF Records
      <4>3. inst' = [inst EXCEPT ![i] = put]
        BY <1>0, <1>2, <3>2 DEF UpdateWrite, TypeOK
      <4> QED BY <1>0, <4>2, <4>3, Changed DEF TypeOK
    <3> QED BY <3>1, <3>2
  <2>2. stored' \in Records /\ UNCHANGED <<loaded, reserved, replaced>>
    BY <1>0, <1>2 DEF UpdateWrite, TypeOK, TaskType
  <2>3. End(t) \/ EndAndNotify(t) \/ GoTo(t, "rebuild")
    BY <1>2 DEF UpdateWrite
  <2>4. Typed(t)
    BY <1>0, <2>1, <2>2, <2>3, Ends, GoesTo, IdleType DEF Typed, Uses, Pcs, TypeOK
  <2>5. Keeps(t)
    BY <1>0, <1>2, <2>1, <2>2, <2>3, Ends, GoesTo, IdleType
    DEF UpdateWrite, Keeps, Reserving, FoundNone, Pcs
  <2> QED BY <2>4, <2>5, Preserved
<1>3. CASE UpdateRebuild(t)
  <2>1. inst' \in Seq(Records) /\ Len(inst') = Len(inst) + 1
    BY <1>0, <1>3, Appended DEF UpdateRebuild, Registered, TypeOK, TaskType
  <2>2. EndAndNotify(t) /\ UNCHANGED <<stored, reserved>> /\ loaded' = Len(inst) + 1
    BY <1>3 DEF UpdateRebuild
  <2>3. replaced' \in Nat /\ replaced' = replaced + 1
    BY <1>0, <1>3 DEF UpdateRebuild, TypeOK
  <2>4. Typed(t)
    BY <1>0, <2>1, <2>2, <2>3, Ends, IdleType DEF Typed, TypeOK
  <2>5. Replaces(t)
    BY <1>0, <1>3, <2>1, <2>2, <2>3, Ends, IdleType DEF UpdateRebuild, At, Replaces, Reserving
  <2> QED BY <2>4, <2>5, Preserved
<1> QED BY <1>1, <1>2, <1>3 DEF Update

LEMMA DeleteStep ==
  ASSUME IInv, NEW t \in Tasks, Delete(t)
  PROVE  IInv'
<1>0. /\ TypeOK /\ HasAgent /\ task[t] \in TaskType(Len(inst)) /\ Len(inst) \in Nat
  BY LenProperties DEF IInv, TypeOK, TaskType
<1>1. ASSUME NEW force \in BOOLEAN, DeleteLook(t, force)
      PROVE  IInv'
  <2>1. stored' \in Records /\ UNCHANGED <<inst, loaded, reserved, replaced>>
    BY <1>0, <1>1, Normalized DEF DeleteLook, TypeOK
  <2>2. \/ End(t)
        \/ Hold(t, "unload", loaded)
        \/ Hold(t, "abort", loaded) /\ loaded # 0
    BY <1>1 DEF DeleteLook
  <2>3. Typed(t)
    BY <1>0, <2>1, <2>2, Ends, Holds, IdleType DEF Typed, Uses, Pcs, TypeOK
  <2>4. Keeps(t)
    BY <1>0, <1>1, <2>1, <2>2, Ends, Holds, IdleType
    DEF DeleteLook, At, Keeps, Reserving, FoundNone, Pcs, TypeOK
  <2> QED BY <2>3, <2>4, Preserved
<1>2. CASE DeleteAbort(t)
  <2> DEFINE i == task[t].i
             rec == [inst[i] EXCEPT !.status = IF @ = "paused" THEN "aborted" ELSE @]
  <2>1. Uses(task[t]) /\ inst[i] \in Records
    BY <1>0, <1>2, Agent DEF DeleteAbort, At, Uses
  <2>2. rec \in Records
    BY <2>1 DEF Records, Statuses
  <2>3. inst' = [inst EXCEPT ![i] = rec]
    BY <1>0, <1>2 DEF DeleteAbort, TypeOK
  <2>4. inst' \in Seq(Records) /\ Len(inst') = Len(inst)
    BY <1>0, <2>1, <2>2, <2>3, ChangesAgent
  <2>5. Typed(t)
    BY <1>0, <1>2, <2>4, GoesTo DEF DeleteAbort, Typed, Uses, Pcs, TypeOK
  <2>6. Keeps(t)
    BY <1>0, <1>2, <2>4, GoesTo DEF DeleteAbort, At, Keeps, Reserving, FoundNone, Pcs
  <2> QED BY <2>5, <2>6, Preserved
<1>3. CASE DeleteUnload(t)
  <2>1. GoTo(t, "remove") /\ UNCHANGED <<stored, inst, reserved>> /\ loaded' = 0
    BY <1>3 DEF DeleteUnload
  <2>2. replaced' \in Nat /\ replaced' = IF loaded # 0 THEN replaced + 1 ELSE replaced
    BY <1>0, <1>3 DEF DeleteUnload, TypeOK
  <2>3. Typed(t)
    BY <1>0, <2>1, <2>2, GoesTo DEF Typed, Uses, Pcs, TypeOK
  <2>4. Replaces(t)
    BY <1>0, <1>3, <2>1, <2>2, GoesTo DEF DeleteUnload, At, Replaces, Reserving, Pcs
  <2> QED BY <2>3, <2>4, Preserved
<1>4. CASE DeleteRemove(t)
  <2>1. Typed(t)
    BY <1>0, <1>4, Ends, IdleType, NoneType DEF DeleteRemove, Typed, TypeOK
  <2>2. Keeps(t)
    BY <1>0, <1>4, Ends, IdleType DEF DeleteRemove, At, Keeps, Reserving, FoundNone
  <2> QED BY <2>1, <2>2, Preserved
<1> QED BY <1>1, <1>2, <1>3, <1>4 DEF Delete

LEMMA CrashStep ==
  ASSUME IInv, Crash
  PROVE  IInv'
<1>1. inst' = <<>> /\ loaded' = 0 /\ stored' \in Records /\ task' = [t \in Tasks |-> Idle]
  BY DEF Crash, IInv, TypeOK
<1>2. Len(inst') = 0 /\ inst' \in Seq(Records)
  BY <1>1, EmptySeq
<1>3. reserved' \in BOOLEAN /\ replaced' = 0
  BY DEF Crash
<1>4. \A t \in Tasks : task'[t] = Idle
  BY <1>1
<1>5. TypeOK'
  BY <1>1, <1>2, <1>3, IdleType DEF TypeOK, TaskType
<1>6. HasAgent' /\ OneReserving' /\ NoneMeanwhile'
  BY <1>4, IdleType DEF HasAgent, OneReserving, NoneMeanwhile, Uses
<1>7. BuiltIsLoaded'
  BY <1>1, <1>2, <1>3 DEF BuiltIsLoaded
<1> QED BY <1>5, <1>6, <1>7 DEF IInv

-----------------------------------------------------------------------------
LEMMA Inductive == Spec => []IInv
<1>1. Init => IInv
  <2> SUFFICES ASSUME Init PROVE IInv
    OBVIOUS
  <2>1. stored \in Records
    BY NoneType DEF Init, NewRecord, None, Records, Statuses, Active
  <2>2. Len(inst) = 0 /\ inst \in Seq(Records) /\ loaded = 0
    BY EmptySeq DEF Init
  <2>3. reserved \in BOOLEAN /\ replaced = 0
    BY DEF Init
  <2>4. \A t \in Tasks : task[t] = Idle
    BY DEF Init
  <2>5. TypeOK
    <3>1. task \in [Tasks -> TaskType(0)]
      BY IdleType DEF Init
    <3> QED BY <2>1, <2>2, <2>3, <3>1 DEF TypeOK, TaskType
  <2>6. HasAgent /\ OneReserving /\ NoneMeanwhile
    BY <2>4, IdleType DEF HasAgent, OneReserving, NoneMeanwhile, Uses
  <2> QED BY <2>2, <2>3, <2>5, <2>6 DEF IInv, BuiltIsLoaded
<1>2. IInv /\ [Next]_vars => IInv'
  <2> SUFFICES ASSUME IInv, [Next]_vars PROVE IInv'
    OBVIOUS
  <2>1. CASE UNCHANGED vars
    BY <2>1 DEF vars, IInv, TypeOK, HasAgent, OneReserving, NoneMeanwhile, BuiltIsLoaded
  <2> QED BY <2>1, StartStep, CreateStep, GetStep, ActStep, DescribeStep, UpdateStep,
             DeleteStep, CrashStep DEF Next
<1> QED BY <1>1, <1>2, PTL DEF Spec

(* The state is well typed, for any callers and bounds.                    *)
THEOREM TypeCorrect == Spec => []TypeOK
<1>1. IInv => TypeOK
  BY DEF IInv
<1> QED BY <1>1, Inductive, PTL

(* Whatever operations overlap, a process builds one agent for the session *)
(* and one more for each time it unloads the agent of a deleted session or *)
(* makes a new one for another working directory; until it first does, get *)
(* hands out the one it built (the reservation in get and create_session). *)
THEOREM OneAgentBuilt == Spec => []OneAgent
<1>1. IInv => OneAgent
  <2> SUFFICES ASSUME IInv
               PROVE  /\ Len(inst) <= 1 + replaced
                      /\ replaced = 0 => \A t \in Tasks : task[t].pc = "act" => task[t].i = 1
    BY DEF OneAgent
  <2>1. Len(inst) \in Nat /\ Len(inst) <= 1 + replaced
    BY LenProperties DEF IInv, TypeOK, BuiltIsLoaded
  <2>2. \A t \in Tasks : task[t].i \in 0..Len(inst)
    BY DEF IInv, TypeOK
  <2> QED BY <2>1, <2>2 DEF IInv, HasAgent
<1> QED BY <1>1, Inductive, PTL

-----------------------------------------------------------------------------
(* The tokens of ChatGptAuth.                                              *)

(* Tokens, and the records of a request, of a login and of a logout.       *)
Token == [access : Nat, refresh : Nat]
Request == [pc : {"idle", "wait", "post", "save", "send", "done", "failed"}, token : Token,
            force : BOOLEAN, retried : BOOLEAN]
Exchanging == [pc : {"idle", "wait", "save", "post", "delete"}, token : Token]

AuthTypes ==
  /\ keyring \in Token /\ file \in Token
  /\ service \in [refresh : SUBSET Nat, valid : SUBSET Nat, last : Nat]
  /\ lock \in [Auth!Processes -> Requests \cup {"free"}]
  /\ authTask \in [Requests -> Request]
  /\ login \in Exchanging /\ logout \in Exchanging
  /\ login.pc \in {"idle", "wait", "save"} /\ logout.pc \in {"idle", "post", "delete"}
  /\ authFaults \in Nat /\ reused \in BOOLEAN /\ overlap \in BOOLEAN

(* The behaviours RefreshedOnce speaks of.                                 *)
Calm == authFaults = 0 /\ ~overlap /\ OneProcess

(* Who refreshes holds the lock.                                           *)
HoldsLock == \A t \in Requests : authTask[t].pc \in {"post", "save"} <=> lock["all"] = t

(* A logout is never under way with a refresh or a login; a login may be   *)
(* with a refresh.                                                         *)
OneAtATime ==
  /\ Auth!Refreshing \/ login.pc # "idle" => logout = Auth!Idle
  /\ login.pc = "idle" => login = Auth!Idle
  /\ logout.pc = "idle" => logout = Auth!Idle

(* A refresh token is good for who is about to use or store it, and the    *)
(* stored one is while nobody is at it.                                    *)
Good(tok) == tok.refresh \in service.refresh
RequestIsGood ==
  \A t \in Requests :
    /\ authTask[t].pc = "post" => Good(authTask[t].token)
    /\ authTask[t].pc = "save" => Good(authTask[t].token) /\ authTask[t].token.access # 0
LoginIsGood == login.pc = "save" => Good(login.token) /\ login.token.access # 0
StoredIsGood ==
  (~Auth!Refreshing /\ logout = Auth!Idle /\ Auth!Load # Auth!None) => Good(Auth!Load)

(* The refresh tokens that are stored or under way were given out, and the *)
(* one a login is about to store is nobody else's: no refresh uses it up.  *)
Issued ==
  /\ 0 \notin service.refresh
  /\ {keyring.refresh, file.refresh, login.token.refresh} \subseteq 0..service.last
  /\ \A t \in Requests :
       authTask[t].pc \in {"post", "save"} => authTask[t].token.refresh <= service.last
LoginApart ==
  login.pc = "save" =>
    /\ login.token.refresh \notin {keyring.refresh, file.refresh}
    /\ \A t \in Requests :
         authTask[t].pc \in {"post", "save"} => authTask[t].token.refresh # login.token.refresh

AuthCore ==
  /\ HoldsLock /\ OneAtATime /\ RequestIsGood /\ LoginIsGood /\ StoredIsGood
  /\ Issued /\ LoginApart /\ ~reused

AuthInv == AuthTypes /\ (Calm => AuthCore)
AuthOk == part = "auth" => AuthInv

LEMMA AuthTyped ==
  ASSUME AuthTypes
  PROVE  /\ Auth!Load \in Token /\ Auth!None \in Token
         /\ Auth!Idle \in Exchanging /\ Auth!IdleTask \in Request
         /\ OneProcess => Auth!Processes = {"all"} /\ \A t : Auth!ProcessOf(t) = "all"
         /\ \A t \in Requests : authTask[t] \in Request
BY DEF AuthTypes, Token, Request, Exchanging, Auth!Load, Auth!None, Auth!Idle, Auth!IdleTask,
       Auth!Processes, Auth!ProcessOf

(* A fault ends what RefreshedOnce speaks of.                              *)
LEMMA Disturbed ==
  ASSUME AuthTypes, AuthTypes', Auth!Fault
  PROVE  AuthInv'
BY DEF AuthInv, AuthTypes, Calm, Auth!Fault

(* A step that leaves the stores, the lock, the good refresh token, login   *)
(* and logout alone, and begins or ends no refresh.                        *)
LEMMA Unmoved ==
  ASSUME AuthInv, AuthTypes', Calm' => Calm,
         UNCHANGED <<keyring, file, lock, login, logout, reused>>,
         service'.refresh = service.refresh, service'.last = service.last,
         \A t \in Requests : \/ authTask'[t] = authTask[t]
                             \/ {authTask[t].pc, authTask'[t].pc} \cap {"post", "save"} = {}
  PROVE  AuthInv'
<1>1. ASSUME Calm, AuthCore PROVE AuthCore'
  <2>1. /\ Auth!Load' = Auth!Load /\ Auth!Idle' = Auth!Idle /\ Auth!None' = Auth!None
        /\ (Auth!Refreshing' <=> Auth!Refreshing)
    BY DEF Auth!Load, Auth!Idle, Auth!None, Auth!Refreshing
  <2>2. /\ UNCHANGED <<keyring, file, lock, login, logout, reused>>
        /\ service'.refresh = service.refresh /\ service'.last = service.last
    OBVIOUS
  <2>3. HoldsLock' /\ OneAtATime'
    BY <1>1, <2>1, <2>2 DEF AuthCore, HoldsLock, OneAtATime
  <2>4. RequestIsGood' /\ LoginIsGood' /\ StoredIsGood'
    BY <1>1, <2>1, <2>2 DEF AuthCore, RequestIsGood, LoginIsGood, StoredIsGood, Good
  <2>5. Issued' /\ LoginApart'
    BY <1>1, <2>2 DEF AuthCore, Issued, LoginApart
  <2> QED BY <1>1, <2>2, <2>3, <2>4, <2>5 DEF AuthCore
<1> QED BY <1>1 DEF AuthInv

LEMMA TokenForRequestStep ==
  ASSUME AuthInv, NEW t \in Requests, Auth!TokenForRequest(t)
  PROVE  AuthInv'
<1>1. AuthTypes'
  BY AuthTyped DEF AuthInv, AuthTypes, Auth!TokenForRequest, Request
<1>2. \A u \in Requests : \/ authTask'[u] = authTask[u]
                          \/ {authTask[u].pc, authTask'[u].pc} \cap {"post", "save"} = {}
  BY DEF Auth!TokenForRequest, AuthInv, AuthTypes, Auth!At
<1> QED BY <1>1, <1>2, Unmoved DEF Auth!TokenForRequest, Calm

LEMMA TakeLockStep ==
  ASSUME AuthInv, NEW t \in Requests, Auth!TakeLock(t)
  PROVE  AuthInv'
<1> DEFINE tok == Auth!Current(t)
<1>1. AuthTypes'
  <2>1. tok \in Token /\ authTask[t] \in Request
    BY AuthTyped DEF AuthInv, Auth!Current
  <2>2. \/ /\ authTask' = [authTask EXCEPT ![t].pc = "failed"] /\ UNCHANGED <<lock, overlap>>
        \/ /\ authTask' = [authTask EXCEPT ![t].pc = "send", ![t].token = tok]
           /\ UNCHANGED <<lock, overlap>>
        \/ /\ authTask' = [authTask EXCEPT ![t].pc = "post", ![t].token = tok]
           /\ lock' = [lock EXCEPT ![Auth!ProcessOf(t)] = t]
           /\ overlap' \in BOOLEAN
    BY DEF Auth!TakeLock
  <2>3. UNCHANGED <<keyring, file, service, login, logout, authFaults, reused>>
    BY DEF Auth!TakeLock
  <2> HIDE DEF tok
  <2>4. authTask' \in [Requests -> Request]
    BY <2>1, <2>2 DEF AuthInv, AuthTypes, Request
  <2>5. lock' \in [Auth!Processes -> Requests \cup {"free"}] /\ overlap' \in BOOLEAN
    BY <2>2 DEF AuthInv, AuthTypes
  <2> QED BY <2>3, <2>4, <2>5 DEF AuthInv, AuthTypes, Auth!Processes
<1>2. CASE tok = Auth!None \/ (~authTask[t].force /\ ~Auth!RequiresRefresh(tok))
  <2>1. \A u \in Requests : \/ authTask'[u] = authTask[u]
                            \/ {authTask[u].pc, authTask'[u].pc} \cap {"post", "save"} = {}
    BY <1>2 DEF Auth!TakeLock, AuthInv, AuthTypes, Auth!At
  <2> QED BY <1>1, <1>2, <2>1, Unmoved DEF Auth!TakeLock, Calm
<1>3. CASE ~(tok = Auth!None \/ (~authTask[t].force /\ ~Auth!RequiresRefresh(tok)))
  <2>1. ASSUME Calm, AuthCore, Calm' PROVE AuthCore'
    <3>1. /\ authTask[t].pc = "wait" /\ lock["all"] = "free"
          /\ authTask'[t].pc = "post" /\ authTask'[t].token = Auth!Load
          /\ lock'["all"] = t /\ Auth!Load # Auth!None /\ logout = Auth!Idle
      <4>1. OneProcess /\ Auth!Processes = {"all"} /\ Auth!ProcessOf(t) = "all"
        BY <2>1, AuthTyped DEF Calm, AuthInv
      <4>2. /\ authTask[t].pc = "wait" /\ lock["all"] = "free" /\ Auth!Load # Auth!None
            /\ authTask' = [authTask EXCEPT ![t].pc = "post", ![t].token = Auth!Load]
            /\ lock' = [lock EXCEPT !["all"] = t]
            /\ overlap' = (overlap \/ logout # Auth!Idle)
        BY <1>3, <4>1 DEF Auth!TakeLock, Auth!Current, Auth!At
      <4>3. logout = Auth!Idle
        BY <2>1, <4>2 DEF Calm
      <4>4. authTask \in [Requests -> Request] /\ lock \in [{"all"} -> Requests \cup {"free"}]
        BY <4>1 DEF AuthInv, AuthTypes
      <4> QED BY <4>2, <4>3, <4>4 DEF Request
    <3>2. \A u \in Requests : u # t => authTask'[u] = authTask[u]
      BY <1>3 DEF Auth!TakeLock, AuthInv, AuthTypes
    <3>3. /\ UNCHANGED <<keyring, file, service, login, logout, reused>> /\ Auth!Load' = Auth!Load
          /\ Auth!Idle' = Auth!Idle
      BY DEF Auth!TakeLock, Auth!Load, Auth!Idle
    <3>4. \A u \in Requests : authTask[u].pc \notin {"post", "save"}
      BY <2>1, <3>1, RequestsAssumption DEF AuthCore, HoldsLock
    <3>5. Good(Auth!Load) /\ Auth!Load.refresh \in {keyring.refresh, file.refresh}
      BY <2>1, <3>1, <3>4 DEF AuthCore, StoredIsGood, Auth!Refreshing, Auth!Load
    <3>6. HoldsLock' /\ OneAtATime' /\ Auth!Refreshing'
      BY <2>1, <3>1, <3>2, <3>3, <3>4 DEF AuthCore, HoldsLock, OneAtATime, Auth!Refreshing
    <3>7. RequestIsGood' /\ LoginIsGood' /\ StoredIsGood'
      BY <2>1, <3>1, <3>2, <3>3, <3>5, <3>6 DEF AuthCore, RequestIsGood, LoginIsGood,
         StoredIsGood, Good
    <3>8. Issued' /\ LoginApart'
      BY <2>1, <3>1, <3>2, <3>3, <3>5 DEF AuthCore, Issued, LoginApart, AuthInv, AuthTypes, Token
    <3> QED BY <2>1, <3>3, <3>6, <3>7, <3>8 DEF AuthCore
  <2>2. Calm' => Calm
    BY <1>3 DEF Auth!TakeLock, Calm
  <2> QED BY <1>1, <2>1, <2>2 DEF AuthInv
<1> QED BY <1>2, <1>3

(* While t refreshes, nobody else does, and there is no logout.            *)
LEMMA RefreshesAlone ==
  ASSUME AuthTypes, AuthCore, NEW t \in Requests, authTask[t].pc \in {"post", "save"}
  PROVE  /\ \A u \in Requests : u # t => authTask[u].pc \notin {"post", "save"}
         /\ logout = Auth!Idle /\ lock["all"] = t
BY DEF AuthCore, HoldsLock, OneAtATime, Auth!Refreshing

LEMMA AcceptedStep ==
  ASSUME AuthInv, NEW t \in Requests, NEW rotates \in BOOLEAN, Auth!Accepted(t, rotates)
  PROVE  AuthInv'
<1> DEFINE old == authTask[t].token
           new == Auth!Renewed(old, rotates)
<1>1. /\ authTask[t] \in Request /\ authTask[t].pc = "post" /\ old \in Token
      /\ new \in Token /\ new.access # 0
      /\ new.refresh \in {old.refresh, service.last + 1}
  BY DEF AuthInv, AuthTypes, Auth!Accepted, Auth!At, Auth!Renewed, Request, Token
<1>2. /\ authTask' = [authTask EXCEPT ![t].pc = "save", ![t].token = new]
      /\ service' = [refresh |-> (service.refresh \ {old.refresh}) \cup {new.refresh},
                     valid |-> service.valid \cup {new.access}, last |-> service.last + 1]
      /\ UNCHANGED <<keyring, file, lock, login, logout, authFaults, reused, overlap>>
  BY DEF Auth!Accepted, Auth!Merged, Auth!Gives
<1>3. old.refresh \in service.refresh
  BY DEF Auth!Accepted
<1> HIDE DEF new, old
<1>4. service' \in [refresh : SUBSET Nat, valid : SUBSET Nat, last : Nat]
  BY <1>1, <1>2 DEF AuthInv, AuthTypes, Token
<1>5. AuthTypes'
  <2>1. authTask' \in [Requests -> Request]
    BY <1>1, <1>2 DEF AuthInv, AuthTypes, Request
  <2> QED BY <1>2, <1>4, <2>1 DEF AuthInv, AuthTypes, Auth!Processes
<1>6. ASSUME Calm, AuthCore PROVE AuthCore'
  <2>1. /\ \A u \in Requests : u # t => authTask[u].pc \notin {"post", "save"}
        /\ logout = Auth!Idle /\ lock["all"] = t
    BY <1>1, <1>6, RefreshesAlone DEF AuthInv
  <2>2. authTask'[t].pc = "save" /\ authTask'[t].token = new
    BY <1>1, <1>2 DEF AuthInv, AuthTypes, Request
  <2>3. \A u \in Requests : u # t => authTask'[u] = authTask[u]
    BY <1>2 DEF AuthInv, AuthTypes
  <2>4. /\ Auth!Idle' = Auth!Idle /\ Auth!Idle.pc = "idle"
        /\ keyring' = keyring /\ file' = file
        /\ login' = login /\ logout' = logout /\ lock' = lock /\ reused' = reused
    BY <1>2 DEF Auth!Idle
  <2>5. Auth!Refreshing' /\ authTask[t].token = old
    BY <2>2 DEF Auth!Refreshing, old
  <2>6. HoldsLock' /\ OneAtATime'
    BY <2>1, <2>2, <2>3, <2>4, <1>1, <1>6 DEF AuthCore, HoldsLock, OneAtATime
  <2>7. /\ service'.last = service.last + 1 /\ service.last \in Nat
        /\ service'.refresh = (service.refresh \ {old.refresh}) \cup {new.refresh}
    BY <1>2 DEF AuthInv, AuthTypes
  <2>8. RequestIsGood'
    BY <1>1, <2>1, <2>2, <2>3, <2>7 DEF RequestIsGood, Good
  <2>9. /\ keyring.refresh \in Nat /\ file.refresh \in Nat /\ login.token.refresh \in Nat
        /\ old.refresh \in Nat /\ \A u \in Requests : authTask[u].token.refresh \in Nat
    BY <1>1 DEF AuthInv, AuthTypes, Token, Exchanging, Request
  <2>10. login.pc = "save" => login.token.refresh # old.refresh
    BY <1>1, <1>6, <2>5 DEF AuthCore, LoginApart
  <2>11. LoginIsGood'
    BY <1>6, <2>4, <2>7, <2>10 DEF AuthCore, LoginIsGood, Good
  <2>12. Issued'
    <3>1. 0 \notin service.refresh /\ old.refresh \in service.refresh
      BY <1>3, <1>6 DEF AuthCore, Issued
    <3>2. old.refresh <= service.last
      BY <1>1, <1>6, <2>5 DEF AuthCore, Issued
    <3>3. new.refresh # 0 /\ new.refresh <= service.last + 1
      BY <1>1, <2>7, <2>9, <3>1, <3>2
    <3>4. 0 \notin service'.refresh
      BY <2>7, <3>1, <3>3
    <3>5. {keyring'.refresh, file'.refresh, login'.token.refresh} \subseteq 0..service'.last
      BY <1>6, <2>4, <2>7, <2>9 DEF AuthCore, Issued
    <3>6. \A u \in Requests :
            authTask'[u].pc \in {"post", "save"} => authTask'[u].token.refresh <= service'.last
      BY <2>1, <2>2, <2>3, <2>7, <3>3
    <3> QED BY <3>4, <3>5, <3>6 DEF Issued
  <2>13. LoginApart'
    BY <1>1, <1>6, <2>1, <2>2, <2>3, <2>4, <2>7, <2>9, <2>10 DEF AuthCore, LoginApart, Issued
  <2> QED BY <1>6, <2>4, <2>5, <2>6, <2>8, <2>11, <2>12, <2>13 DEF AuthCore, StoredIsGood
<1>7. Calm' => Calm
  BY <1>2 DEF Calm
<1> QED BY <1>5, <1>6, <1>7 DEF AuthInv

LEMMA ReleasedType ==
  ASSUME AuthTypes, NEW t \in Requests
  PROVE  /\ Auth!Released(t) \in [Auth!Processes -> Requests \cup {"free"}]
         /\ OneProcess /\ lock["all"] = t => Auth!Released(t)["all"] = "free"
BY AuthTyped DEF AuthTypes, Auth!Released

(* The code never gets here while it is calm.                              *)
LEMMA RefusedStep ==
  ASSUME AuthInv, NEW t \in Requests, Auth!Refused(t)
  PROVE  AuthInv'
<1>1. AuthTypes'
  BY ReleasedType DEF AuthInv, AuthTypes, Auth!Refused, Request
<1>2. Calm' => Calm
  BY DEF Calm, Auth!Refused
<1>3. ~(Calm /\ AuthCore)
  BY DEF AuthCore, RequestIsGood, Good, Auth!Refused, Auth!At
<1> QED BY <1>1, <1>2, <1>3 DEF AuthInv

LEMMA AnswerLostStep ==
  ASSUME AuthInv, NEW t \in Requests, Auth!AnswerLost(t)
  PROVE  AuthInv'
<1> DEFINE new == Auth!Renewed(authTask[t].token, TRUE)
<1>1. new \in Token
  BY DEF AuthInv, AuthTypes, Auth!Renewed, Request, Token
<1>2. service' \in [refresh : SUBSET Nat, valid : SUBSET Nat, last : Nat]
  <2>1. \/ service' = service
        \/ \E old \in Nat :
             service' = [refresh |-> (service.refresh \ {old}) \cup {new.refresh},
                         valid |-> service.valid \cup {new.access}, last |-> service.last + 1]
    BY DEF Auth!AnswerLost, Auth!Gives, AuthInv, AuthTypes, Request, Token
  <2> HIDE DEF new
  <2> QED BY <1>1, <2>1 DEF Token, AuthInv, AuthTypes
<1>3. AuthTypes'
  BY <1>2, ReleasedType DEF AuthInv, AuthTypes, Auth!AnswerLost, Request, Auth!Fault
<1> QED BY <1>3, Disturbed DEF Auth!AnswerLost, AuthInv

LEMMA SaveRefreshedStep ==
  ASSUME AuthInv, NEW t \in Requests, Auth!SaveRefreshed(t)
  PROVE  AuthInv'
<1>1. authTask[t] \in Request /\ authTask[t].pc = "save" /\ authTask[t].token \in Token
  BY DEF AuthInv, AuthTypes, Auth!SaveRefreshed, Auth!At, Request
<1>2. AuthTypes'
  BY <1>1, ReleasedType DEF AuthInv, AuthTypes, Auth!SaveRefreshed, Auth!Save, Auth!SaveToKeyring,
     Auth!SaveToFile, Auth!Fault, Auth!NoFault, Request
<1>3. Calm' => Calm
  BY DEF Calm, Auth!SaveRefreshed, Auth!Save, Auth!SaveToKeyring, Auth!SaveToFile, Auth!Fault,
         Auth!NoFault, AuthInv, AuthTypes
<1>4. ASSUME Calm, AuthCore, Calm' PROVE AuthCore'
  <2>1. /\ \A u \in Requests : u # t => authTask[u].pc \notin {"post", "save"}
        /\ logout = Auth!Idle /\ lock["all"] = t
    BY <1>1, <1>4, RefreshesAlone DEF AuthInv
  <2>2. authTask'[t].pc = "send" /\ lock'["all"] = "free"
    BY <1>1, <1>4, <2>1, ReleasedType DEF AuthInv, AuthTypes, Auth!SaveRefreshed, Calm
  <2>3. \A u \in Requests : u # t => authTask'[u] = authTask[u]
    BY DEF AuthInv, AuthTypes, Auth!SaveRefreshed
  <2>4. Good(authTask[t].token) /\ authTask[t].token # Auth!None
    BY <1>1, <1>4 DEF AuthCore, RequestIsGood, Auth!None
  <2>5. /\ Auth!Load' = authTask[t].token
        /\ {keyring'.refresh, file'.refresh}
             \subseteq {keyring.refresh, file.refresh, authTask[t].token.refresh}
    BY <1>4, <2>4 DEF Auth!SaveRefreshed, Auth!Save, Auth!SaveToKeyring, Auth!SaveToFile,
       Auth!Fault, Calm, AuthInv, AuthTypes, Auth!Load, Auth!None
  <2>6. /\ UNCHANGED <<service, login, logout, reused>>
        /\ Auth!Idle' = Auth!Idle /\ Auth!Idle.pc = "idle"
    BY DEF Auth!SaveRefreshed, Auth!Idle
  <2>7. HoldsLock' /\ OneAtATime'
    BY <1>4, <2>1, <2>2, <2>3, <2>6, RequestsAssumption DEF AuthCore, HoldsLock, OneAtATime,
       Auth!Refreshing
  <2>8. RequestIsGood' /\ LoginIsGood' /\ StoredIsGood'
    BY <1>4, <2>2, <2>3, <2>4, <2>5, <2>6 DEF AuthCore, RequestIsGood, LoginIsGood, StoredIsGood,
       Good
  <2>9. /\ login.token.refresh # authTask[t].token.refresh \/ login.pc # "save"
        /\ authTask[t].token.refresh \in 0..service.last
    BY <1>1, <1>4 DEF AuthCore, LoginApart, Issued, AuthInv, AuthTypes, Token
  <2>10. Issued' /\ LoginApart'
    BY <1>4, <2>2, <2>3, <2>5, <2>6, <2>9 DEF AuthCore, Issued, LoginApart
  <2> QED BY <1>4, <2>6, <2>7, <2>8, <2>10 DEF AuthCore
<1> QED BY <1>2, <1>3, <1>4 DEF AuthInv

LEMMA SaveFailsStep ==
  ASSUME AuthInv, NEW t \in Requests, Auth!SaveFails(t)
  PROVE  AuthInv'
<1>1. AuthTypes'
  BY ReleasedType DEF AuthInv, AuthTypes, Auth!SaveFails, Request, Auth!Fault
<1> QED BY <1>1, Disturbed DEF Auth!SaveFails, AuthInv

LEMMA SendStep ==
  ASSUME AuthInv, NEW t \in Requests, Auth!Send(t)
  PROVE  AuthInv'
<1>1. AuthTypes'
  <2>1. authTask \in [Requests -> Request] /\ authTask[t] \in Request
    BY DEF AuthInv, AuthTypes
  <2>2. PICK r \in Request : authTask' = [authTask EXCEPT ![t] = r]
    <3>1. \/ authTask' = [authTask EXCEPT ![t] = [@ EXCEPT !.pc = "done"]]
          \/ authTask' = [authTask EXCEPT ![t] = [@ EXCEPT !.pc = "failed"]]
          \/ authTask' = [authTask EXCEPT ![t] =
                            [@ EXCEPT !.pc = "wait", !.force = TRUE, !.retried = TRUE]]
      BY DEF Auth!Send
    <3> QED BY <2>1, <3>1 DEF Request
  <2>3. authTask' \in [Requests -> Request]
    BY <2>1, <2>2
  <2> QED BY <2>3 DEF AuthInv, AuthTypes, Auth!Send
<1>2. \A u \in Requests : \/ authTask'[u] = authTask[u]
                          \/ {authTask[u].pc, authTask'[u].pc} \cap {"post", "save"} = {}
  BY DEF Auth!Send, AuthInv, AuthTypes, Auth!At, Request
<1> QED BY <1>1, <1>2, Unmoved DEF Auth!Send, Calm

LEMMA AgainStep ==
  ASSUME AuthInv, NEW t \in Requests, Auth!Again(t)
  PROVE  AuthInv'
<1>1. AuthTypes'
  BY AuthTyped DEF AuthInv, AuthTypes, Auth!Again
<1>2. \A u \in Requests : \/ authTask'[u] = authTask[u]
                          \/ {authTask[u].pc, authTask'[u].pc} \cap {"post", "save"} = {}
  BY DEF Auth!Again, AuthInv, AuthTypes, Auth!IdleTask
<1> QED BY <1>1, <1>2, Unmoved DEF Auth!Again, Calm

-----------------------------------------------------------------------------
LEMMA LoginStartsStep ==
  ASSUME AuthInv, Auth!LoginStarts
  PROVE  AuthInv'
<1>1. AuthTypes'
  BY DEF AuthInv, AuthTypes, Auth!LoginStarts, Exchanging
<1>2. ASSUME Calm, AuthCore, Calm' PROVE AuthCore'
  <2>1. /\ login'.pc = "wait" /\ login'.token = login.token /\ logout = Auth!Idle
    BY <1>2 DEF Auth!LoginStarts, AuthInv, AuthTypes, Exchanging, Calm
  <2>2. /\ UNCHANGED <<keyring, file, service, lock, authTask, logout, reused>>
        /\ Auth!Load' = Auth!Load /\ Auth!Idle' = Auth!Idle /\ Auth!None' = Auth!None
        /\ (Auth!Refreshing' <=> Auth!Refreshing)
    BY DEF Auth!LoginStarts, Auth!Load, Auth!Idle, Auth!None, Auth!Refreshing
  <2> QED BY <1>2, <2>1, <2>2 DEF AuthCore, HoldsLock, OneAtATime, RequestIsGood,
             LoginIsGood, StoredIsGood, Good, Issued, LoginApart
<1>3. Calm' => Calm
  BY DEF Auth!LoginStarts, Calm
<1> QED BY <1>1, <1>2, <1>3 DEF AuthInv

LEMMA ExchangeStep ==
  ASSUME AuthInv, Auth!Exchange
  PROVE  AuthInv'
<1> DEFINE new == [access |-> service.last + 1, refresh |-> service.last + 1]
<1>1. new \in Token /\ new.access # 0 /\ new.refresh = service.last + 1
  BY DEF AuthInv, AuthTypes, Token
<1>2. /\ login.pc = "wait" /\ login' = [pc |-> "save", token |-> new]
      /\ service' = [refresh |-> (service.refresh \ {0}) \cup {new.refresh},
                     valid |-> service.valid \cup {new.access}, last |-> service.last + 1]
      /\ UNCHANGED <<keyring, file, lock, authTask, logout, authFaults, reused, overlap>>
  BY DEF Auth!Exchange, Auth!Gives, Auth!None
<1> HIDE DEF new
<1>3. AuthTypes'
  BY <1>1, <1>2 DEF AuthInv, AuthTypes, Exchanging, Token
<1>4. ASSUME Calm, AuthCore PROVE AuthCore'
  <2>1. /\ Auth!Idle' = Auth!Idle /\ Auth!None' = Auth!None /\ Auth!Load' = Auth!Load
        /\ (Auth!Refreshing' <=> Auth!Refreshing)
    BY <1>2 DEF Auth!Idle, Auth!None, Auth!Load, Auth!Refreshing
  <2>2. /\ login'.pc = "save" /\ login'.token = new /\ service.last \in Nat
        /\ service'.refresh = service.refresh \cup {new.refresh}
        /\ service'.last = service.last + 1
    BY <1>2, <1>4 DEF AuthInv, AuthTypes, AuthCore, Issued
  <2>3. HoldsLock' /\ OneAtATime'
    BY <1>2, <1>4, <2>1, <2>2 DEF AuthCore, HoldsLock, OneAtATime
  <2>4. RequestIsGood' /\ LoginIsGood' /\ StoredIsGood'
    BY <1>1, <1>2, <1>4, <2>1, <2>2 DEF AuthCore, RequestIsGood, LoginIsGood, StoredIsGood, Good
  <2>5. \A u \in Requests : authTask[u].token.refresh \in Nat
    BY DEF AuthInv, AuthTypes, Request, Token
  <2>6. Issued' /\ LoginApart'
    BY <1>1, <1>2, <1>4, <2>2, <2>5 DEF AuthCore, Issued, LoginApart
  <2> QED BY <1>2, <1>4, <2>3, <2>4, <2>6 DEF AuthCore
<1>5. Calm' => Calm
  BY <1>2 DEF Calm
<1> QED BY <1>3, <1>4, <1>5 DEF AuthInv

LEMMA LoginFailsStep ==
  ASSUME AuthInv, Auth!LoginFails
  PROVE  AuthInv'
<1>1. AuthTypes'
  BY AuthTyped DEF AuthInv, AuthTypes, Auth!LoginFails, Auth!Fault, Auth!Idle
<1> QED BY <1>1, Disturbed DEF Auth!LoginFails, AuthInv

LEMMA LoginSavesStep ==
  ASSUME AuthInv, Auth!LoginSaves
  PROVE  AuthInv'
<1>1. login.token \in Token /\ login.pc = "save"
  BY DEF AuthInv, AuthTypes, Auth!LoginSaves, Exchanging
<1>2. AuthTypes'
  BY <1>1, AuthTyped DEF AuthInv, AuthTypes, Auth!LoginSaves, Auth!Save, Auth!SaveToKeyring,
     Auth!SaveToFile, Auth!Fault,
     Auth!NoFault, Auth!Idle
<1>3. Calm' => Calm
  BY DEF Calm, Auth!LoginSaves, Auth!Save, Auth!SaveToKeyring, Auth!SaveToFile, Auth!Fault,
         Auth!NoFault, AuthInv, AuthTypes
<1>4. ASSUME Calm, AuthCore, Calm' PROVE AuthCore'
  <2>1. /\ UNCHANGED <<service, lock, authTask, logout, reused>> /\ login' = Auth!Idle
        /\ Auth!Idle' = Auth!Idle /\ Auth!Idle.pc = "idle"
    BY DEF Auth!LoginSaves, Auth!Idle
  <2>2. /\ logout = Auth!Idle /\ login'.pc = "idle" /\ login'.token.refresh = 0
        /\ (Auth!Refreshing' <=> Auth!Refreshing)
    BY <1>1, <1>4, <2>1 DEF AuthCore, OneAtATime, Auth!Refreshing, Auth!Idle, Auth!None
  <2>3. Good(login.token) /\ login.token # Auth!None
    BY <1>1, <1>4 DEF AuthCore, LoginIsGood, Auth!None
  <2>4. /\ Auth!Load' = login.token
        /\ {keyring'.refresh, file'.refresh}
             \subseteq {keyring.refresh, file.refresh, login.token.refresh}
    BY <1>4, <2>3 DEF Auth!LoginSaves, Auth!Save, Auth!SaveToKeyring, Auth!SaveToFile,
       Auth!Fault, Calm, AuthInv, AuthTypes, Auth!Load, Auth!None
  <2>5. HoldsLock' /\ OneAtATime'
    BY <1>4, <2>1, <2>2 DEF AuthCore, HoldsLock, OneAtATime
  <2>6. RequestIsGood' /\ LoginIsGood' /\ StoredIsGood'
    BY <1>4, <2>1, <2>2, <2>3, <2>4 DEF AuthCore, RequestIsGood, LoginIsGood, StoredIsGood, Good
  <2>7. service.last \in Nat
    BY DEF AuthInv, AuthTypes
  <2>8. Issued' /\ LoginApart'
    BY <1>4, <2>1, <2>2, <2>4, <2>7 DEF AuthCore, Issued, LoginApart
  <2> QED BY <1>4, <2>1, <2>5, <2>6, <2>8 DEF AuthCore
<1> QED BY <1>2, <1>3, <1>4 DEF AuthInv

LEMMA RevokeStartsStep ==
  ASSUME AuthInv, Auth!RevokeStarts
  PROVE  AuthInv'
<1>1. AuthTypes'
  BY AuthTyped DEF AuthInv, AuthTypes, Auth!RevokeStarts, Exchanging
<1>2. ASSUME Calm, AuthCore, Calm' PROVE AuthCore'
  <2>1. login = Auth!Idle /\ ~Auth!Refreshing /\ logout'.pc = "post"
    BY <1>2 DEF Auth!RevokeStarts, Calm, AuthInv, AuthTypes
  <2>2. /\ UNCHANGED <<keyring, file, service, lock, authTask, login, reused>>
        /\ Auth!Idle' = Auth!Idle /\ Auth!Idle.pc = "idle"
        /\ (Auth!Refreshing' <=> Auth!Refreshing)
    BY DEF Auth!RevokeStarts, Auth!Idle, Auth!Refreshing
  <2> QED BY <1>2, <2>1, <2>2 DEF AuthCore, HoldsLock, OneAtATime, RequestIsGood,
             LoginIsGood, StoredIsGood, Good, Issued, LoginApart
<1>3. Calm' => Calm
  BY DEF Auth!RevokeStarts, Calm
<1> QED BY <1>1, <1>2, <1>3 DEF AuthInv

LEMMA RevokedStep ==
  ASSUME AuthInv, Auth!Revoked
  PROVE  AuthInv'
<1>1. /\ service' \in [refresh : SUBSET Nat, valid : SUBSET Nat, last : Nat]
      /\ service'.refresh \subseteq service.refresh /\ service'.last = service.last
  BY DEF AuthInv, AuthTypes, Auth!Revoked
<1>2. AuthTypes'
  BY <1>1 DEF AuthInv, AuthTypes, Auth!Revoked, Exchanging
<1>3. ASSUME Calm, AuthCore PROVE AuthCore'
  <2>1. /\ UNCHANGED <<keyring, file, lock, authTask, login, reused>>
        /\ Auth!Idle' = Auth!Idle /\ Auth!Idle.pc = "idle" /\ logout.pc = "post"
        /\ logout'.pc = "delete" /\ (Auth!Refreshing' <=> Auth!Refreshing)
    BY DEF Auth!Revoked, Auth!Idle, Auth!Refreshing, AuthInv, AuthTypes, Exchanging
  <2>2. login.pc = "idle" /\ ~Auth!Refreshing
    BY <1>3, <2>1 DEF AuthCore, OneAtATime
  <2> QED BY <1>1, <1>3, <2>1, <2>2 DEF AuthCore, HoldsLock, OneAtATime, RequestIsGood,
             LoginIsGood, StoredIsGood, Good, Issued, LoginApart, Auth!Refreshing
<1>4. Calm' => Calm
  BY DEF Auth!Revoked, Calm
<1> QED BY <1>2, <1>3, <1>4 DEF AuthInv

LEMMA RevokeFailsStep ==
  ASSUME AuthInv, Auth!RevokeFails
  PROVE  AuthInv'
<1>1. AuthTypes'
  BY AuthTyped DEF AuthInv, AuthTypes, Auth!RevokeFails, Auth!Fault, Auth!Idle
<1> QED BY <1>1, Disturbed DEF Auth!RevokeFails, AuthInv

LEMMA RevokeDeletesStep ==
  ASSUME AuthInv, Auth!RevokeDeletes
  PROVE  AuthInv'
<1>1. AuthTypes'
  BY AuthTyped DEF AuthInv, AuthTypes, Auth!RevokeDeletes, Auth!Delete, Auth!Fault,
     Auth!NoFault, Auth!Idle
<1>2. Calm' => Calm
  BY DEF Auth!RevokeDeletes, Auth!Delete, Auth!Fault, Auth!NoFault, Calm, AuthInv, AuthTypes
<1>3. ASSUME Calm, AuthCore, Calm' PROVE AuthCore'
  <2>1. /\ UNCHANGED <<service, lock, authTask, login, reused>>
        /\ Auth!Idle' = Auth!Idle /\ logout' = Auth!Idle
        /\ Auth!Idle.pc = "idle" /\ logout.pc = "delete"
    BY DEF Auth!RevokeDeletes, Auth!Idle
  <2>2. login.pc = "idle" /\ ~Auth!Refreshing
    BY <1>3, <2>1 DEF AuthCore, OneAtATime
  <2>3. keyring' = Auth!None /\ file' = Auth!None
    BY <1>3 DEF Auth!RevokeDeletes, Auth!Delete, Auth!Fault, Auth!NoFault, Calm, AuthInv, AuthTypes
  <2>4. /\ Auth!Load' = Auth!None' /\ keyring'.refresh = 0 /\ file'.refresh = 0
        /\ (Auth!Refreshing' <=> Auth!Refreshing) /\ service.last \in Nat
    BY <2>1, <2>3 DEF Auth!Load, Auth!None, Auth!Refreshing, AuthInv, AuthTypes
  <2> QED BY <1>3, <2>1, <2>2, <2>4 DEF AuthCore, HoldsLock, OneAtATime, RequestIsGood,
             LoginIsGood, StoredIsGood, Good, Issued, LoginApart
<1> QED BY <1>1, <1>2, <1>3 DEF AuthInv

(* Time passes, or the service drops an access token.                      *)
LEMMA ServiceStep ==
  ASSUME AuthInv, NEW a \in 1..MaxTokens, Auth!Expire(a) \/ Auth!Invalidate(a)
  PROVE  AuthInv'
<1>1. AuthTypes' /\ service'.refresh = service.refresh /\ service'.last = service.last
  BY DEF AuthInv, AuthTypes, Auth!Expire, Auth!Invalidate
<1>2. UNCHANGED <<keyring, file, lock, authTask, login, logout, authFaults, reused, overlap>>
  BY DEF Auth!Expire, Auth!Invalidate
<1> QED BY <1>1, <1>2, Unmoved DEF Calm

LEMMA AuthCrashStep ==
  ASSUME AuthInv, NEW p \in Auth!Processes, Auth!Crash(p)
  PROVE  AuthInv'
<1>1. authTask' \in [Requests -> Request] /\ lock' \in [Auth!Processes -> Requests \cup {"free"}]
  BY AuthTyped DEF AuthInv, AuthTypes, Auth!Crash
<1>2. AuthTypes'
  BY <1>1 DEF AuthInv, AuthTypes, Auth!Crash, Auth!Fault
<1> QED BY <1>2, Disturbed DEF Auth!Crash, AuthInv

-----------------------------------------------------------------------------
LEMMA AuthNextStep == AuthInv /\ Auth!Next => AuthInv'
BY TokenForRequestStep, TakeLockStep, AcceptedStep, RefusedStep, AnswerLostStep,
   SaveRefreshedStep, SaveFailsStep, SendStep, AgainStep, LoginStartsStep, ExchangeStep,
   LoginFailsStep, LoginSavesStep, RevokeStartsStep, RevokedStep, RevokeFailsStep,
   RevokeDeletesStep, ServiceStep, AuthCrashStep DEF Auth!Next, Auth!RequestStep

LEMMA AuthInductive == MCSpec => []AuthOk
<1>1. MCInit => AuthOk
  <2> SUFFICES ASSUME part = "auth", Auth!Init PROVE AuthInv
    BY DEF MCInit, AuthOk
  <2>1. AuthTypes
    BY AuthTyped DEF AuthTypes, Auth!Init, Auth!None, Auth!Idle, Auth!IdleTask, Token, Request,
       Exchanging
  <2>2. /\ Auth!Load = Auth!None /\ service.refresh = {} /\ service.last = 0 /\ ~reused
        /\ login = Auth!Idle /\ logout = Auth!Idle
        /\ keyring.refresh = 0 /\ file.refresh = 0 /\ login.token.refresh = 0
    BY DEF Auth!Init, Auth!Load, Auth!None, Auth!Idle
  <2>3. \A t \in Requests : authTask[t].pc = "idle"
    BY DEF Auth!Init, Auth!IdleTask
  <2>4. OneProcess => lock["all"] = "free"
    BY DEF Auth!Init, Auth!Processes
  <2> QED BY <2>1, <2>2, <2>3, <2>4, RequestsAssumption DEF AuthInv, Calm, AuthCore, HoldsLock,
          OneAtATime, RequestIsGood, LoginIsGood, StoredIsGood, Good, Issued, LoginApart,
          Auth!Refreshing, Auth!Idle
<1>2. AuthOk /\ [MCNext]_mcVars => AuthOk'
  <2> SUFFICES ASSUME AuthOk, [MCNext]_mcVars, part' = "auth" PROVE AuthInv'
    BY DEF AuthOk
  <2>1. CASE MCNext
    BY <2>1, AuthNextStep DEF MCNext, AuthOk
  <2>2. CASE UNCHANGED mcVars
    <3>1. UNCHANGED <<part, authVars>>
      BY <2>2 DEF mcVars
    <3>2. AuthInv /\ UNCHANGED authVars
      BY <3>1 DEF AuthOk
    <3>3. AuthTypes'
      BY <3>2 DEF AuthInv, AuthTypes, authVars
    <3> QED BY <3>2, <3>3, Unmoved DEF authVars, Calm
  <2> QED BY <2>1, <2>2
<1> QED BY <1>1, <1>2, PTL DEF MCSpec

(* While no call fails and no logout overlaps, one process never presents  *)
(* a refresh token twice, however many requests find their token expired   *)
(* or are answered 401 at once and whatever logins come between, and the   *)
(* stored token is good whenever nobody refreshes (refresh_loaded_token,   *)
(* under the lock of refresh_token).                                       *)
THEOREM TokenRefreshedOnce == MCSpec => []RefreshedOnce
<1>1. AuthOk => RefreshedOnce
  BY DEF AuthOk, AuthInv, Calm, AuthCore, StoredIsGood, Good, RefreshedOnce, Auth!RefreshedOnce
<1> QED BY <1>1, AuthInductive, PTL

-----------------------------------------------------------------------------
(* Manifest.                                                               *)

Proposed == [id : Nat, patch : Manif!Patches]
ApplyCall == [pc : {"idle", "apply", "save"}, take : Seq(Proposed), done : Seq(Nat)]

ManifTypes ==
  /\ recorded \in Nat /\ \A i \in DOMAIN pending : pending[i] \in Manif!Patches
  /\ approved \in Seq(Proposed) /\ applied \in Seq(Nat)
  /\ manifCalls \in [ApplyCalls -> ApplyCall]
  /\ \A c \in ApplyCalls : manifCalls[c].pc # "apply" => manifCalls[c].take = <<>>

(* No place has an id twice, ...                                           *)
IdsOf(s) == {s[k].id : k \in 1..Len(s)}
DistinctIds(s) == \A j, k \in 1..Len(s) : s[j].id = s[k].id => j = k
Members(s) == {s[k] : k \in 1..Len(s)}
DistinctMembers(s) == \A j, k \in 1..Len(s) : s[j] = s[k] => j = k

Taken(c) == IdsOf(manifCalls[c].take)

NoneTwice ==
  /\ DistinctIds(approved) /\ DistinctMembers(applied)
  /\ \A c \in ApplyCalls : DistinctIds(manifCalls[c].take)

(* ... no two places have the same id, ...                                 *)
Disjoint ==
  /\ \A i \in DOMAIN pending : i \notin IdsOf(approved) /\ i \notin Members(applied)
  /\ \A i \in IdsOf(approved) : i \notin Members(applied)
  /\ \A c \in ApplyCalls : \A i \in Taken(c) :
       i \notin DOMAIN pending /\ i \notin IdsOf(approved) /\ i \notin Members(applied)
  /\ \A c, d \in ApplyCalls : c # d => \A i \in Taken(c) : i \notin Taken(d)

(* ... and together they have what was recorded.                           *)
Complete ==
  \A i : i \in 1..recorded <=>
    \/ i \in DOMAIN pending \/ i \in IdsOf(approved) \/ i \in Members(applied)
    \/ \E c \in ApplyCalls : i \in Taken(c)

PlacesInv == ManifTypes /\ NoneTwice /\ Disjoint /\ Complete
PlacesOk == part = "manifest" /\ ~failed => PlacesInv

LEMMA NoIds == IdsOf(<<>>) = {} /\ Members(<<>>) = {} /\ DistinctIds(<<>>)
               /\ DistinctMembers(<<>>)
BY DEF IdsOf, Members, DistinctIds, DistinctMembers

LEMMA OneIdMore ==
  ASSUME NEW s \in Seq(Proposed), NEW x \in Proposed, x.id \notin IdsOf(s), DistinctIds(s)
  PROVE  /\ Append(s, x) \in Seq(Proposed)
         /\ IdsOf(Append(s, x)) = IdsOf(s) \cup {x.id} /\ DistinctIds(Append(s, x))
<1> DEFINE t == Append(s, x)
<1>1. /\ t \in Seq(Proposed) /\ Len(t) = Len(s) + 1 /\ t[Len(s) + 1] = x
      /\ Len(s) \in Nat /\ \A i \in 1..Len(s) : t[i] = s[i]
  BY AppendProperties
<1> HIDE DEF t
<1>2. \A k \in 1..Len(t) : k \in 1..Len(s) \/ k = Len(t)
  BY <1>1
<1>3. \A k \in 1..Len(s) : k \in 1..Len(t)
  BY <1>1
<1>4. IdsOf(t) = IdsOf(s) \cup {x.id}
  BY <1>1, <1>2, <1>3 DEF IdsOf
<1>5. \A k \in 1..Len(s) : s[k].id # x.id
  BY DEF IdsOf
<1>6. DistinctIds(t)
  BY <1>1, <1>2, <1>5 DEF DistinctIds
<1> QED BY <1>1, <1>4, <1>6 DEF t

(* What apply_approved adds when it takes every patch of the list.         *)
LEMMA AppliedIds ==
  ASSUME NEW a \in Seq(Nat), NEW s \in Seq(Proposed), NEW d, d = [k \in 1..Len(s) |-> s[k].id],
         DistinctMembers(a), DistinctIds(s), \A i \in IdsOf(s) : i \notin Members(a)
  PROVE  /\ d \in Seq(Nat) /\ a \o d \in Seq(Nat)
         /\ Members(a \o d) = Members(a) \cup IdsOf(s) /\ DistinctMembers(a \o d)
<1>0. \A x \in Proposed : x.id \in Nat
  BY DEF Proposed
<1>1. Len(s) \in Nat /\ \A k \in 1..Len(s) : s[k].id \in Nat
  BY <1>0, ElementOfSeq
<1>2. d \in [1..Len(s) -> Nat]
  BY <1>1
<1>3. d \in Seq(Nat) /\ Len(d) = Len(s) /\ \A k \in 1..Len(s) : d[k] = s[k].id
  BY <1>1, <1>2
<1> DEFINE t == a \o d
<1>4. /\ t \in Seq(Nat) /\ Len(t) = Len(a) + Len(s) /\ Len(a) \in Nat
      /\ \A i \in 1..Len(t) : t[i] = IF i <= Len(a) THEN a[i] ELSE d[i - Len(a)]
  BY <1>3, ConcatProperties
<1> HIDE DEF t
<1>5. \A i \in 1..Len(t) : \/ i \in 1..Len(a) /\ t[i] = a[i]
                           \/ i - Len(a) \in 1..Len(s) /\ t[i] = s[i - Len(a)].id
  <2> TAKE i \in 1..Len(t)
  <2>1. CASE i <= Len(a)
    BY <1>4, <2>1
  <2>2. CASE ~(i <= Len(a))
    <3>1. t[i] = d[i - Len(a)]
      BY <1>4, <2>2
    <3>2. \A n, m \in Nat : \A j \in 1..(n + m) : j > n => j - n \in 1..m
      OBVIOUS
    <3>3. i \in 1..(Len(a) + Len(s)) /\ i > Len(a)
      BY <1>4, <2>2
    <3>4. i - Len(a) \in 1..Len(s)
      BY <1>1, <1>4, <3>2, <3>3
    <3> QED BY <1>3, <3>1, <3>4
  <2> QED BY <2>1, <2>2
<1>6. \A k \in 1..Len(a) : k \in 1..Len(t) /\ t[k] = a[k]
  <2> TAKE k \in 1..Len(a)
  <2>1. k \in 1..Len(t) /\ k <= Len(a)
    BY <1>1, <1>4
  <2> QED BY <1>4, <2>1
<1>7. \A k \in 1..Len(s) : k + Len(a) \in 1..Len(t) /\ t[k + Len(a)] = s[k].id
  <2> TAKE k \in 1..Len(s)
  <2>1. /\ k + Len(a) \in 1..Len(t) /\ ~(k + Len(a) <= Len(a))
        /\ (k + Len(a)) - Len(a) = k
    BY <1>1, <1>4
  <2> QED BY <1>3, <1>4, <2>1
<1>8. Members(t) = Members(a) \cup IdsOf(s)
  <2>1. ASSUME NEW x \in Members(t) PROVE x \in Members(a) \cup IdsOf(s)
    BY <1>5 DEF Members, IdsOf
  <2>2. ASSUME NEW x \in Members(a) PROVE x \in Members(t)
    BY <1>6 DEF Members
  <2>3. ASSUME NEW x \in IdsOf(s) PROVE x \in Members(t)
    BY <1>7 DEF Members, IdsOf
  <2> QED BY <2>1, <2>2, <2>3
<1>9. ASSUME NEW j \in 1..Len(t), NEW k \in 1..Len(t), t[j] = t[k] PROVE j = k
  <2>1. \A i \in 1..Len(a), l \in 1..Len(s) : a[i] # s[l].id
    BY DEF Members, IdsOf
  <2>2. CASE j \in 1..Len(a) /\ t[j] = a[j] /\ k \in 1..Len(a) /\ t[k] = a[k]
    BY <1>9, <2>2 DEF DistinctMembers
  <2>3. CASE /\ j - Len(a) \in 1..Len(s) /\ t[j] = s[j - Len(a)].id
             /\ k - Len(a) \in 1..Len(s) /\ t[k] = s[k - Len(a)].id
    <3>1. j - Len(a) = k - Len(a)
      BY <1>9, <2>3 DEF DistinctIds
    <3> QED BY <1>4, <3>1
  <2> QED BY <1>5, <1>9, <2>1, <2>2, <2>3
<1> QED BY <1>3, <1>4, <1>8, <1>9 DEF t, DistinctMembers

-----------------------------------------------------------------------------
(* A proposal gets a number that nothing has.                              *)
LEMMA ProposeStep ==
  ASSUME PlacesInv, NEW p \in Manif!Patches, Manif!Propose(p)
  PROVE  PlacesInv'
<1>1. /\ recorded \in Nat /\ recorded' = recorded + 1
      /\ pending' = [i \in DOMAIN pending \cup {recorded'} |->
                       IF i = recorded' THEN p ELSE pending[i]]
      /\ UNCHANGED <<approved, applied, manifCalls>>
  BY DEF Manif!Propose, PlacesInv, ManifTypes
<1>2. /\ DOMAIN pending' = DOMAIN pending \cup {recorded'}
      /\ \A i \in DOMAIN pending' :
           pending'[i] = p \/ (i \in DOMAIN pending /\ pending'[i] = pending[i])
  <2>1. DOMAIN pending' = DOMAIN pending \cup {recorded'}
    BY <1>1
  <2> SUFFICES ASSUME NEW i \in DOMAIN pending'
               PROVE  pending'[i] = p \/ (i \in DOMAIN pending /\ pending'[i] = pending[i])
    BY <2>1
  <2>2. pending'[i] = IF i = recorded' THEN p ELSE pending[i]
    BY <1>1, <2>1
  <2> QED BY <2>1, <2>2
<1>3. /\ IdsOf(approved)' = IdsOf(approved) /\ Members(applied)' = Members(applied)
      /\ \A c \in ApplyCalls : Taken(c)' = Taken(c)
  BY <1>1 DEF IdsOf, Members, Taken
<1>4. recorded' \notin 1..recorded /\ \A i : i \in 1..recorded' <=> i \in 1..recorded \/ i = recorded'
  BY <1>1
<1>5. ManifTypes'
  BY <1>1, <1>2 DEF PlacesInv, ManifTypes
<1>6. NoneTwice'
  BY <1>1 DEF PlacesInv, NoneTwice, DistinctIds, DistinctMembers
<1>7. Disjoint'
  BY <1>2, <1>3, <1>4 DEF PlacesInv, Disjoint, Complete
<1>8. Complete'
  BY <1>2, <1>3, <1>4 DEF PlacesInv, Complete
<1> QED BY <1>5, <1>6, <1>7, <1>8 DEF PlacesInv

LEMMA ApproveStep ==
  ASSUME PlacesInv, NEW i, Manif!ApproveProposal(i)
  PROVE  PlacesInv'
<1> DEFINE x == [id |-> i, patch |-> pending[i]]
<1>1. /\ i \in DOMAIN pending /\ pending' = Manif!Without(pending, i)
      /\ approved' = Append(approved, x) /\ UNCHANGED <<recorded, applied, manifCalls>>
  BY DEF Manif!ApproveProposal
<1>2. pending' = [y \in DOMAIN pending \ {i} |-> pending[y]]
  BY <1>1 DEF Manif!Without
<1>3. /\ DOMAIN pending' = DOMAIN pending \ {i}
      /\ \A y \in DOMAIN pending' : pending'[y] = pending[y]
  BY <1>2
<1>4. x \in Proposed /\ x.id = i
  BY <1>1 DEF PlacesInv, ManifTypes, Complete, Proposed
<1> HIDE DEF x
<1>5. /\ approved' \in Seq(Proposed) /\ IdsOf(approved)' = IdsOf(approved) \cup {i}
      /\ DistinctIds(approved)'
  <2>1. approved \in Seq(Proposed) /\ x.id \notin IdsOf(approved) /\ DistinctIds(approved)
    BY <1>1, <1>4 DEF PlacesInv, ManifTypes, NoneTwice, Disjoint
  <2>2. /\ Append(approved, x) \in Seq(Proposed)
        /\ IdsOf(Append(approved, x)) = IdsOf(approved) \cup {x.id}
        /\ DistinctIds(Append(approved, x))
    BY <1>4, <2>1, OneIdMore
  <2> QED BY <1>1, <1>4, <2>2 DEF IdsOf, DistinctIds
<1>6. Members(applied)' = Members(applied) /\ \A c \in ApplyCalls : Taken(c)' = Taken(c)
  BY <1>1 DEF IdsOf, Members, Taken
<1>7. ManifTypes'
  BY <1>1, <1>3, <1>5 DEF PlacesInv, ManifTypes
<1>8. NoneTwice'
  BY <1>1, <1>5 DEF PlacesInv, NoneTwice, DistinctIds, DistinctMembers
<1>9. Disjoint'
  BY <1>1, <1>3, <1>5, <1>6 DEF PlacesInv, Disjoint
<1>10. Complete'
  BY <1>1, <1>3, <1>5, <1>6 DEF PlacesInv, Complete
<1> QED BY <1>7, <1>8, <1>9, <1>10 DEF PlacesInv

(* drain_approved moves the whole list to one call.                        *)
LEMMA DrainStep ==
  ASSUME PlacesInv, NEW c \in ApplyCalls, Manif!DrainApproved(c)
  PROVE  PlacesInv'
<1>1. /\ manifCalls' = [manifCalls EXCEPT ![c] =
                          [pc |-> "apply", take |-> approved, done |-> <<>>]]
      /\ approved' = <<>> /\ UNCHANGED <<pending, recorded, applied>>
  BY DEF Manif!DrainApproved
<1>2. approved \in Seq(Proposed) /\ manifCalls \in [ApplyCalls -> ApplyCall]
  BY DEF PlacesInv, ManifTypes
<1>3. manifCalls'[c].take = approved /\ \A d \in ApplyCalls : d # c => manifCalls'[d] = manifCalls[d]
  BY <1>1, <1>2
<1>4. IdsOf(approved') = {} /\ DistinctIds(approved')
  BY <1>1, NoIds
<1>5. ManifTypes'
  <2>1. <<>> \in Seq(Nat) /\ approved' \in Seq(Proposed)
    BY <1>1, EmptySeq
  <2>2. [pc |-> "apply", take |-> approved, done |-> <<>>] \in ApplyCall
    BY <1>2, <2>1 DEF ApplyCall
  <2>3. manifCalls' \in [ApplyCalls -> ApplyCall] /\ manifCalls'[c].pc = "apply"
    BY <1>1, <1>2, <2>2
  <2> QED BY <1>1, <1>3, <2>1, <2>3 DEF PlacesInv, ManifTypes
<1>0. Taken(c) = {}
  BY NoIds DEF Manif!DrainApproved, PlacesInv, ManifTypes, Taken
<1>6. /\ IdsOf(approved)' = {} /\ Members(applied)' = Members(applied)
      /\ Taken(c)' = IdsOf(approved) /\ \A d \in ApplyCalls : d # c => Taken(d)' = Taken(d)
  BY <1>1, <1>3, <1>4 DEF IdsOf, Members, Taken
<1>7. NoneTwice'
  BY <1>1, <1>3, <1>4 DEF PlacesInv, NoneTwice, DistinctIds, DistinctMembers
<1>8. Disjoint'
  BY <1>0, <1>1, <1>6 DEF PlacesInv, Disjoint
<1>9. Complete'
  BY <1>0, <1>1, <1>6 DEF PlacesInv, Complete
<1> QED BY <1>5, <1>7, <1>8, <1>9 DEF PlacesInv

(* apply_approved_manifest_patches: a call whose patches are all accepted  *)
(* applies what it took; any other has failed.                             *)
LEMMA ApplyStep ==
  ASSUME PlacesInv, NEW c \in ApplyCalls, Manif!ApplyApproved(c), ~failed'
  PROVE  PlacesInv'
<1> DEFINE take == manifCalls[c].take
<1>1. take \in Seq(Proposed) /\ manifCalls \in [ApplyCalls -> ApplyCall]
      /\ applied \in Seq(Nat)
  BY DEF PlacesInv, ManifTypes, ApplyCall
<1>2. PICK done :
        /\ done = [k \in 1..Len(take) |-> take[k].id]
        /\ applied' = applied \o done
        /\ manifCalls' = [manifCalls EXCEPT ![c] =
                            [pc |-> "save", take |-> <<>>, done |-> done]]
  <2>1. PICK policy \in Manif!OnFailure :
          LET result == Manif!Applied(live, take, policy) IN
            /\ applied' = applied \o result.done
            /\ manifCalls' = [manifCalls EXCEPT ![c] =
                 IF result.ok THEN [pc |-> "save", take |-> <<>>, done |-> result.done]
                 ELSE Manif!NoCall]
            /\ failed' = (failed \/ ~result.ok)
    BY DEF Manif!ApplyApproved
  <2> DEFINE result == Manif!Applied(live, take, policy)
  <2>2. result.ok
    BY <2>1
  <2>3. result.done = [k \in 1..Len(take) |-> take[k].id]
    BY <2>2 DEF Manif!Applied
  <2> HIDE DEF result
  <2> QED BY <2>1, <2>2, <2>3 DEF result
<1>3. UNCHANGED <<pending, approved, recorded>>
  BY DEF Manif!ApplyApproved
<1>4. /\ DistinctMembers(applied) /\ DistinctIds(take)
      /\ \A i \in IdsOf(take) : i \notin Members(applied)
  BY DEF PlacesInv, NoneTwice, Disjoint, Taken
<1> HIDE DEF take
<1>5. /\ done \in Seq(Nat) /\ applied' \in Seq(Nat)
      /\ Members(applied)' = Members(applied) \cup IdsOf(take) /\ DistinctMembers(applied)'
  <2>1. /\ done \in Seq(Nat) /\ applied \o done \in Seq(Nat)
        /\ Members(applied \o done) = Members(applied) \cup IdsOf(take)
        /\ DistinctMembers(applied \o done)
    BY <1>1, <1>2, <1>4, AppliedIds
  <2> DEFINE all == applied \o done
  <2>2. applied' = all
    BY <1>2
  <2> HIDE DEF all
  <2>3. Members(applied)' = Members(all) /\ (DistinctMembers(all) => DistinctMembers(applied)')
    BY <2>2 DEF Members, DistinctMembers
  <2> QED BY <2>1, <2>2, <2>3 DEF all
<1>6. /\ manifCalls'[c].take = <<>>
      /\ \A d \in ApplyCalls : d # c => manifCalls'[d] = manifCalls[d]
  BY <1>1, <1>2
<1>7. ManifTypes'
  <2>1. [pc |-> "save", take |-> <<>>, done |-> done] \in ApplyCall
    BY <1>5, EmptySeq DEF ApplyCall
  <2>2. manifCalls' \in [ApplyCalls -> ApplyCall]
    BY <1>1, <1>2, <2>1
  <2> QED BY <1>3, <1>5, <1>6, <2>2 DEF PlacesInv, ManifTypes
<1>8. /\ IdsOf(approved)' = IdsOf(approved) /\ Taken(c) = IdsOf(take) /\ Taken(c)' = {}
      /\ \A d \in ApplyCalls : d # c => Taken(d)' = Taken(d)
  BY <1>3, <1>6, NoIds DEF IdsOf, Taken, take
<1>9. NoneTwice'
  <2>1. DistinctIds(manifCalls'[c].take)
    BY <1>6, NoIds
  <2> QED BY <1>3, <1>5, <1>6, <2>1 DEF PlacesInv, NoneTwice, DistinctIds
<1>10. Disjoint'
  BY <1>3, <1>5, <1>8 DEF PlacesInv, Disjoint
<1>11. Complete'
  BY <1>3, <1>5, <1>8 DEF PlacesInv, Complete
<1> QED BY <1>7, <1>9, <1>10, <1>11 DEF PlacesInv

(* A call that is over gives its place up; it has taken nothing by then.   *)
LEMMA SavedStep ==
  ASSUME PlacesInv, NEW c \in ApplyCalls, Manif!SaveApplied(c)
  PROVE  PlacesInv'
<1>1. /\ manifCalls[c].pc = "save" /\ manifCalls' = [manifCalls EXCEPT ![c] = Manif!NoCall]
      /\ UNCHANGED <<pending, approved, recorded, applied>>
  BY DEF Manif!SaveApplied
<1>2. /\ manifCalls \in [ApplyCalls -> ApplyCall] /\ manifCalls[c].take = <<>>
      /\ Manif!NoCall \in ApplyCall /\ Manif!NoCall.take = <<>>
  BY <1>1, EmptySeq DEF PlacesInv, ManifTypes, ApplyCall, Manif!NoCall
<1>3. /\ manifCalls' \in [ApplyCalls -> ApplyCall]
      /\ \A d \in ApplyCalls : manifCalls'[d].take = manifCalls[d].take
      /\ \A d \in ApplyCalls : manifCalls'[d] = manifCalls[d] \/ manifCalls'[d].take = <<>>
  BY <1>1, <1>2
<1>4. /\ IdsOf(approved)' = IdsOf(approved) /\ Members(applied)' = Members(applied)
      /\ \A d \in ApplyCalls : Taken(d)' = Taken(d)
  BY <1>1, <1>3 DEF IdsOf, Members, Taken
<1>5. ManifTypes'
  BY <1>1, <1>3 DEF PlacesInv, ManifTypes
<1>6. NoneTwice'
  BY <1>1, <1>3 DEF PlacesInv, NoneTwice, DistinctIds, DistinctMembers
<1>7. Disjoint' /\ Complete'
  BY <1>1, <1>4 DEF PlacesInv, Disjoint, Complete
<1> QED BY <1>5, <1>6, <1>7 DEF PlacesInv

LEMMA PlacesKept ==
  ASSUME PlacesInv, UNCHANGED <<pending, approved, recorded, applied, manifCalls>>
  PROVE  PlacesInv'
<1>1. /\ IdsOf(approved)' = IdsOf(approved) /\ Members(applied)' = Members(applied)
      /\ \A c \in ApplyCalls : Taken(c)' = Taken(c)
  BY DEF IdsOf, Members, Taken
<1>2. ManifTypes'
  BY DEF PlacesInv, ManifTypes
<1>3. NoneTwice'
  BY DEF PlacesInv, NoneTwice, DistinctIds, DistinctMembers
<1>4. Disjoint' /\ Complete'
  BY <1>1 DEF PlacesInv, Disjoint, Complete
<1> QED BY <1>2, <1>3, <1>4 DEF PlacesInv

(* A process begins with no proposals.                                     *)
NoneYet ==
  /\ recorded = 0 /\ pending = Manif!NoFun /\ approved = <<>> /\ applied = <<>>
  /\ manifCalls = [c \in ApplyCalls |-> Manif!NoCall]

LEMMA NoProposals == NoneYet => PlacesInv
<1> SUFFICES ASSUME NoneYet PROVE PlacesInv
  OBVIOUS
<1>1. /\ DOMAIN pending = {} /\ recorded = 0 /\ approved = <<>> /\ applied = <<>>
      /\ manifCalls = [c \in ApplyCalls |-> Manif!NoCall]
  BY DEF NoneYet, Manif!NoFun
<1>2. <<>> \in Seq(Nat) /\ <<>> \in Seq(Proposed)
  BY EmptySeq
<1>3. Manif!NoCall \in ApplyCall /\ Manif!NoCall.take = <<>>
  BY <1>2 DEF ApplyCall, Manif!NoCall
<1>4. ManifTypes
  BY <1>1, <1>2, <1>3 DEF ManifTypes
<1>5. NoneTwice
  BY <1>1, <1>3, NoIds DEF NoneTwice
<1>6. IdsOf(approved) = {} /\ Members(applied) = {} /\ \A c \in ApplyCalls : Taken(c) = {}
  BY <1>1, <1>3, NoIds DEF Taken
<1>7. Disjoint /\ Complete
  BY <1>1, <1>6 DEF Disjoint, Complete
<1> QED BY <1>4, <1>5, <1>7 DEF PlacesInv

LEMMA PlacesInductive == MCSpec => []PlacesOk
<1>1. MCInit => PlacesOk
  BY NoProposals DEF MCInit, PlacesOk, Manif!Init, NoneYet
<1>2. PlacesOk /\ [MCNext]_mcVars => PlacesOk'
  <2> SUFFICES ASSUME PlacesOk, [MCNext]_mcVars, part' = "manifest", ~failed'
               PROVE  PlacesInv'
    BY DEF PlacesOk
  <2>1. CASE UNCHANGED mcVars
    BY <2>1, PlacesKept DEF mcVars, manifestVars, PlacesOk
  <2>2. CASE MCNext
    <3>1. part = "manifest" /\ Manif!Next
      BY <2>2 DEF MCNext
    <3>2. ASSUME NEW c \in ApplyCalls, Manif!SaveFails(c) PROVE FALSE
      BY <3>2 DEF Manif!SaveFails
    <3>3. CASE Manif!Restart
      <4>1. NoneYet'
        BY <3>3 DEF Manif!Restart, NoneYet, Manif!NoFun, Manif!NoCall
      <4> QED BY <4>1, NoProposals, PTL
    <3>4. CASE ~Manif!Restart
      <4>1. ~failed
        BY <3>1, <3>2, <3>4 DEF Manif!Next, Manif!Propose, Manif!ApproveProposal,
           Manif!DrainApproved, Manif!ApplyApproved, Manif!SaveApplied, Manif!BuildRuntime
      <4>2. PlacesInv
        BY <3>1, <4>1 DEF PlacesOk
      <4>3. CASE Manif!BuildRuntime
        BY <4>2, <4>3, PlacesKept DEF Manif!BuildRuntime
      <4> QED BY <3>1, <3>2, <3>4, <4>2, <4>3, ProposeStep, ApproveStep, DrainStep, ApplyStep,
             SavedStep DEF Manif!Next
    <3> QED BY <3>3, <3>4
  <2> QED BY <2>1, <2>2
<1> QED BY <1>1, <1>2, PTL DEF MCSpec

-----------------------------------------------------------------------------
LEMMA SameCount == \A S : Manif!Cardinality(S) = Cardinality(S)
BY DEF Manif!Cardinality, Cardinality

LEMMA CountOne ==
  ASSUME NEW S, NEW x, S = {x}
  PROVE  Manif!Cardinality(S) = 1
BY SameCount, FS_Singleton

LEMMA CountNone ==
  ASSUME NEW S, S = {}
  PROVE  Manif!Cardinality(S) = 0
BY SameCount, FS_EmptySet

LEMMA PlacesCounted ==
  ASSUME PlacesInv, NEW i \in 1..recorded
  PROVE  Manif!Places(i) = 1
<1> DEFINE P == {i} \cap DOMAIN pending
           A == {k \in DOMAIN approved : approved[k].id = i}
           T == {c \in ApplyCalls : \E k \in DOMAIN manifCalls[c].take :
                                     manifCalls[c].take[k].id = i}
           D == {k \in DOMAIN applied : applied[k] = i}
<1>1. /\ DOMAIN approved = 1..Len(approved) /\ DOMAIN applied = 1..Len(applied)
      /\ \A c \in ApplyCalls : DOMAIN manifCalls[c].take = 1..Len(manifCalls[c].take)
  BY DEF PlacesInv, ManifTypes, ApplyCall
<1>2. i \notin DOMAIN pending => P = {}
  OBVIOUS
<1>3. i \in DOMAIN pending => P = {i}
  OBVIOUS
<1>4. i \notin IdsOf(approved) => A = {}
  BY <1>1 DEF IdsOf
<1>5. i \in IdsOf(approved) => \E k : A = {k}
  <2> HAVE i \in IdsOf(approved)
  <2>1. PICK k \in 1..Len(approved) : approved[k].id = i
    BY DEF IdsOf
  <2>2. A = {k}
    BY <1>1, <2>1 DEF PlacesInv, NoneTwice, DistinctIds
  <2> QED BY <2>2
<1>6. i \notin Members(applied) => D = {}
  BY <1>1 DEF Members
<1>7. i \in Members(applied) => \E k : D = {k}
  <2> HAVE i \in Members(applied)
  <2>1. PICK k \in 1..Len(applied) : applied[k] = i
    BY DEF Members
  <2>2. D = {k}
    BY <1>1, <2>1 DEF PlacesInv, NoneTwice, DistinctMembers
  <2> QED BY <2>2
<1>8. \A c \in ApplyCalls : c \in T <=> i \in Taken(c)
  BY <1>1 DEF Taken, IdsOf
<1>9. \A c, d \in ApplyCalls : i \in Taken(c) /\ i \in Taken(d) => c = d
  BY DEF PlacesInv, Disjoint
<1> HIDE DEF P, A, D
<1>10. CASE i \in DOMAIN pending
  <2>1. i \notin IdsOf(approved) /\ i \notin Members(applied)
        /\ \A c \in ApplyCalls : i \notin Taken(c)
    BY <1>10 DEF PlacesInv, Disjoint
  <2>2. T = {}
    BY <1>8, <2>1
  <2> HIDE DEF T
  <2>3. /\ Manif!Cardinality(P) = 1 /\ Manif!Cardinality(A) = 0
        /\ Manif!Cardinality(T) = 0 /\ Manif!Cardinality(D) = 0
    BY <1>3, <1>4, <1>6, <1>10, <2>1, <2>2, CountOne, CountNone
  <2> QED BY <2>3 DEF Manif!Places, P, A, T, D
<1>11. CASE i \in IdsOf(approved)
  <2>1. i \notin DOMAIN pending /\ i \notin Members(applied)
        /\ \A c \in ApplyCalls : i \notin Taken(c)
    BY <1>11 DEF PlacesInv, Disjoint
  <2>2. T = {}
    BY <1>8, <2>1
  <2> HIDE DEF T
  <2>3. /\ Manif!Cardinality(P) = 0 /\ Manif!Cardinality(A) = 1
        /\ Manif!Cardinality(T) = 0 /\ Manif!Cardinality(D) = 0
    BY <1>2, <1>5, <1>6, <1>11, <2>1, <2>2, CountOne, CountNone
  <2> QED BY <2>3 DEF Manif!Places, P, A, T, D
<1>12. CASE i \in Members(applied)
  <2>1. i \notin DOMAIN pending /\ i \notin IdsOf(approved)
        /\ \A c \in ApplyCalls : i \notin Taken(c)
    BY <1>12 DEF PlacesInv, Disjoint
  <2>2. T = {}
    BY <1>8, <2>1
  <2> HIDE DEF T
  <2>3. /\ Manif!Cardinality(P) = 0 /\ Manif!Cardinality(A) = 0
        /\ Manif!Cardinality(T) = 0 /\ Manif!Cardinality(D) = 1
    BY <1>2, <1>4, <1>7, <1>12, <2>1, <2>2, CountOne, CountNone
  <2> QED BY <2>3 DEF Manif!Places, P, A, T, D
<1>13. ASSUME NEW c \in ApplyCalls, i \in Taken(c) PROVE Manif!Places(i) = 1
  <2>1. i \notin DOMAIN pending /\ i \notin IdsOf(approved) /\ i \notin Members(applied)
    BY <1>13 DEF PlacesInv, Disjoint
  <2>2. T = {c}
    BY <1>8, <1>9, <1>13
  <2> HIDE DEF T
  <2>3. /\ Manif!Cardinality(P) = 0 /\ Manif!Cardinality(A) = 0
        /\ Manif!Cardinality(T) = 1 /\ Manif!Cardinality(D) = 0
    BY <1>2, <1>4, <1>6, <2>1, <2>2, CountOne, CountNone
  <2> QED BY <2>3 DEF Manif!Places, P, A, T, D
<1> QED BY <1>10, <1>11, <1>12, <1>13 DEF PlacesInv, Complete

(* As long as no call failed, a proposal is pending, approved, taken by    *)
(* one call or applied, and in one of these places only: of overlapping    *)
(* calls of apply_approved none applies what another took.                 *)
THEOREM OnePlaceEach == MCSpec => []ProposalInOnePlace
<1>1. PlacesOk => ProposalInOnePlace
  BY PlacesCounted DEF PlacesOk, ProposalInOnePlace, Manif!ProposalInOnePlace
<1> QED BY <1>1, PlacesInductive, PTL

-----------------------------------------------------------------------------
(* Every set of numbers that holds one holds a least one.                  *)
LEMMA Less == \E R : IsWellFoundedOn(R, Nat) /\ \A x, y \in Nat : <<y, x>> \in R <=> y < x
<1>1. \A x, y \in Nat : <<y, x>> \in OpToRel(<, Nat) <=> y < x
  BY DEF OpToRel
<1> WITNESS OpToRel(<, Nat)
<1>2. IsWellFoundedOn(OpToRel(<, Nat), Nat)
  BY NatLessThanWellFounded
<1> QED BY <1>1, <1>2

LEMMA Least ==
  ASSUME NEW T \in SUBSET Nat, NEW n \in T
  PROVE  \E m \in T : \A k \in T : m <= k
<1>1. PICK R : IsWellFoundedOn(R, Nat) /\ \A x, y \in Nat : <<y, x>> \in R <=> y < x
  BY Less
<1>2. PICK x \in T : \A y \in T : ~(<<y, x>> \in R)
  BY <1>1, WFMin
<1>3. \A y \in T : ~(y < x)
  BY <1>1, <1>2
<1> QED BY <1>2, <1>3

-----------------------------------------------------------------------------
(* FileEdit.                                                               *)

(* Operations as the calls give them.                                      *)
Operations ==
  {o \in [kind : {"write", "replace", "add", "delete", "update", "move"},
          path : DOMAIN PathOf, to : DOMAIN PathOf \cup {Edit!NoName}] :
     o.kind = "move" => o.to # Edit!NoName}

(* A result of the validation that stages no path but those of P.          *)
Within(r, P) == r = [st |-> r.st, err |-> r.err] /\ DOMAIN r.st \subseteq P

LEMMA PutWithin ==
  ASSUME NEW P, NEW p \in P, NEW f, NEW r, Within(r, P)
  PROVE  Within([r EXCEPT !.st = Edit!Put(r.st, p, f)], P)
<1>1. DOMAIN Edit!Put(r.st, p, f) = DOMAIN r.st \cup {p}
  BY DEF Edit!Put
<1>2. [r EXCEPT !.st = Edit!Put(r.st, p, f)] = [st |-> Edit!Put(r.st, p, f), err |-> r.err]
  BY DEF Within
<1> QED BY <1>1, <1>2 DEF Within

LEMMA RefusedWithin ==
  ASSUME NEW P, NEW r, NEW how, Within(r, P)
  PROVE  Within([r EXCEPT !.err = how], P)
BY DEF Within

LEMMA StageWithin ==
  ASSUME NEW P, NEW p \in P, NEW q \in P, NEW fs, NEW r, NEW text, NEW e, Within(r, P)
  PROVE  /\ Within(Edit!StageAdd(fs, r, p, text), P)
         /\ Within(Edit!StageDelete(fs, r, p), P)
         /\ Within(Edit!StageUpdate(fs, r, p, e), P)
         /\ Within(Edit!StageMove(fs, r, p, q), P)
<1>1. Within(Edit!Refused(r), P)
  BY RefusedWithin DEF Edit!Refused
<1>2. Within(Edit!StageAdd(fs, r, p, text), P)
  BY <1>1, PutWithin DEF Edit!StageAdd
<1>3. Within(Edit!StageDelete(fs, r, p), P)
  BY <1>1, PutWithin DEF Edit!StageDelete
<1>4. Within(Edit!StageUpdate(fs, r, p, e), P)
  BY <1>1, PutWithin DEF Edit!StageUpdate
<1>5. Within(Edit!StageMove(fs, r, p, q), P)
  <2> DEFINE moved == Edit!View(fs, r.st, p)
             once == [r EXCEPT !.st = Edit!Put(r.st, p, Edit!Gone)]
             twice == [once EXCEPT !.st = Edit!Put(once.st, q, moved)]
  <2>1. Within(once, P)
    BY PutWithin
  <2>2. Within(twice, P)
    <3> HIDE DEF once
    <3> QED BY <2>1, PutWithin
  <2>3. [r EXCEPT !.st = Edit!Put(Edit!Put(r.st, p, Edit!Gone), q, moved)] = twice
    BY DEF Within
  <2> HIDE DEF twice
  <2> QED BY <1>1, <2>2, <2>3 DEF Edit!StageMove
<1> QED BY <1>2, <1>3, <1>4, <1>5

LEMMA OpWithin ==
  ASSUME NEW P, NEW o \in Operations, o.kind \notin {"write", "replace"},
         Edit!Resolve(o.path) \in P, o.to # Edit!NoName => Edit!Resolve(o.to) \in P,
         NEW fs, NEW r, NEW e, Within(r, P)
  PROVE  Within(Edit!StageOp(fs, r, o, e), P)
<1> DEFINE p == Edit!Resolve(o.path)
           q == Edit!Resolve(o.to)
<1>1. p \in P /\ (o.to # Edit!NoName => q \in P)
  OBVIOUS
<1>2. o.kind \in {"add", "delete", "update", "move"} /\ (o.kind = "move" => o.to # Edit!NoName)
  BY DEF Operations
<1> HIDE DEF p, q
<1>3. CASE o.kind = "add"
  <2>1. Edit!StageOp(fs, r, o, e) = Edit!StageAdd(fs, r, p, {"context", e})
    BY <1>3 DEF Edit!StageOp, p
  <2> QED BY <1>1, <2>1, StageWithin
<1>4. CASE o.kind = "delete"
  <2>1. Edit!StageOp(fs, r, o, e) = Edit!StageDelete(fs, r, p)
    BY <1>4 DEF Edit!StageOp, p
  <2> QED BY <1>1, <2>1, StageWithin
<1>5. CASE o.kind = "move"
  <2>1. Edit!StageOp(fs, r, o, e) = Edit!StageMove(fs, r, p, q)
    BY <1>5 DEF Edit!StageOp, p, q
  <2> QED BY <1>1, <1>2, <1>5, <2>1, StageWithin
<1>6. CASE o.kind = "update"
  <2> DEFINE u == Edit!StageUpdate(fs, r, p, e)
  <2>1. Within(u, P)
    BY <1>1, StageWithin
  <2>2. Edit!StageOp(fs, r, o, e)
          = IF o.to = Edit!NoName \/ u.err # "none" THEN u ELSE Edit!StageMove(fs, u, p, q)
    BY <1>6 DEF Edit!StageOp, p, q
  <2> HIDE DEF u
  <2>3. o.to # Edit!NoName => Within(Edit!StageMove(fs, u, p, q), P)
    BY <1>1, <2>1, StageWithin
  <2> QED BY <2>1, <2>2, <2>3
<1> QED BY <1>2, <1>3, <1>4, <1>5, <1>6

-----------------------------------------------------------------------------
(* What validate_patch goes through.                                       *)
ValidatedTo(f, fs, ops, e, n) ==
  f = [i \in 0..n |-> IF i = 0 THEN Edit!Unstaged ELSE Edit!Validated(fs, ops, e, f[i - 1], i)]

LEMMA ValidatedExists ==
  ASSUME NEW S, NEW ops \in Seq(S), NEW fs, NEW e
  PROVE  \A n \in 0..Len(ops) : \E f : ValidatedTo(f, fs, ops, e, n)
<1> DEFINE T == {n \in 0..Len(ops) : ~ \E f : ValidatedTo(f, fs, ops, e, n)}
<1>1. Len(ops) \in Nat
  BY LenProperties
<1>2. SUFFICES ASSUME NEW n \in T PROVE FALSE
  OBVIOUS
<1>3. PICK m \in T : \A k \in T : m <= k
  <2>1. T \in SUBSET Nat
    BY <1>1
  <2> QED BY <2>1, Least
<1>4. m \in 0..Len(ops) /\ m \in Nat
  BY <1>1
<1>5. m # 0
  <2>1. ValidatedTo([i \in 0..0 |-> Edit!Unstaged], fs, ops, e, 0)
    BY DEF ValidatedTo
  <2> QED BY <2>1
<1>6. m - 1 \in 0..Len(ops) /\ m - 1 \notin T
  BY <1>1, <1>3, <1>4, <1>5
<1>7. PICK f : ValidatedTo(f, fs, ops, e, m - 1)
  BY <1>6
<1> DEFINE last == Edit!Validated(fs, ops, e, f[m - 1], m)
           g == [i \in 0..m |-> IF i = m THEN last ELSE f[i]]
<1> HIDE DEF last
<1>8. \A i \in 0..m : g[i] = IF i = 0 THEN Edit!Unstaged
                             ELSE Edit!Validated(fs, ops, e, g[i - 1], i)
  <2> TAKE i \in 0..m
  <2>1. CASE i = m
    BY <1>4, <1>5, <2>1 DEF last
  <2>2. CASE i # m
    <3>1. i \in 0..(m - 1) /\ (i # 0 => i - 1 \in 0..(m - 1) /\ i - 1 # m)
      BY <1>4, <2>2
    <3>2. f[i] = IF i = 0 THEN Edit!Unstaged ELSE Edit!Validated(fs, ops, e, f[i - 1], i)
      BY <1>7, <3>1 DEF ValidatedTo
    <3>3. g[i] = f[i] /\ (i # 0 => g[i - 1] = f[i - 1])
      BY <1>4, <2>2, <3>1
    <3> QED BY <3>2, <3>3
  <2> QED BY <2>1, <2>2
<1>9. ValidatedTo(g, fs, ops, e, m)
  BY <1>8 DEF ValidatedTo
<1> QED BY <1>9

(* No path is staged that the patch does not name.                         *)
LEMMA PatchWithin ==
  ASSUME NEW ops \in Seq(Operations), NEW fs, NEW e,
         \A i \in 1..Len(ops) : ops[i].kind \notin {"write", "replace"}
  PROVE  Within(Edit!ValidatePatch(fs, ops, e), Edit!Targets(ops))
<1> DEFINE after == CHOOSE f : ValidatedTo(f, fs, ops, e, Len(ops))
           P == Edit!Targets(ops)
<1>1. ValidatedTo(after, fs, ops, e, Len(ops))
  <2>1. Len(ops) \in 0..Len(ops)
    BY LenProperties
  <2> QED BY <2>1, ValidatedExists
<1>2. Edit!ValidatePatch(fs, ops, e) = after[Len(ops)]
  BY DEF Edit!ValidatePatch, ValidatedTo
<1> DEFINE T == {i \in 0..Len(ops) : ~Within(after[i], P)}
<1> HIDE DEF after
<1>3. Len(ops) \in Nat
  BY LenProperties
<1>4. SUFFICES ASSUME NEW n \in T PROVE FALSE
  BY <1>2, <1>3
<1>5. PICK m \in T : \A k \in T : m <= k
  <2>1. T \in SUBSET Nat
    BY <1>3
  <2> QED BY <2>1, Least
<1>6. after[m] = IF m = 0 THEN Edit!Unstaged ELSE Edit!Validated(fs, ops, e, after[m - 1], m)
  BY <1>1 DEF ValidatedTo
<1>7. m # 0
  <2>1. Within(Edit!Unstaged, P)
    BY DEF Within, Edit!Unstaged
  <2> HIDE DEF P
  <2> QED BY <1>6, <2>1
<1>8. Within(after[m - 1], P)
  BY <1>3, <1>5, <1>7
<1>9. m \in 1..Len(ops) /\ ops[m] \in Operations /\ ops[m].kind \notin {"write", "replace"}
  <2>1. m \in 1..Len(ops)
    BY <1>3, <1>7
  <2> QED BY <2>1, ElementOfSeq
<1>10. /\ Edit!Resolve(ops[m].path) \in P
       /\ ops[m].to # Edit!NoName => Edit!Resolve(ops[m].to) \in P
  <2>1. DOMAIN ops = 1..Len(ops)
    BY LenProperties
  <2> QED BY <1>9, <2>1 DEF Edit!Targets, Edit!NamesOf
<1> HIDE DEF P
<1>11. Within(Edit!StageOp(fs, after[m - 1], ops[m], e), P)
  BY <1>8, <1>9, <1>10, OpWithin
<1>12. Within(Edit!Validated(fs, ops, e, after[m - 1], m), P)
  BY <1>8, <1>11, RefusedWithin DEF Edit!Validated
<1> QED BY <1>6, <1>7, <1>12

-----------------------------------------------------------------------------
(* The input of a call: one whole write or replacement, or a patch.        *)
Fit(ops) ==
  /\ ops \in Seq(Operations) /\ 1 \in DOMAIN ops
  /\ \/ ops[1].kind \in {"write", "replace"}
     \/ \A i \in 1..Len(ops) : ops[i].kind \notin {"write", "replace"}

LEMMA InputsFit == \A e : \A ops \in Edit!Inputs(e) : Fit(ops)
<1> TAKE e
<1> TAKE ops \in Edit!Inputs(e)
<1> DEFINE ns == DOMAIN PathOf \ Aliases
           Patch == {o \in Operations : o.kind \notin {"write", "replace"}}
<1>1. \A ms \in SUBSET DOMAIN PathOf : Edit!Ops(ms) \subseteq Patch
  BY NamesAssumption DEF Edit!Ops, Edit!NoName, Operations
<1>2. Edit!Pairable \subseteq Patch
  <2>1. Edit!Pairable \subseteq Edit!Ops(DOMAIN PathOf)
    BY DEF Edit!Pairable, Edit!Names
  <2> QED BY <1>1, <2>1
<1>3. \/ \E k \in {"write", "replace"}, n \in ns :
           ops = <<[kind |-> k, path |-> n, to |-> Edit!NoName]>>
      \/ \E o \in Patch : ops = <<o>>
      \/ \E o1 \in Patch, o2 \in Patch : ops = <<o1, o2>>
  <2> DEFINE A == {<<[kind |-> k, path |-> n, to |-> Edit!NoName]>> :
                     k \in {"write", "replace"}, n \in ns}
             Long == IF e \in LongEditors THEN DOMAIN PathOf ELSE ns
             B == {<<o>> : o \in {o \in Edit!Ops(Long) : o.path \in ns}}
             C == IF e \in LongEditors THEN (Edit!Pairable \cap Edit!Ops(ns)) \X Edit!Pairable
                  ELSE {}
  <2>1. Edit!Inputs(e) = A \cup B \cup C
    BY DEF Edit!Inputs, Edit!Names
  <2> HIDE DEF Patch
  <2>2. ops \in A => \E k \in {"write", "replace"}, n \in ns :
           ops = <<[kind |-> k, path |-> n, to |-> Edit!NoName]>>
    OBVIOUS
  <2>3. ops \in B => \E o \in Patch : ops = <<o>>
    <3>1. Long \in SUBSET DOMAIN PathOf
      OBVIOUS
    <3> HIDE DEF Long, ns
    <3>2. Edit!Ops(Long) \subseteq Patch
      BY <1>1, <3>1
    <3> QED BY <3>2
  <2>4. ops \in C => \E o1 \in Patch, o2 \in Patch : ops = <<o1, o2>>
    BY <1>2
  <2> HIDE DEF A, B, C
  <2> QED BY <2>1, <2>2, <2>3, <2>4
<1> DEFINE Single(o) == o \in Operations /\ ops = <<o>>
<1>4. ASSUME NEW o \in Operations, ops = <<o>> PROVE Fit(ops)
  <2>1. ops \in Seq(Operations) /\ Len(ops) = 1 /\ ops[1] = o
    BY <1>4
  <2> HIDE DEF Patch
  <2> QED BY <2>1 DEF Fit
<1>5. ASSUME NEW o1 \in Patch, NEW o2 \in Patch, ops = <<o1, o2>> PROVE Fit(ops)
  <2>1. ops \in Seq(Operations) /\ Len(ops) = 2 /\ ops[1] = o1 /\ ops[2] = o2
    BY <1>5
  <2>2. o1.kind \notin {"write", "replace"} /\ o2.kind \notin {"write", "replace"}
    OBVIOUS
  <2>3. \A i \in 1..Len(ops) : ops[i].kind \notin {"write", "replace"}
    <3> HIDE DEF Patch
    <3>1. \A i \in 1..Len(ops) : i = 1 \/ i = 2
      BY <2>1
    <3> QED BY <2>1, <2>2, <3>1
  <2> HIDE DEF Patch
  <2> QED BY <2>1, <2>3 DEF Fit
<1>6. \A k \in {"write", "replace"}, n \in ns :
         [kind |-> k, path |-> n, to |-> Edit!NoName] \in Operations
  BY DEF Operations
<1>7. Patch \subseteq Operations
  OBVIOUS
<1> HIDE DEF Patch, ns
<1> QED BY <1>3, <1>4, <1>5, <1>6, <1>7

(* A call stages no path but those it names, and these are paths.          *)
LEMMA ValidateWithin ==
  ASSUME NEW ops, Fit(ops), NEW fs, NEW e
  PROVE  Within(Edit!Validate(fs, ops, e), Edit!Targets(ops))
<1> DEFINE P == Edit!Targets(ops)
<1>1. ops \in Seq(Operations) /\ 1 \in DOMAIN ops
  BY DEF Fit
<1>2. CASE ops[1].kind \in {"write", "replace"}
  <2> DEFINE p == Edit!Resolve(ops[1].path)
  <2>1. p \in P
    BY <1>1 DEF Edit!Targets, Edit!NamesOf
  <2>2. Within(Edit!Unstaged, P)
    BY DEF Within, Edit!Unstaged
  <2> HIDE DEF P, p
  <2>3. Edit!ValidateWrite(fs, ops[1], e)
          = IF fs[p] = Edit!Dir THEN Edit!Refused(Edit!Unstaged)
            ELSE IF ops[1].kind = "write"
                 THEN [Edit!Unstaged EXCEPT !.st = Edit!Put(Edit!Unstaged.st, p, {e})]
            ELSE Edit!StageUpdate(fs, Edit!Unstaged, p, e)
    BY DEF Edit!ValidateWrite, p, Edit!Unstaged
  <2>4. Within(Edit!Refused(Edit!Unstaged), P)
    BY <2>2, RefusedWithin DEF Edit!Refused
  <2>5. Within([Edit!Unstaged EXCEPT !.st = Edit!Put(Edit!Unstaged.st, p, {e})], P)
    BY <2>1, <2>2, PutWithin
  <2>6. Within(Edit!StageUpdate(fs, Edit!Unstaged, p, e), P)
    BY <2>1, <2>2, StageWithin
  <2>7. Within(Edit!ValidateWrite(fs, ops[1], e), P)
    BY <2>3, <2>4, <2>5, <2>6
  <2> QED BY <1>2, <2>7 DEF Edit!Validate, P
<1>3. CASE ops[1].kind \notin {"write", "replace"}
  <2>1. Within(Edit!ValidatePatch(fs, ops, e), P)
    BY <1>1, <1>3, PatchWithin DEF Fit
  <2> HIDE DEF P
  <2> QED BY <1>3, <2>1 DEF Edit!Validate, P
<1> QED BY <1>2, <1>3

LEMMA TargetsArePaths ==
  ASSUME NEW ops, Fit(ops)
  PROVE  Edit!Targets(ops) \subseteq Edit!Paths
<1>1. \A i \in DOMAIN ops : /\ ops[i].path \in DOMAIN PathOf
                            /\ ops[i].to \in DOMAIN PathOf \cup {Edit!NoName}
  BY DEF Fit, Operations
<1>2. Edit!NamesOf(ops) \subseteq DOMAIN PathOf
  BY <1>1 DEF Edit!NamesOf
<1> QED BY <1>2 DEF Edit!Targets, Edit!Paths, Edit!Names

-----------------------------------------------------------------------------
(* The locks of the edits.                                                 *)
Shaped ==
  /\ DOMAIN files = Edit!Paths
  /\ DOMAIN edit = Editors /\ DOMAIN pc = Editors /\ DOMAIN arcs = Editors
  /\ DOMAIN held = Editors /\ DOMAIN staged = Editors /\ DOMAIN seen = Editors
  /\ DOMAIN wrote = Editors
  /\ DOMAIN lockMap = Edit!Paths
  /\ \A e \in Editors : Fit(edit[e])

(* An edit has the map's locks, those of paths it names; once it goes on   *)
(* it holds them all, and it writes under them.                            *)
Locked(e) ==
  /\ held[e] \subseteq DOMAIN arcs[e]
  /\ DOMAIN arcs[e] \subseteq Edit!Targets(edit[e])
  /\ pc[e] = "locking" => DOMAIN arcs[e] = Edit!Targets(edit[e])
  /\ pc[e] \in {"locked", "commit"} => held[e] = Edit!Targets(edit[e])
  /\ \A p \in DOMAIN arcs[e] : arcs[e][p] = lockMap[p]
  /\ pc[e] = "commit" => DOMAIN staged[e] \subseteq held[e]

HeldApart == \A e, d \in Editors : e # d => held[e] \cap held[d] = {}

EditInv == Shaped /\ (\A e \in Editors : Locked(e)) /\ HeldApart /\ Edit!NoLostUpdate

LEMMA ArcsArePaths ==
  ASSUME EditInv, NEW e \in Editors
  PROVE  /\ DOMAIN arcs[e] \subseteq Edit!Paths
         /\ Edit!Targets(edit[e]) \subseteq Edit!Paths
BY TargetsArePaths DEF EditInv, Shaped, Locked

LEMMA EditInit == Edit!Init => EditInv
<1> SUFFICES ASSUME Edit!Init PROVE EditInv
  OBVIOUS
<1> USE DEF Edit!Init
<1>1. edit \in {f \in [Editors -> UNION {Edit!Inputs(e) : e \in Editors}] :
                  \A e \in Editors : f[e] \in Edit!Inputs(e)}
  OBVIOUS
<1>2. DOMAIN edit = Editors /\ \A e \in Editors : Fit(edit[e])
  BY <1>1, InputsFit
<1>3. Shaped
  BY <1>2 DEF Shaped
<1>4. \A e \in Editors : Locked(e)
  BY DEF Locked
<1>5. HeldApart
  BY DEF HeldApart
<1>6. Edit!NoLostUpdate
  BY DEF Edit!NoLostUpdate
<1> QED BY <1>3, <1>4, <1>5, <1>6 DEF EditInv

LEMMA FindLocksKeeps ==
  ASSUME EditInv, NEW e \in Editors, Edit!FindLocks(e)
  PROVE  EditInv'
<1> DEFINE ps == Edit!Targets(edit[e])
<1>1. /\ arcs' = [arcs EXCEPT ![e] = [p \in ps |-> Edit!LockOf(p)]]
      /\ lockMap' = [p \in Edit!Paths |-> IF p \in ps THEN Edit!LockOf(p)
                                          ELSE IF Edit!Alive(lockMap[p]) THEN lockMap[p]
                                          ELSE <<0, p>>]
      /\ pc[e] = "new" /\ pc' = [pc EXCEPT ![e] = "locking"]
      /\ UNCHANGED <<files, edit, held, staged, outcome, seen, wrote>>
  BY DEF Edit!FindLocks
<1>2. Shaped'
  BY <1>1 DEF EditInv, Shaped
<1>3. \A d \in Editors : \A p \in DOMAIN arcs[d] :
         /\ lockMap'[p] = lockMap[p]
         /\ p \in ps => Edit!LockOf(p) = lockMap[p]
  BY <1>1, ArcsArePaths DEF EditInv, Locked, Edit!Alive, Edit!LockOf
<1>4. ASSUME NEW d \in Editors PROVE Locked(d)'
  <2>1. CASE d = e
    <3>1. arcs'[e] = [p \in ps |-> Edit!LockOf(p)] /\ pc'[e] = "locking" /\ held'[e] = held[e]
      BY <1>1 DEF EditInv, Shaped
    <3>2. held[e] \subseteq ps
      BY DEF EditInv, Locked
    <3>3. \A p \in ps : lockMap'[p] = Edit!LockOf(p)
      BY <1>1, ArcsArePaths
    <3> HIDE DEF ps
    <3> QED BY <1>1, <2>1, <3>1, <3>2, <3>3 DEF Locked, ps
  <2>2. CASE d # e
    <3>1. arcs'[d] = arcs[d] /\ pc'[d] = pc[d]
      BY <1>1, <2>2 DEF EditInv, Shaped
    <3> QED BY <1>1, <1>3, <3>1 DEF EditInv, Locked
  <2> QED BY <2>1, <2>2
<1>5. HeldApart'
  BY <1>1 DEF EditInv, HeldApart
<1>6. Edit!NoLostUpdate'
  BY <1>1 DEF EditInv, Shaped, Edit!NoLostUpdate, Edit!Left
<1> QED BY <1>2, <1>4, <1>5, <1>6 DEF EditInv

LEMMA TakeLockKeeps ==
  ASSUME EditInv, NEW e \in Editors, Edit!TakeLock(e)
  PROVE  EditInv'
<1>1. PICK p \in Edit!Missing(e) :
        /\ Edit!Free(arcs[e][p])
        /\ held' = [held EXCEPT ![e] = held[e] \cup {p}]
        /\ pc' = [pc EXCEPT ![e] = IF Edit!Missing(e) = {p} THEN "locked" ELSE "locking"]
  BY DEF Edit!TakeLock
<1>2. pc[e] = "locking" /\ UNCHANGED <<files, edit, arcs, lockMap, staged, seen, wrote>>
  BY DEF Edit!TakeLock
<1>3. Shaped'
  BY <1>1, <1>2 DEF EditInv, Shaped
<1>4. ASSUME NEW d \in Editors PROVE Locked(d)'
  <2>1. CASE d = e
    <3>1. held'[e] = held[e] \cup {p} /\ pc'[e] = IF Edit!Missing(e) = {p} THEN "locked" ELSE "locking"
      BY <1>1 DEF EditInv, Shaped
    <3>2. p \in DOMAIN arcs[e] /\ (Edit!Missing(e) = {p} => held[e] \cup {p} = DOMAIN arcs[e])
      BY <1>1 DEF EditInv, Locked, Edit!Missing
    <3> QED BY <1>2, <2>1, <3>1, <3>2 DEF EditInv, Locked
  <2>2. CASE d # e
    <3>1. held'[d] = held[d] /\ pc'[d] = pc[d]
      BY <1>1, <2>2 DEF EditInv, Shaped
    <3> QED BY <1>2, <3>1 DEF EditInv, Locked
  <2> QED BY <2>1, <2>2
<1>5. \A d \in Editors : p \notin held[d]
  BY <1>1 DEF EditInv, Locked, Edit!Free, Edit!Missing
<1>6. HeldApart'
  <2>1. \A d \in Editors : held'[d] = IF d = e THEN held[d] \cup {p} ELSE held[d]
    BY <1>1 DEF EditInv, Shaped
  <2> QED BY <1>5, <2>1 DEF EditInv, HeldApart
<1>7. Edit!NoLostUpdate'
  <2>1. \A d \in Editors : pc'[d] = "commit" => pc[d] = "commit"
    BY <1>1 DEF EditInv, Shaped
  <2> QED BY <1>2, <2>1 DEF EditInv, Edit!NoLostUpdate, Edit!Left
<1> QED BY <1>3, <1>4, <1>6, <1>7 DEF EditInv

(* A call that ends gives its locks back.                                  *)
LEMMA EndKeeps ==
  ASSUME EditInv, NEW e \in Editors, NEW how, Edit!End(e, how),
         UNCHANGED <<files, edit, lockMap, staged, seen, wrote>>
  PROVE  EditInv'
<1>1. \A d \in Editors : /\ arcs'[d] = IF d = e THEN <<>> ELSE arcs[d]
                         /\ held'[d] = IF d = e THEN {} ELSE held[d]
                         /\ pc'[d] = IF d = e THEN "done" ELSE pc[d]
  BY DEF EditInv, Shaped, Edit!End
<1>2. Shaped'
  BY DEF EditInv, Shaped, Edit!End
<1>3. \A d \in Editors : Locked(d)'
  BY <1>1 DEF EditInv, Locked
<1>4. HeldApart'
  BY <1>1 DEF EditInv, HeldApart
<1>5. Edit!NoLostUpdate'
  BY <1>1 DEF EditInv, Edit!NoLostUpdate, Edit!Left
<1> QED BY <1>2, <1>3, <1>4, <1>5 DEF EditInv

LEMMA StageKeeps ==
  ASSUME EditInv, NEW e \in Editors, Edit!Stage(e)
  PROVE  EditInv'
<1> DEFINE r == Edit!Validate(files, edit[e], e)
<1>1. pc[e] = "locked" /\ UNCHANGED <<files, edit, lockMap, wrote>>
  BY DEF Edit!Stage
<1>2. Within(r, Edit!Targets(edit[e]))
  BY ValidateWithin DEF EditInv, Shaped
<1>3. \/ Edit!End(e, r.err) /\ UNCHANGED <<staged, seen>>
      \/ /\ staged' = [staged EXCEPT ![e] = r.st]
         /\ seen' = [seen EXCEPT ![e] = files]
         /\ pc' = [pc EXCEPT ![e] = "commit"]
         /\ UNCHANGED <<arcs, held>>
  BY DEF Edit!Stage
<1> HIDE DEF r
<1>4. CASE Edit!End(e, r.err) /\ UNCHANGED <<staged, seen>>
  BY <1>1, <1>4, EndKeeps
<1>5. CASE /\ staged' = [staged EXCEPT ![e] = r.st]
           /\ seen' = [seen EXCEPT ![e] = files]
           /\ pc' = [pc EXCEPT ![e] = "commit"]
           /\ UNCHANGED <<arcs, held>>
  <2>1. \A d \in Editors : /\ staged'[d] = IF d = e THEN r.st ELSE staged[d]
                           /\ seen'[d] = IF d = e THEN files ELSE seen[d]
                           /\ pc'[d] = IF d = e THEN "commit" ELSE pc[d]
    BY <1>5 DEF EditInv, Shaped
  <2>2. Shaped'
    BY <1>1, <1>5 DEF EditInv, Shaped
  <2>3. \A d \in Editors : Locked(d)'
    <3> TAKE d \in Editors
    <3>1. DOMAIN r.st \subseteq Edit!Targets(edit[e])
      BY <1>2 DEF Within
    <3> QED BY <1>1, <1>5, <2>1, <3>1 DEF EditInv, Locked
  <2>4. HeldApart'
    BY <1>5 DEF EditInv, HeldApart
  <2>5. Edit!NoLostUpdate'
    BY <1>1, <2>1 DEF EditInv, Edit!NoLostUpdate, Edit!Left
  <2> QED BY <2>2, <2>3, <2>4, <2>5 DEF EditInv
<1> QED BY <1>3, <1>4, <1>5

LEMMA CommitKeeps ==
  ASSUME EditInv, NEW e \in Editors, Edit!CommitFile(e)
  PROVE  EditInv'
<1>1. pc[e] = "commit" /\ UNCHANGED <<edit, lockMap, fresh, staged, seen>>
  BY DEF Edit!CommitFile
<1>2. PICK p \in Edit!Left(e) :
        \/ /\ files' = [files EXCEPT ![p] = IF staged[e][p] = Edit!Gone THEN Edit!None
                                            ELSE staged[e][p]]
           /\ wrote' = [wrote EXCEPT ![e] = wrote[e] \cup {p}]
           /\ UNCHANGED <<pc, arcs, held>>
        \/ Edit!End(e, "error") /\ UNCHANGED <<files, wrote>>
  BY DEF Edit!CommitFile
<1>3. CASE Edit!End(e, "error") /\ UNCHANGED <<files, wrote>>
  BY <1>1, <1>3, EndKeeps
<1>4. CASE /\ files' = [files EXCEPT ![p] = IF staged[e][p] = Edit!Gone THEN Edit!None
                                            ELSE staged[e][p]]
           /\ wrote' = [wrote EXCEPT ![e] = wrote[e] \cup {p}]
           /\ UNCHANGED <<pc, arcs, held>>
  <2>1. Shaped'
    BY <1>1, <1>4 DEF EditInv, Shaped
  <2>2. \A d \in Editors : Locked(d)'
    BY <1>1, <1>4 DEF EditInv, Locked
  <2>3. HeldApart'
    BY <1>4 DEF EditInv, HeldApart
  <2>4. Edit!NoLostUpdate'
    <3> SUFFICES ASSUME NEW d \in Editors, pc'[d] = "commit", NEW q \in Edit!Left(d)'
                 PROVE  files'[q] = seen'[d][q]
      BY DEF Edit!NoLostUpdate
    <3>1. wrote'[d] = IF d = e THEN wrote[e] \cup {p} ELSE wrote[d]
      BY <1>4 DEF EditInv, Shaped
    <3>2. q \in Edit!Left(d) /\ (d = e => q # p)
      BY <1>1, <3>1 DEF Edit!Left
    <3>3. q \in held[d] /\ p \in held[e] /\ q \in Edit!Paths
      <4>1. p \in DOMAIN staged[e] /\ q \in DOMAIN staged[d] /\ pc[d] = "commit"
        BY <1>4, <3>2 DEF Edit!Left
      <4>2. q \in held[d] /\ p \in held[e]
        BY <1>1, <4>1 DEF EditInv, Locked
      <4> QED BY <4>2, ArcsArePaths DEF EditInv, Locked
    <3>4. q # p
      BY <3>2, <3>3 DEF EditInv, HeldApart
    <3>5. files'[q] = files[q]
      BY <1>4, <3>3, <3>4 DEF EditInv, Shaped
    <3> QED BY <1>1, <1>4, <3>2, <3>5 DEF EditInv, Edit!NoLostUpdate
  <2> QED BY <2>1, <2>2, <2>3, <2>4 DEF EditInv
<1> QED BY <1>2, <1>3, <1>4

LEMMA EditStep == EditInv /\ (Edit!Next \/ UNCHANGED editVars) => EditInv'
<1> SUFFICES ASSUME EditInv, Edit!Next \/ UNCHANGED editVars PROVE EditInv'
  OBVIOUS
<1>1. ASSUME NEW e \in Editors, Edit!Answer(e) PROVE EditInv'
  BY <1>1, EndKeeps DEF Edit!Answer
<1>2. CASE \E e \in Editors : Edit!Step(e)
  BY <1>1, <1>2, FindLocksKeeps, TakeLockKeeps, StageKeeps, CommitKeeps DEF Edit!Step
<1>3. CASE UNCHANGED <<files, edit, pc, arcs, held, lockMap, staged, seen, wrote>>
  BY <1>3 DEF EditInv, Shaped, Locked, HeldApart, Edit!NoLostUpdate, Edit!Left
<1> QED BY <1>2, <1>3 DEF Edit!Next, Edit!AllDone, Edit!vars, editVars

EditOk == part = "edit" => EditInv

(* A file that an edit is about to write still is what the edit read, for  *)
(* any number of edits, files and names, however the patches cross: locks  *)
(* are shared as long as anyone waits for them and held to the last write  *)
(* (lock_paths, commit).                                                   *)
THEOREM EditsApart == MCSpec => []EditsKeepEachOther
<1>1. MCInit => EditOk
  BY EditInit DEF MCInit, EditOk
<1>2. EditOk /\ [MCNext]_mcVars => EditOk'
  BY EditStep DEF EditOk, MCNext, mcVars
<1>3. EditOk => EditsKeepEachOther
  BY DEF EditOk, EditInv, EditsKeepEachOther
<1> QED BY <1>1, <1>2, <1>3, PTL DEF MCSpec
=============================================================================
