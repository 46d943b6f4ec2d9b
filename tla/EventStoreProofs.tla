-------------------------- MODULE EventStoreProofs --------------------------
(***************************************************************************)
(* For any number of runs, events and crashes: while no crash has come     *)
(* between an append and the save that follows it, the log in SQLite of a  *)
(* session that is paused ends in that pause.                              *)
(***************************************************************************)
EXTENDS EventStore, TLAPS

(* A run that logged anything has a last event, ...                        *)
LastOf(r, row) == row \in Load(r) /\ \A other \in Load(r) : other.seq <= row.seq
EndsSomewhere == \A r \in Nat : Load(r) # {} => \E row \in rows : LastOf(r, row)

(* ... and one event under each number.                                    *)
Numbered == \A a, b \in rows : a.run = b.run /\ a.seq = b.seq => a = b

(* The run in hand goes on behind the last event of its log.               *)
CounterAhead ==
  (event.stage # "none" \/ flow = "running") =>
    \A row \in Load(run) : row.seq <= eventCounter

(* No log is one of a run that is still to come, and the record has the    *)
(* last run that logged anything, but for an event that was appended and   *)
(* not applied yet.                                                        *)
RunsKnown ==
  /\ run <= runCounter /\ agent.run <= runCounter
  /\ event.stage # "none" => agent.run <= run
  /\ flow = "running" => agent.run = run \/ event.stage # "none"
  /\ \A row \in rows : row.run <= agent.run \/ (event.stage = "apply" /\ row.run = run)

(* The record is the agent's state, which is what its log says, but for    *)
(* the event in hand.                                                      *)
InStep ==
  /\ event.stage # "save" => record = agent
  /\ event.stage = "save" => agent.run = run
  /\ event.stage = "apply" => \E row \in rows : LastOf(run, row) /\ row.kind = event.kind
  /\ agent.status = "paused" /\ ~(event.stage = "apply" /\ agent.run = run) =>
       \E row \in rows : LastOf(agent.run, row) /\ row.kind = "RunPaused"

Sound == Numbered /\ CounterAhead /\ RunsKnown /\ InStep
IInv == TypeOK /\ EndsSomewhere /\ (store = "sqlite" /\ ~torn => Sound)

-----------------------------------------------------------------------------
(* Logs.                                                                   *)

(* The latest event of a log is the one with the highest number.           *)
LEMMA LatestIsLast ==
  ASSUME TypeOK, Numbered, NEW r, NEW row, LastOf(r, row)
  PROVE  Latest(r) = row /\ Load(r) # {} /\ Reduced(r) = StatusOf(row.kind)
<1>1. row \in Load(r) /\ \A other \in Load(r) : other.seq <= row.seq
  BY DEF LastOf
<1>2. Latest(r) \in Load(r) /\ \A other \in Load(r) : other.seq <= Latest(r).seq
  BY <1>1 DEF Latest
<1>3. Load(r) \subseteq Rows /\ \A x \in Load(r) : x \in rows /\ x.run = r
  BY DEF Load, TypeOK
<1>4. row.seq \in Nat /\ Latest(r).seq \in Nat
  BY <1>1, <1>2, <1>3 DEF Rows
<1>5. row.seq = Latest(r).seq
  BY <1>1, <1>2, <1>4
<1>6. Latest(r) = row
  BY <1>1, <1>2, <1>3, <1>5 DEF Numbered
<1>7. Load(r) # {}
  BY <1>1
<1> QED
  BY <1>6, <1>7 DEF Reduced

(* An event of another run leaves a log's last event where it is.          *)
LEMMA LastStays ==
  ASSUME NEW r, NEW row, LastOf(r, row), NEW new, new.run # r, rows' = rows \cup {new}
  PROVE  LastOf(r, row)'
BY DEF LastOf, Load

(* Every kind of event has a status; only RunPaused has "paused".          *)
LEMMA Statuses ==
  ASSUME NEW kind \in Kinds
  PROVE  /\ StatusOf(kind) \in {"running", "paused", "completed", "failed"}
         /\ StatusOf(kind) = "paused" => kind = "RunPaused"
BY DEF StatusOf, Kinds

-----------------------------------------------------------------------------
(* The type invariant, action by action.                                   *)

(* The initial state is well typed.                                        *)
LEMMA InitTyped == Init => TypeOK
<1> SUFFICES ASSUME Init PROVE TypeOK
  OBVIOUS
<1>1. record \in Records /\ agent \in Records
  BY DEF Init, Records
<1>2. event \in Events /\ event.kind = "none" /\ event.stage = "none"
  BY DEF Init, None, Events
<1>3. rows \subseteq Rows
  BY DEF Init
<1> QED
  BY <1>1, <1>2, <1>3 DEF Init, TypeOK

(* An append keeps the types, whether the row is taken or fails.           *)
LEMMA AppendTyped == TypeOK /\ Append => TypeOK'
<1> SUFFICES ASSUME TypeOK, Append PROVE TypeOK'
  OBVIOUS
<1>1. event.kind \in Kinds /\ eventCounter' \in Nat /\ run \in Nat
  BY DEF TypeOK, Append, Events, Kinds
<1>2. CASE Taken(run, eventCounter')
  <2>1. rows' = rows
    BY <1>2 DEF Append
  <2>2. event' \in {None, Event("RunFailed")} /\ flow' \in {"none", flow}
    BY <1>2 DEF Append
  <2>3. event' \in Events /\ (event'.kind = "none" <=> event'.stage = "none")
    BY <2>2 DEF None, Event, Events, Kinds
  <2> QED
    BY <1>1, <2>1, <2>2, <2>3 DEF TypeOK, Append
<1>3. CASE ~Taken(run, eventCounter')
  <2>0. PICK new : new = [run |-> run, seq |-> eventCounter', kind |-> event.kind]
    OBVIOUS
  <2>1. new \in Rows
    BY <1>1, <2>0 DEF Rows
  <2>2. rows' = {row \in rows : row.run # run \/ row.seq # eventCounter'} \cup {new}
    BY <1>3, <2>0 DEF Append
  <2>3. rows' \subseteq Rows
    BY <2>1, <2>2 DEF TypeOK
  <2>4. event' = [event EXCEPT !.stage = "apply"] /\ flow' = flow
    BY <1>3 DEF Append
  <2>5. event' \in Events /\ (event'.kind = "none" <=> event'.stage = "none")
    BY <1>1, <2>4 DEF TypeOK, Events, Kinds
  <2> QED
    BY <1>1, <2>3, <2>4, <2>5 DEF TypeOK, Append
<1> QED
  BY <1>2, <1>3

(* Applying and saving an event keeps the types.                           *)
LEMMA ApplySaveTyped == TypeOK /\ (Apply \/ Save) => TypeOK'
<1> SUFFICES ASSUME TypeOK, Apply \/ Save PROVE TypeOK'
  OBVIOUS
<1>1. CASE Apply
  <2>1. event.kind \in Kinds
    BY <1>1 DEF Apply, TypeOK, Events, Kinds
  <2>2. agent' \in Records
    BY <1>1, <2>1, Statuses DEF Apply, TypeOK, Records
  <2>3. event' \in Events /\ (event'.kind = "none" <=> event'.stage = "none")
    BY <1>1, <2>1 DEF Apply, TypeOK, Events, Kinds
  <2> QED
    BY <1>1, <2>2, <2>3 DEF Apply, TypeOK
<1>2. CASE Save
  <2>1. flow' \in {"none", "running", "paused"}
    BY <1>2 DEF Save
  <2>2. event' \in Events /\ (event'.kind = "none" <=> event'.stage = "none")
    BY <1>2 DEF Save, None, Events
  <2> QED
    BY <1>2, <2>1, <2>2 DEF Save, TypeOK
<1> QED
  BY <1>1, <1>2

(* So does starting a run and going on with it.                            *)
LEMMA RunTyped ==
  TypeOK /\ (StartRun \/ \E kind \in {"Progress", "RunPaused", "RunCompleted", "RunFailed"} : RunGoesOn(kind))
    => TypeOK'
<1> SUFFICES ASSUME TypeOK,
             StartRun \/ \E kind \in {"Progress", "RunPaused", "RunCompleted", "RunFailed"} : RunGoesOn(kind)
             PROVE TypeOK'
  OBVIOUS
<1>1. \A kind \in Kinds : Event(kind) \in Events /\ Event(kind).kind # "none" /\ Event(kind).stage # "none"
  BY DEF Event, Events, Kinds
<1>2. CASE StartRun
  <2>1. event' = Event("RunStarted") /\ "RunStarted" \in Kinds
    BY <1>2 DEF StartRun, Kinds
  <2> QED
    BY <1>1, <1>2, <2>1 DEF StartRun, TypeOK
<1>3. ASSUME NEW kind \in {"Progress", "RunPaused", "RunCompleted", "RunFailed"}, RunGoesOn(kind)
      PROVE  TypeOK'
  <2>1. event' = Event(kind) /\ kind \in Kinds
    BY <1>3 DEF RunGoesOn, Kinds
  <2> QED
    BY <1>1, <1>3, <2>1 DEF RunGoesOn, TypeOK
<1> QED
  BY <1>2, <1>3

(* The counter taken up from a log is not behind any of its events.        *)
LEMMA CounterIsAhead ==
  ASSUME TypeOK, EndsSomewhere, NEW r \in Nat, Load(r) # {}
  PROVE  /\ CounterAfter(r) \in Nat
         /\ \A row \in Load(r) : row.seq <= CounterAfter(r)
<1>1. PICK row \in rows : LastOf(r, row)
  BY DEF EndsSomewhere
<1>2. Latest(r) \in Load(r) /\ \A other \in Load(r) : other.seq <= Latest(r).seq
  BY <1>1 DEF LastOf, Latest
<1>3. \A x \in Load(r) : x.seq \in Nat
  BY DEF Load, TypeOK, Rows
<1>4. Latest(r).seq \in Nat /\ eventCounter \in Nat
  BY <1>2, <1>3 DEF TypeOK
<1> QED
  BY <1>2, <1>3, <1>4 DEF CounterAfter

(* Resuming a run keeps the types.                                         *)
LEMMA ResumeTyped == TypeOK /\ EndsSomewhere /\ ResumeRun => TypeOK'
<1> SUFFICES ASSUME TypeOK, EndsSomewhere, ResumeRun PROVE TypeOK'
  OBVIOUS
<1>1. /\ run' \in Nat /\ event' \in Events
      /\ event'.kind = "none" <=> event'.stage = "none"
  <2>1. CASE Reduced(agent.run) = "paused"
    BY <2>1 DEF ResumeRun, TypeOK, Records, Event, Events, Kinds
  <2>2. CASE Reduced(agent.run) # "paused"
    BY <2>2 DEF ResumeRun, TypeOK
  <2> QED
    BY <2>1, <2>2
<1>2. agent.run \in Nat
  BY DEF TypeOK, Records
<1>3. eventCounter' \in Nat
  BY <1>2, CounterIsAhead DEF ResumeRun
<1> QED
  BY <1>1, <1>3 DEF ResumeRun, TypeOK

(* A restart keeps the types.                                              *)
LEMMA CrashTyped == TypeOK /\ Crash => TypeOK'
<1> SUFFICES ASSUME TypeOK, Crash PROVE TypeOK'
  OBVIOUS
<1>1. Normalized(record) \in Records /\ RunsFrom(record) \in Nat
  BY DEF Normalized, RunsFrom, TypeOK, Records
<1>2. rows' \subseteq Rows /\ flow' \in {"none", "running", "paused"} /\ torn' \in BOOLEAN
  BY DEF Crash, TypeOK
<1>3. None \in Events /\ None.kind = "none" /\ None.stage = "none"
  BY DEF None, Events
<1> QED
  BY <1>1, <1>2, <1>3 DEF Crash, TypeOK

-----------------------------------------------------------------------------
(* What a log says stays so, action by action.                             *)

(* A row that is appended is the last of its run, unless a later one is.   *)
LEMMA EndsStays == TypeOK /\ EndsSomewhere /\ Next => EndsSomewhere'
<1> SUFFICES ASSUME TypeOK, EndsSomewhere, Next PROVE EndsSomewhere'
  OBVIOUS
<1>1. CASE rows' \in {rows, {}}
  <2>1. rows' = rows => \A r, row : LastOf(r, row)' <=> LastOf(r, row)
    BY DEF LastOf, Load
  <2>2. rows' = rows => EndsSomewhere'
    BY <2>1 DEF EndsSomewhere, Load
  <2>3. rows' = {} => EndsSomewhere'
    BY DEF EndsSomewhere, Load
  <2> QED
    BY <1>1, <2>2, <2>3
<1>2. CASE Append /\ ~Taken(run, eventCounter')
  <2>0. PICK new : new = [run |-> run, seq |-> eventCounter', kind |-> event.kind]
    OBVIOUS
  <2>1. rows' = {row \in rows : row.run # run \/ row.seq # eventCounter'} \cup {new}
    BY <1>2, <2>0 DEF Append
  <2>2. new.run = run /\ new.seq = eventCounter' /\ new.seq \in Nat
    BY <1>2, <2>0 DEF Append, TypeOK
  <2>3. \A x \in rows : x.seq \in Nat
    BY DEF TypeOK, Rows
  <2>4. ASSUME NEW r \in Nat, r # run, Load(r)' # {}
        PROVE  \E row \in rows' : LastOf(r, row)'
    <3>1. Load(r)' = Load(r)
      BY <2>1, <2>2, <2>4 DEF Load
    <3>2. PICK row \in rows : LastOf(r, row)
      BY <2>4, <3>1 DEF EndsSomewhere
    <3>3. row \in Load(r)' /\ \A other \in Load(r)' : other.seq <= row.seq
      BY <3>1, <3>2 DEF LastOf
    <3> QED
      BY <3>3 DEF LastOf, Load
  <2>5. CASE \A x \in Load(run) : x.seq <= new.seq
    <3>1. new \in Load(run)' /\ \A other \in Load(run)' : other.seq <= new.seq
      BY <1>2, <2>1, <2>2, <2>5 DEF Append, Load
    <3>2. \E row \in rows' : LastOf(run, row)'
      BY <1>2, <3>1 DEF Append, LastOf, Load
    <3> QED
      BY <1>2, <2>4, <3>2 DEF Append, EndsSomewhere
  <2>6. CASE \E x \in Load(run) : ~(x.seq <= new.seq)
    <3>1. PICK x \in Load(run) : ~(x.seq <= new.seq)
      BY <2>6
    <3>2. run \in Nat
      BY DEF TypeOK
    <3>3. PICK row \in rows : LastOf(run, row)
      BY <3>1, <3>2 DEF EndsSomewhere
    <3>4. row \in Load(run) /\ x.seq <= row.seq /\ x.seq \in Nat /\ row.seq \in Nat
      BY <2>3, <3>1, <3>3 DEF LastOf, Load
    <3>5. new.seq < row.seq
      BY <2>2, <3>1, <3>4
    <3>6. row.seq # eventCounter'
      BY <2>2, <3>4, <3>5
    <3>7. row \in Load(run)' /\ \A other \in Load(run)' : other.seq <= row.seq
      BY <1>2, <2>1, <2>2, <3>3, <3>4, <3>5, <3>6 DEF Append, LastOf, Load
    <3>8. \E w \in rows' : LastOf(run, w)'
      BY <1>2, <3>7 DEF Append, LastOf, Load
    <3> QED
      BY <1>2, <2>4, <3>8 DEF Append, EndsSomewhere
  <2> QED
    BY <2>5, <2>6
<1> QED
  BY <1>1, <1>2 DEF Next, StartRun, Append, Apply, Save, ResumeRun, Crash, Stop, RunGoesOn, vars

(* What the promise is about: the session's log is in SQLite and no crash  *)
(* tore a record from it.                                                  *)
Kept == store = "sqlite" /\ ~torn

(* The number of an event that is appended is new, so it ends the log.     *)
LEMMA AppendSound == TypeOK /\ Kept /\ Sound /\ Append => Sound'
<1> SUFFICES ASSUME TypeOK, Kept, Sound, Append PROVE Sound'
  OBVIOUS
<1>0. PICK new : new = [run |-> run, seq |-> eventCounter', kind |-> event.kind]
  OBVIOUS
<1>1. /\ new.run = run /\ new.seq = eventCounter' /\ new.kind = event.kind
      /\ eventCounter' = eventCounter + 1 /\ eventCounter \in Nat /\ run \in Nat /\ agent.run \in Nat
      /\ event.stage = "append"
  BY <1>0 DEF Append, TypeOK, Records
<1>2. \A x \in rows : x.seq \in Nat /\ x.run \in Nat
  BY DEF TypeOK, Rows
<1>3. \A x \in Load(run) : x.seq <= eventCounter
  BY <1>1 DEF Sound, CounterAhead
<1>4. ~Taken(run, eventCounter')
  BY <1>1, <1>2, <1>3 DEF Taken, Load
<1>5. event' = [event EXCEPT !.stage = "apply"] /\ flow' = flow
  BY <1>4 DEF Append
<1>6. event'.stage = "apply" /\ event'.kind = event.kind
  BY <1>5 DEF TypeOK, Events
<1>7. rows' = rows \cup {new}
  <2>1. \A x \in rows : x.run # run \/ x.seq # eventCounter'
    BY <1>1, <1>2, <1>3 DEF Load
  <2>2. rows' = {x \in rows : x.run # run \/ x.seq # eventCounter'} \cup {new}
    BY <1>0, <1>4 DEF Append
  <2> QED
    BY <2>1, <2>2
<1>8. LastOf(run, new)'
  <2>1. run' = run
    BY DEF Append
  <2>2. new \in Load(run)' /\ \A other \in Load(run)' : other.seq <= new.seq
    BY <1>1, <1>2, <1>3, <1>7, <2>1 DEF Load
  <2> QED
    BY <2>1, <2>2, <1>7, <1>1, <1>2, <1>3 DEF LastOf, Load
<1>9. Numbered'
  BY <1>1, <1>2, <1>3, <1>7 DEF Sound, Numbered, Load
<1>10. CounterAhead'
  BY <1>1, <1>2, <1>3, <1>7 DEF CounterAhead, Load, Append
<1>11. RunsKnown'
  <2>1. agent.run <= run /\ run <= runCounter /\ agent.run <= runCounter
    BY <1>1 DEF Sound, RunsKnown
  <2>2. \A x \in rows : x.run <= agent.run
    BY <1>1 DEF Sound, RunsKnown
  <2>3. \A x \in rows' : x.run <= agent.run \/ x.run = run
    BY <1>1, <1>7, <2>2
  <2> QED
    BY <1>1, <1>6, <2>1, <2>3 DEF RunsKnown, Append
<1>12. InStep'
  <2>1. record' = agent' /\ event'.stage # "save"
    BY <1>1, <1>6 DEF Sound, InStep, Append
  <2>2. \E x \in rows' : LastOf(run, x)' /\ x.kind = event'.kind
    BY <1>1, <1>6, <1>7, <1>8 DEF Append
  <2>3. ASSUME agent.status = "paused", agent.run # run
        PROVE  \E x \in rows' : LastOf(agent.run, x)' /\ x.kind = "RunPaused"
    <3>1. PICK x \in rows : LastOf(agent.run, x) /\ x.kind = "RunPaused"
      BY <2>3 DEF Sound, InStep
    <3>2. agent' = agent /\ new.run # agent.run
      BY <1>1, <2>3 DEF Append
    <3>3. LastOf(agent.run, x)'
      BY <1>7, <3>1, <3>2 DEF LastOf, Load
    <3> QED
      BY <1>7, <3>1, <3>2, <3>3
  <2>4. agent' = agent /\ run' = run
    BY DEF Append
  <2> QED
    BY <1>6, <2>1, <2>2, <2>3, <2>4 DEF InStep
<1> QED
  BY <1>9, <1>10, <1>11, <1>12 DEF Sound

(* A step that appends nothing leaves every log as it is.                  *)
LEMMA SameLogs ==
  ASSUME rows' = rows
  PROVE  /\ \A r : Load(r)' = Load(r)
         /\ \A r, row : LastOf(r, row)' <=> LastOf(r, row)
         /\ Numbered => Numbered'
BY DEF LastOf, Load, Numbered

(* The state takes up what its log already says.                           *)
LEMMA ApplySound == TypeOK /\ Kept /\ Sound /\ Apply => Sound'
<1> SUFFICES ASSUME TypeOK, Kept, Sound, Apply PROVE Sound'
  OBVIOUS
<1>1. rows' = rows /\ run' = run /\ flow' = flow /\ runCounter' = runCounter /\ eventCounter' = eventCounter
  BY DEF Apply
<1>2. event.stage = "apply" /\ event'.stage = "save" /\ event.kind \in Kinds
  BY DEF Apply, TypeOK, Events, Kinds
<1>3. agent'.run = run /\ agent'.status = StatusOf(event.kind)
  BY DEF Apply
<1>4. Numbered'
  BY <1>1, SameLogs DEF Sound
<1>5. CounterAhead'
  BY <1>1, <1>2 DEF Sound, CounterAhead, Load
<1>6. RunsKnown'
  <2>1. run <= runCounter /\ agent.run <= run /\ run \in Nat /\ agent.run \in Nat
    BY <1>2 DEF Sound, RunsKnown, TypeOK, Records
  <2>2. \A x \in rows : x.run <= agent.run \/ x.run = run
    BY <1>2 DEF Sound, RunsKnown
  <2>3. \A x \in rows : x.run <= run
    BY <2>1, <2>2 DEF TypeOK, Rows
  <2> QED
    BY <1>1, <1>2, <1>3, <2>1, <2>3 DEF RunsKnown
<1>7. InStep'
  <2>1. PICK x \in rows : LastOf(run, x) /\ x.kind = event.kind
    BY <1>2 DEF Sound, InStep
  <2>2. agent'.status = "paused" => x.kind = "RunPaused"
    BY <1>2, <1>3, <2>1, Statuses
  <2>3. LastOf(agent.run, x)'
    BY <1>1, <1>3, <2>1 DEF LastOf, Load
  <2> QED
    BY <1>1, <1>2, <1>3, <2>2, <2>3 DEF InStep
<1> QED
  BY <1>4, <1>5, <1>6, <1>7 DEF Sound

(* The record takes up the state.                                          *)
LEMMA SaveSound == TypeOK /\ Kept /\ Sound /\ Save => Sound'
<1> SUFFICES ASSUME TypeOK, Kept, Sound, Save PROVE Sound'
  OBVIOUS
<1>1. /\ rows' = rows /\ run' = run /\ agent' = agent /\ record' = agent
      /\ runCounter' = runCounter /\ eventCounter' = eventCounter
  BY DEF Save
<1>2. event.stage = "save" /\ event'.stage = "none" /\ agent.run = run
  BY DEF Save, None, Sound, InStep
<1>3. Numbered'
  BY <1>1, SameLogs DEF Sound
<1>4. CounterAhead'
  BY <1>1, <1>2 DEF Sound, CounterAhead, Load
<1>5. RunsKnown'
  BY <1>1, <1>2 DEF Sound, RunsKnown
<1>6. InStep'
  <2>1. agent.status = "paused" => \E x \in rows : LastOf(agent.run, x) /\ x.kind = "RunPaused"
    BY <1>2 DEF Sound, InStep
  <2>2. agent.status = "paused" => \E x \in rows : LastOf(agent.run, x)' /\ x.kind = "RunPaused"
    BY <1>1, <2>1 DEF LastOf, Load
  <2> QED
    BY <1>1, <1>2, <2>2 DEF InStep
<1> QED
  BY <1>3, <1>4, <1>5, <1>6 DEF Sound

(* A new run has an empty log: its id comes after those of all that have   *)
(* logged anything.  A run that goes on numbers behind its log.            *)
LEMMA RunSound ==
  TypeOK /\ Kept /\ Sound
    /\ (StartRun \/ \E kind \in {"Progress", "RunPaused", "RunCompleted", "RunFailed"} : RunGoesOn(kind))
    => Sound'
<1> SUFFICES ASSUME TypeOK, Kept, Sound,
             StartRun \/ \E kind \in {"Progress", "RunPaused", "RunCompleted", "RunFailed"} : RunGoesOn(kind)
             PROVE Sound'
  OBVIOUS
<1>1. /\ rows' = rows /\ record' = record /\ agent' = agent /\ flow' = flow /\ eventCounter' = eventCounter
      /\ event = None /\ event.stage = "none" /\ event'.stage = "append"
  BY DEF StartRun, RunGoesOn, None, Event
<1>2. Numbered'
  BY <1>1, SameLogs DEF Sound
<1>3. InStep'
  <2>1. record = agent
    BY <1>1 DEF Sound, InStep
  <2>2. agent.status = "paused" => \E x \in rows : LastOf(agent.run, x) /\ x.kind = "RunPaused"
    BY <1>1 DEF Sound, InStep
  <2>3. agent.status = "paused" => \E x \in rows : LastOf(agent.run, x)' /\ x.kind = "RunPaused"
    BY <1>1, <2>2 DEF LastOf, Load
  <2> QED
    BY <1>1, <2>1, <2>3 DEF InStep
<1>4. agent.run <= runCounter /\ run <= runCounter /\ \A x \in rows : x.run <= agent.run
  BY <1>1 DEF Sound, RunsKnown
<1>5. agent.run \in Nat /\ runCounter \in Nat /\ run \in Nat /\ \A x \in rows : x.run \in Nat
  BY DEF TypeOK, Records, Rows
<1>6. CASE StartRun
  <2>1. run' = runCounter + 1 /\ runCounter' = run' /\ flow' # "running"
    BY <1>6 DEF StartRun
  <2>2. \A x \in rows : x.run # run'
    BY <1>4, <1>5, <2>1
  <2>3. CounterAhead'
    BY <1>1, <2>2 DEF CounterAhead, Load
  <2>4. RunsKnown'
    BY <1>1, <1>4, <1>5, <2>1 DEF RunsKnown
  <2> QED
    BY <1>2, <1>3, <2>3, <2>4 DEF Sound
<1>7. CASE \E kind \in {"Progress", "RunPaused", "RunCompleted", "RunFailed"} : RunGoesOn(kind)
  <2>1. run' = run /\ runCounter' = runCounter /\ flow = "running"
    BY <1>7 DEF RunGoesOn
  <2>2. agent.run = run
    BY <1>1, <2>1 DEF Sound, RunsKnown
  <2>3. CounterAhead'
    BY <1>1, <2>1 DEF Sound, CounterAhead, Load
  <2>4. RunsKnown'
    BY <1>1, <1>4, <1>5, <2>1, <2>2 DEF RunsKnown
  <2> QED
    BY <1>2, <1>3, <2>3, <2>4 DEF Sound
<1> QED
  BY <1>6, <1>7

(* A run that is resumed takes its numbers up behind its log.              *)
LEMMA ResumeSound == TypeOK /\ EndsSomewhere /\ Kept /\ Sound /\ ResumeRun => Sound'
<1> SUFFICES ASSUME TypeOK, EndsSomewhere, Kept, Sound, ResumeRun PROVE Sound'
  OBVIOUS
<1>1. /\ rows' = rows /\ record' = record /\ agent' = agent /\ flow' = flow /\ runCounter' = runCounter
      /\ event.stage = "none" /\ flow # "running" /\ eventCounter' = CounterAfter(agent.run)
      /\ Load(agent.run) # {}
  BY DEF ResumeRun, None
<1>2. \/ run' = agent.run /\ event'.stage = "append"
      \/ run' = run /\ event' = event
  BY DEF ResumeRun, Event
<1>3. Numbered'
  BY <1>1, SameLogs DEF Sound
<1>4. InStep'
  <2>1. record = agent
    BY <1>1 DEF Sound, InStep
  <2>2. agent.status = "paused" => \E x \in rows : LastOf(agent.run, x) /\ x.kind = "RunPaused"
    BY <1>1 DEF Sound, InStep
  <2>3. agent.status = "paused" => \E x \in rows : LastOf(agent.run, x)' /\ x.kind = "RunPaused"
    BY <1>1, <2>2 DEF LastOf, Load
  <2> QED
    BY <1>1, <1>2, <2>1, <2>3 DEF InStep
<1>5. agent.run \in Nat
  BY DEF TypeOK, Records
<1>6. \A x \in Load(agent.run) : x.seq <= eventCounter'
  BY <1>1, <1>5, CounterIsAhead
<1>7. CounterAhead'
  BY <1>1, <1>2, <1>6 DEF CounterAhead, Load
<1>8. RunsKnown'
  BY <1>1, <1>2, <1>5 DEF Sound, RunsKnown
<1> QED
  BY <1>3, <1>4, <1>7, <1>8 DEF Sound

(* A restart that tears nothing finds the record its log made.             *)
LEMMA CrashSound == TypeOK /\ Kept /\ Sound /\ Crash /\ Kept' => Sound'
<1> SUFFICES ASSUME TypeOK, Kept, Sound, Crash, Kept' PROVE Sound'
  OBVIOUS
<1>1. event.stage \notin {"apply", "save"}
  BY DEF Kept, Crash
<1>2. rows' = rows /\ run' = 0 /\ event'.stage = "none" /\ flow' # "running" /\ agent' = record'
  BY DEF Kept, Crash, None
<1>3. record = agent /\ record.run \in Nat
  BY <1>1 DEF Sound, InStep, TypeOK, Records
<1>4. /\ agent'.run = agent.run /\ runCounter' = agent.run
      /\ agent'.status = "paused" => agent.status = "paused"
  BY <1>3 DEF Crash, Normalized, RunsFrom, TypeOK, Records
<1>5. Numbered'
  BY <1>2, SameLogs DEF Sound
<1>6. CounterAhead'
  BY <1>2 DEF CounterAhead
<1>7. RunsKnown'
  <2>1. \A x \in rows : x.run <= agent.run
    BY <1>1 DEF Sound, RunsKnown
  <2> QED
    BY <1>2, <1>3, <1>4, <2>1 DEF RunsKnown
<1>8. InStep'
  <2>1. agent.status = "paused" => \E x \in rows : LastOf(agent.run, x) /\ x.kind = "RunPaused"
    BY <1>1 DEF Sound, InStep
  <2>2. agent.status = "paused" => \E x \in rows : LastOf(agent.run, x)' /\ x.kind = "RunPaused"
    BY <1>2, <1>4, <2>1 DEF LastOf, Load
  <2> QED
    BY <1>2, <1>4, <2>2 DEF InStep
<1> QED
  BY <1>5, <1>6, <1>7, <1>8 DEF Sound

-----------------------------------------------------------------------------
(* The invariant.                                                          *)

(* Nothing is logged at first.                                             *)
LEMMA InitInv == Init => IInv
<1> SUFFICES ASSUME Init PROVE IInv
  OBVIOUS
<1>1. TypeOK
  BY InitTyped
<1>2. rows = {} /\ run = 0 /\ runCounter = 0 /\ flow = "none" /\ event.stage = "none" /\ record = agent
  BY DEF Init, None
<1>3. agent.run = 0 /\ agent.status = "idle"
  BY DEF Init
<1>4. EndsSomewhere /\ Numbered
  BY <1>2 DEF EndsSomewhere, Load, Numbered
<1>5. CounterAhead /\ RunsKnown /\ InStep
  BY <1>2, <1>3 DEF CounterAhead, RunsKnown, InStep
<1> QED
  BY <1>1, <1>4, <1>5 DEF IInv, Sound

(* Every step keeps the types.                                             *)
LEMMA NextTyped == TypeOK /\ EndsSomewhere /\ [Next]_vars => TypeOK'
<1> SUFFICES ASSUME TypeOK, EndsSomewhere, [Next]_vars PROVE TypeOK'
  OBVIOUS
<1>1. CASE UNCHANGED vars
  BY <1>1 DEF vars, TypeOK
<1>2. CASE Next
  BY <1>1, <1>2, AppendTyped, ApplySaveTyped, RunTyped, ResumeTyped, CrashTyped DEF Next, Stop
<1> QED
  BY <1>1, <1>2

(* A step that keeps the promise's conditions had them before.             *)
LEMMA KeptBefore == TypeOK /\ [Next]_vars /\ Kept' => Kept
<1> SUFFICES ASSUME TypeOK, [Next]_vars, Kept' PROVE Kept
  OBVIOUS
<1>1. CASE Crash
  BY <1>1 DEF Kept, Crash
<1>2. CASE ~Crash
  <2>1. store' = store /\ torn' = torn
    BY <1>2 DEF Next, vars, StartRun, Append, Apply, Save, ResumeRun, Stop, RunGoesOn
  <2> QED
    BY <2>1 DEF Kept
<1> QED
  BY <1>1, <1>2

(* Every step keeps the invariant.                                         *)
LEMMA NextInv == IInv /\ [Next]_vars => IInv'
<1> SUFFICES ASSUME IInv, [Next]_vars PROVE IInv'
  OBVIOUS
<1>1. TypeOK /\ EndsSomewhere /\ (Kept => Sound)
  BY DEF IInv, Kept
<1>2. TypeOK'
  BY <1>1, NextTyped
<1>3. CASE UNCHANGED vars
  BY <1>1, <1>2, <1>3
     DEF IInv, vars, EndsSomewhere, LastOf, Load, Sound, Kept, Numbered, CounterAhead, RunsKnown, InStep
<1>4. CASE Next
  <2>1. EndsSomewhere'
    BY <1>1, <1>4, EndsStays
  <2>2. ASSUME Kept' PROVE Sound'
    <3>1. Kept /\ Sound
      BY <1>1, <1>4, <2>2, KeptBefore
    <3>2. CASE Stop
      BY <3>1, <3>2 DEF Stop, vars, Sound, Numbered, CounterAhead, RunsKnown, InStep, LastOf, Load
    <3> QED
      BY <1>1, <1>4, <2>2, <3>1, <3>2, AppendSound, ApplySound, SaveSound, RunSound, ResumeSound, CrashSound
         DEF Next
  <2> QED
    BY <1>2, <2>1, <2>2 DEF IInv, Kept
<1> QED
  BY <1>3, <1>4

(* The log of a session that is paused ends in that pause.                 *)
LEMMA InvResumes == IInv => PausedCanResume
<1> SUFFICES ASSUME IInv, store = "sqlite", ~torn, event = None, agent.status = "paused"
             PROVE  Reduced(agent.run) = "paused"
  BY DEF PausedCanResume
<1>1. TypeOK /\ Sound
  BY DEF IInv
<1>2. PICK row \in rows : LastOf(agent.run, row) /\ row.kind = "RunPaused"
  BY <1>1 DEF None, Sound, InStep
<1>3. Reduced(agent.run) = StatusOf("RunPaused")
  BY <1>1, <1>2, LatestIsLast DEF Sound
<1> QED
  BY <1>3 DEF StatusOf

(* The store's rows, the record, the agent's state and the counters are    *)
(* well typed throughout, torn or not.                                     *)
THEOREM TypeCorrect == Spec => []TypeOK
<1>1. IInv => TypeOK
  BY DEF IInv
<1> QED
  BY InitInv, NextInv, <1>1, PTL DEF Spec

(* A session that is paused can be resumed, however often it was paused,   *)
(* resumed, left for another run and restarted: record_event and the       *)
(* counters taken up after a restart keep its run's log ending in that     *)
(* pause.                                                                  *)
THEOREM PauseSurvives == Spec => []PausedCanResume
  BY InitInv, NextInv, InvResumes, PTL DEF Spec
=============================================================================
