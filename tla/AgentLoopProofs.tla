--------------------------- MODULE AgentLoopProofs ---------------------------
(***************************************************************************)
(* For every setting of the runtime, any number of runs, messages and tool *)
(* calls, and whatever the environment does (Env): the state is well       *)
(* typed, the status and the approvals an idle agent shows agree with what *)
(* its run's log reduces to, a paused agent can be resumed, queued         *)
(* messages are kept, once each and in their order, and the model is asked *)
(* about tool calls with their results.                                    *)
(***************************************************************************)
EXTENDS AgentLoop, SequenceTheorems, FiniteSetTheorems, WellFoundedInduction, TLAPS

(* The event that starts the run is in its log.                            *)
Started == ~(pc = "begin" /\ ~Quiet)

Plain == MarkerKinds \cup Effects

(* The approvals that events of a kind are about.                          *)
Ids(events, kind) ==
  {id \in ApprovalIds : \E i \in 1..Len(events) : events[i].kind = kind /\ events[i].id = id}

(* What the driver has still to record, by where it is; ...                *)
Shapes ==
  /\ pc \in {"idle", "finish"} => Quiet
  /\ pc = "begin" => Quiet \/ todo = <<RunStarted(run)>>
  /\ pc = "ending" => Quiet \/ \E kind \in EndKinds : todo = <<Event(kind)>>
  /\ pc = "paused" => \A i \in 1..Len(todo) :
       todo[i].kind = IF i = Len(todo) THEN "RunPaused" ELSE "ToolApprovalRequested"
  /\ pc = "resuming" => \A i \in 1..Len(todo) :
       todo[i].kind = IF i = Len(todo) THEN "RunResumed" ELSE "ToolApprovalResolved"
  /\ pc \in {"beginSteer", "loop", "phase", "steer", "prepend", "follow", "error"} =>
       \A i \in 1..Len(todo) : todo[i].kind \in Plain

(* ... which run each part of the state is of; ...                         *)
Numbers ==
  /\ ~Idle => run > 0
  /\ agent.run <= run /\ aborter.run <= run
  /\ ~Started => /\ agent.run < run /\ aborter.run < run
                 /\ stored = DefaultState /\ replayable
  /\ Started => stored.run = run /\ (~Idle => local.run = run)
  /\ run = 0 => agent.pending = {} /\ agent.status # "Paused" /\ stored.status # "Paused"
  /\ run = 1 /\ ~Started => agent.pending = {} /\ local.pending = {}

(* ... that the run's state and the agent's are what the log reduces to;   *)
Shows(state) ==
  /\ stored.status = state.status /\ stored.pending \subseteq state.pending
  /\ run = 1 => stored.pending = state.pending
Agrees ==
  Started /\ Logged /\ run > 0 =>
    /\ ~Idle => Shows(local)
    /\ agent.run = run =>
         \/ Shows(agent)
         \/ pc \in {"finish", "idle"} /\ cause = "sink" /\ stored.status = "Failed"

(* ... which approvals are pending, a run that works being shown as one; ..*)
Pendings ==
  Started /\ Logged =>
    /\ pc \in {"begin", "beginSteer", "loop", "phase", "steer", "prepend", "follow"} =>
         stored.pending = {} /\ stored.status # "Paused"
    /\ pc = "error" /\ cause \notin Broken => stored.pending = {}
    /\ pc = "ending" /\ (Quiet \/ cause \notin Broken) => stored.pending = {}
    /\ pc = "paused" => 
         IF Quiet THEN stored.pending = cont.pending
         ELSE /\ stored.pending \cup Ids(todo, "ToolApprovalRequested") = todo[Len(todo)].cont.pending
              /\ stored.status # "Paused"
    /\ pc = "resuming" => 
         /\ stored.pending \subseteq cont.pending \cap Ids(todo, "ToolApprovalResolved")
         /\ Quiet => stored.status # "Paused"
    /\ pc \in {"error", "ending", "finish", "idle"} /\ stored.status = "Paused" =>
         stored.pending \subseteq cont.pending
    /\ Idle /\ stored.status = "Paused" /\ cause \notin Broken => stored.pending = cont.pending

(* ... and how runs end.                                                   *)
Ends ==
  /\ ~ok => pc \in {"error", "ending", "finish", "idle"}
  /\ pc = "error" => ~ok /\ cause # "none"
  /\ pc = "finish" => ~ok /\ cause \in Broken
  /\ pc = "ending" /\ Quiet => local.status \in Terminal /\ agent.status \notin {"Running", "Paused"}
  /\ pc = "paused" /\ Quiet => local.status = "Paused"
  /\ Idle /\ cause \notin Broken =>
       agent.status # "Running" /\ (agent.status = "Paused" => agent.run = run)

IInv == TypeOK /\ Shapes /\ Numbers /\ Agrees /\ Pendings /\ Ends

-----------------------------------------------------------------------------
(* Every set of numbers that holds one holds a least one.                  *)
LEMMA Less == \E R : IsWellFoundedOn(R, Nat) /\ \A x, y \in Nat : <<y, x>> \in R <=> y < x
<1>1. \A x, y \in Nat : <<y, x>> \in OpToRel(<, Nat) <=> y < x
  BY DEF OpToRel
<1> WITNESS OpToRel(<, Nat)
<1>2. IsWellFoundedOn(OpToRel(<, Nat), Nat)
  BY NatLessThanWellFounded
<1> QED BY <1>1, <1>2

LEMMA Least ==
  ASSUME NEW T \in SUBSET Nat, NEW n \in T
  PROVE  \E m \in T : \A k \in T : m <= k
<1>1. PICK R : IsWellFoundedOn(R, Nat) /\ \A x, y \in Nat : <<y, x>> \in R <=> y < x
  BY Less
<1>2. PICK x \in T : \A y \in T : ~(<<y, x>> \in R)
  BY <1>1, WFMin
<1>3. \A y \in T : ~(y < x)
  BY <1>1, <1>2
<1> QED BY <1>2, <1>3

(* The sequences that Kept goes through.                                   *)
KeptTo(f, s, stays, n) ==
  f = [i \in 0..n |-> IF i = 0 THEN <<>>
                      ELSE IF s[i] \in stays THEN Append(f[i - 1], s[i])
                      ELSE f[i - 1]]

LEMMA KeptExists ==
  ASSUME NEW S, NEW s \in Seq(S), NEW stays
  PROVE  \A n \in 0..Len(s) : \E f : KeptTo(f, s, stays, n)
<1> DEFINE T == {n \in 0..Len(s) : ~ \E f : KeptTo(f, s, stays, n)}
<1>1. Len(s) \in Nat
  BY LenProperties
<1>2. SUFFICES ASSUME NEW n \in T PROVE FALSE
  OBVIOUS
<1>3. PICK m \in T : \A k \in T : m <= k
  <2>1. T \in SUBSET Nat
    BY <1>1
  <2> QED BY <2>1, Least
<1>4. m \in 0..Len(s) /\ m \in Nat
  BY <1>1
<1>5. m # 0
  <2>1. KeptTo([i \in 0..0 |-> <<>>], s, stays, 0)
    BY DEF KeptTo
  <2> QED BY <2>1
<1>6. m - 1 \in 0..Len(s) /\ m - 1 \notin T
  BY <1>1, <1>3, <1>4, <1>5
<1>7. PICK f : KeptTo(f, s, stays, m - 1)
  BY <1>6
<1> DEFINE last == IF s[m] \in stays THEN Append(f[m - 1], s[m]) ELSE f[m - 1]
           g == [i \in 0..m |-> IF i = m THEN last ELSE f[i]]
<1> HIDE DEF last
<1>8. \A i \in 0..m : g[i] = IF i = 0 THEN <<>>
                             ELSE IF s[i] \in stays THEN Append(g[i - 1], s[i])
                             ELSE g[i - 1]
  <2> TAKE i \in 0..m
  <2>1. CASE i = m
    BY <1>4, <1>5, <2>1 DEF last
  <2>2. CASE i # m
    <3>1. i \in 0..(m - 1) /\ (i # 0 => i - 1 \in 0..(m - 1) /\ i - 1 # m)
      BY <1>4, <2>2
    <3>2. f[i] = IF i = 0 THEN <<>> ELSE IF s[i] \in stays THEN Append(f[i - 1], s[i])
                 ELSE f[i - 1]
      BY <1>7, <3>1 DEF KeptTo
    <3>3. g[i] = f[i] /\ (i # 0 => g[i - 1] = f[i - 1])
      BY <1>4, <2>2, <3>1
    <3> QED BY <3>2, <3>3
  <2> QED BY <2>1, <2>2
<1>9. KeptTo(g, s, stays, m)
  BY <1>8 DEF KeptTo
<1> QED BY <1>9

LEMMA KeptType ==
  ASSUME NEW S, NEW s \in Seq(S), NEW stays
  PROVE  Kept(s, stays) \in Seq(S)
<1> DEFINE kept == CHOOSE f : KeptTo(f, s, stays, Len(s))
<1>1. KeptTo(kept, s, stays, Len(s))
  <2>1. Len(s) \in 0..Len(s)
    BY LenProperties
  <2> QED BY <2>1, KeptExists
<1>2. Kept(s, stays) = kept[Len(s)]
  BY DEF Kept, KeptTo
<1> DEFINE T == {i \in 0..Len(s) : kept[i] \notin Seq(S)}
<1> HIDE DEF kept
<1>3. Len(s) \in Nat
  BY LenProperties
<1>4. SUFFICES ASSUME NEW n \in T PROVE FALSE
  BY <1>2, <1>3
<1>5. PICK m \in T : \A k \in T : m <= k
  <2>1. T \in SUBSET Nat
    BY <1>3
  <2> QED BY <2>1, Least
<1>6. kept[m] = IF m = 0 THEN <<>>
                ELSE IF s[m] \in stays THEN Append(kept[m - 1], s[m]) ELSE kept[m - 1]
  BY <1>1 DEF KeptTo
<1>7. m # 0
  BY <1>6, EmptySeq
<1>8. kept[m - 1] \in Seq(S)
  BY <1>3, <1>5, <1>7
<1>9. s[m] \in S
  BY <1>3, <1>7, ElementOfSeq
<1>10. Append(kept[m - 1], s[m]) \in Seq(S)
  BY <1>8, <1>9, AppendProperties
<1> QED BY <1>6, <1>7, <1>8, <1>10

(* What SetToSeq lists is the set, and nothing else.                       *)
LEMMA Listed ==
  ASSUME NEW S, IsFiniteSet(S)
  PROVE  SetToSeq(S) \in Seq(S) /\ \A x \in S : \E i \in 1..Len(SetToSeq(S)) : SetToSeq(S)[i] = x
<1> DEFINE n == Cardinality(S)
           s == SetToSeq(S)
<1>1. n \in Nat
  BY FS_CardinalityType
<1>2. PICK f : f \in Bijection(1..n, S)
  <2>1. IsFiniteSet(1..n) /\ Cardinality(1..n) = n
    BY <1>1, FS_Interval
  <2> QED BY <2>1, FS_SameCardinalityBij DEF ExistsBijection
<1>3. f \in [1..n -> S] /\ IsInjective(f)
  BY <1>2 DEF Bijection, Injection
<1>4. s \in [1..n -> S] /\ IsInjective(s)
  BY <1>3 DEF SetToSeq
<1>5. s \in Injection(1..n, S)
  BY <1>4 DEF Injection
<1>6. IsFiniteSet(1..n) /\ Cardinality(1..n) = n
  BY <1>1, FS_Interval
<1>7. s \in Surjection(1..n, S)
  BY <1>5, <1>6, FS_Injection
<1>8. s \in Seq(S) /\ Len(s) = n
  BY <1>1, <1>4, SeqDef
<1> QED BY <1>7, <1>8 DEF Surjection

-----------------------------------------------------------------------------
(* The data of the model.                                                  *)
LEMMA MessageType ==
  ASSUME NEW kind \in MessageKinds \cup {"none"}, NEW r \in 0..MaxRuns, NEW n \in Nat,
         NEW cs \in Seq(1..MaxCalls)
  PROVE  Message(kind, r, n, cs) \in MessageSet
BY DEF Message, MessageSet

LEMMA DefaultType ==
  DefaultState \in States /\ NoInput \in MessageSet /\ NoCont \in Conts
<1>1. 0 \in 0..MaxRuns /\ MaxRuns \in Nat
  BY LoopAssumption
<1>2. <<>> \in Seq(1..MaxCalls) /\ <<>> \in Seq(MessageSet)
  BY EmptySeq
<1>3. NoInput \in MessageSet
  BY <1>1, <1>2, MessageType DEF NoInput
<1> QED BY <1>1, <1>2, <1>3 DEF DefaultState, States, RunStatuses, NoCont, Conts

(* What one event does to the status and the pending approvals.            *)
StatusAfter(status, e) ==
  CASE e.kind \in {"RunStarted", "RunResumed"} -> "Running"
    [] e.kind = "RunPaused" -> "Paused"
    [] e.kind = "RunCompleted" -> "Completed"
    [] e.kind = "RunAborted" -> "Aborted"
    [] e.kind \in {"RunFailed", "PhaseFailed"} -> "Failed"
    [] OTHER -> status
PendingAfter(pending, e) ==
  CASE e.kind \in EndKinds -> {}
    [] e.kind = "ToolApprovalRequested" -> pending \cup {e.id}
    [] e.kind = "ToolApprovalResolved" -> pending \ {e.id}
    [] OTHER -> pending

LEMMA Applied ==
  ASSUME NEW s \in States, NEW e \in Events
  PROVE  /\ ApplyEvent(s, e) \in States
         /\ ApplyEvent(s, e).run = IF e.kind = "RunStarted" THEN e.run ELSE s.run
         /\ ApplyEvent(s, e).status = StatusAfter(s.status, e)
         /\ ApplyEvent(s, e).pending = PendingAfter(s.pending, e)
<1> DEFINE t == ApplyEvent(s, e)
<1>1. s = [run |-> s.run, status |-> s.status, msgs |-> s.msgs, pending |-> s.pending]
      /\ s.run \in 0..MaxRuns /\ s.status \in RunStatuses
      /\ s.msgs \in Seq(MessageSet) /\ s.pending \in SUBSET ApprovalIds
  BY DEF States
<1>2. CASE e.kind = "EffectCommitted"
  <2>1. e.message \in MessageSet
    BY <1>2 DEF Events, MarkerKinds, EndKinds
  <2>2. Append(s.msgs, e.message) \in Seq(MessageSet)
    BY <1>1, <2>1, AppendProperties
  <2>3. t = [s EXCEPT !.msgs = Append(s.msgs, e.message)]
    BY <1>2 DEF ApplyEvent
  <2> QED BY <1>1, <1>2, <2>2, <2>3 DEF States, StatusAfter, PendingAfter, EndKinds
<1>3. CASE e.kind = "MessagesCompacted"
  <2>1. e.summary \in MessageSet
    BY <1>3 DEF Events, MarkerKinds, EndKinds
  <2>2. <<e.summary>> \o Kept(s.msgs, e.retained) \in Seq(MessageSet)
    BY <1>1, <2>1, KeptType, ConcatProperties
  <2>3. t = [s EXCEPT !.msgs = <<e.summary>> \o Kept(s.msgs, e.retained)]
    BY <1>3 DEF ApplyEvent
  <2> QED BY <1>1, <1>3, <2>2, <2>3 DEF States, StatusAfter, PendingAfter, EndKinds
<1>4. CASE e.kind = "RunStarted"
  <2>1. e.run \in 0..MaxRuns
    BY <1>4 DEF Events, MarkerKinds, EndKinds
  <2>2. t = [s EXCEPT !.run = e.run, !.status = "Running"]
    BY <1>4 DEF ApplyEvent
  <2> QED BY <1>1, <1>4, <2>1, <2>2 DEF States, RunStatuses, StatusAfter, PendingAfter, EndKinds
<1>5. CASE e.kind \in {"ToolApprovalRequested", "ToolApprovalResolved"}
  <2>1. e.id \in ApprovalIds
    BY <1>5 DEF Events, MarkerKinds, EndKinds
  <2>2. t = [s EXCEPT !.pending = PendingAfter(s.pending, e)]
    BY <1>5 DEF ApplyEvent, PendingAfter, EndKinds
  <2>3. PendingAfter(s.pending, e) \in SUBSET ApprovalIds
    BY <1>1, <1>5, <2>1 DEF PendingAfter, EndKinds
  <2> QED BY <1>1, <1>5, <2>2, <2>3 DEF States, StatusAfter
<1>6. CASE e.kind \in {"RunCompleted", "RunAborted", "RunFailed"}
  <2>1. t = [s EXCEPT !.status = StatusAfter(s.status, e), !.pending = {}]
    BY <1>6 DEF ApplyEvent, StatusAfter
  <2>2. StatusAfter(s.status, e) \in RunStatuses
    BY <1>6 DEF StatusAfter, RunStatuses
  <2> QED BY <1>1, <1>6, <2>1, <2>2 DEF States, PendingAfter, EndKinds
<1>7. CASE e.kind \in {"PhaseFailed", "RunPaused", "RunResumed"}
  <2>1. t = [s EXCEPT !.status = StatusAfter(s.status, e)]
    BY <1>7 DEF ApplyEvent, StatusAfter
  <2>2. StatusAfter(s.status, e) \in RunStatuses
    BY <1>7 DEF StatusAfter, RunStatuses
  <2> QED BY <1>1, <1>7, <2>1, <2>2 DEF States, PendingAfter, EndKinds
<1>8. CASE e.kind \in {"TurnStarted", "PhaseCompleted", "TurnCompleted"}
  BY <1>1, <1>8 DEF ApplyEvent, StatusAfter, PendingAfter, EndKinds
<1>9. e.kind \in MarkerKinds \cup EndKinds \cup Effects \cup
        {"RunStarted", "RunResumed", "RunPaused", "ToolApprovalRequested", "ToolApprovalResolved"}
  BY DEF Events, Effects
<1> QED BY <1>2, <1>3, <1>4, <1>5, <1>6, <1>7, <1>8, <1>9 DEF MarkerKinds, EndKinds, Effects

(* What the queues hand out and keep.                                      *)
LEMMA DrainedType ==
  ASSUME NEW queue \in Seq(MessageSet), NEW mode
  PROVE  Drained(queue, mode) \in Seq(MessageSet) /\ Remaining(queue, mode) \in Seq(MessageSet)
<1>1. Len(queue) \in Nat /\ \A i \in 1..Len(queue) : queue[i] \in MessageSet
  BY LenProperties, ElementOfSeq
<1>2. PICK n \in Int : n <= Len(queue) /\ n = Min({1, Len(queue)})
  <2>1. \E x \in {1, Len(queue)} : \A y \in {1, Len(queue)} : x <= y
    BY <1>1
  <2>2. Min({1, Len(queue)}) \in Int /\ Min({1, Len(queue)}) <= Len(queue)
    BY <1>1, <2>1 DEF Min
  <2> QED BY <2>2
<1>3. SubSeq(queue, 1, n) \in Seq(MessageSet)
  <2>1. \A i \in 1..n : queue[i] \in MessageSet
    BY <1>1, <1>2
  <2>2. 1 \in Int /\ n \in Int
    BY <1>2
  <2> QED BY <2>1, <2>2, SubSeqProperties
<1>4. Drained(queue, mode) \in Seq(MessageSet)
  BY <1>2, <1>3 DEF Drained
<1>5. Len(Drained(queue, mode)) \in Nat
  BY <1>4, LenProperties
<1>6. Remaining(queue, mode) \in Seq(MessageSet)
  <2>1. \A i \in (Len(Drained(queue, mode)) + 1)..Len(queue) : queue[i] \in MessageSet
    BY <1>1, <1>5
  <2> QED BY <1>1, <1>5, <2>1, SubSeqProperties DEF Remaining
<1> QED BY <1>4, <1>6

(* Events that are a list of commits, ...                                  *)
LEMMA CommitsType ==
  ASSUME NEW messages \in Seq(MessageSet)
  PROVE  Commits(messages) \in Seq(Events) /\ \A i \in 1..Len(Commits(messages)) :
                                                Commits(messages)[i].kind \in Plain
<1>1. Len(messages) \in Nat /\ DOMAIN messages = 1..Len(messages)
  BY LenProperties
<1>2. \A i \in 1..Len(messages) : Committed(messages[i]) \in Events
  BY ElementOfSeq DEF Committed, Events
<1>3. Commits(messages) = [i \in 1..Len(messages) |-> Committed(messages[i])]
  BY <1>1 DEF Commits
<1>4. Commits(messages) \in Seq(Events) /\ Len(Commits(messages)) = Len(messages)
  <2>1. Commits(messages) \in [1..Len(messages) -> Events]
    BY <1>2, <1>3
  <2>2. Commits(messages) \in Seq(Events)
    BY <1>1, <2>1, SeqDef
  <2> QED BY <1>1, <2>1, <2>2, LenProperties
<1> QED BY <1>3, <1>4 DEF Committed, Plain, Effects

(* ... of tool results, ...                                                *)
LEMMA ResultsType ==
  ASSUME run \in 0..MaxRuns, NEW cs \in Seq(1..MaxCalls)
  PROVE  /\ Results(cs) \in Seq(Events) /\ Len(Results(cs)) = Len(cs)
         /\ \A i \in 1..Len(Results(cs)) : Results(cs)[i].kind \in Plain
<1> DEFINE result(i) == Committed(Message("toolResult", run, cs[i], <<>>))
<1>1. Len(cs) \in Nat /\ DOMAIN cs = 1..Len(cs) /\ MaxCalls \in Nat
  BY LenProperties, LoopAssumption
<1>2. \A i \in 1..Len(cs) : result(i) \in Events /\ result(i).kind \in Plain
  <2> TAKE i \in 1..Len(cs)
  <2>1. cs[i] \in Nat
    BY <1>1, ElementOfSeq
  <2>2. Message("toolResult", run, cs[i], <<>>) \in MessageSet
    BY <2>1, MessageType, EmptySeq DEF MessageKinds
  <2> QED BY <2>2 DEF Committed, Events, Plain, Effects
<1>3. Results(cs) = [i \in 1..Len(cs) |-> result(i)]
  BY <1>1 DEF Results
<1> HIDE DEF result
<1>4. Results(cs) \in Seq(Events) /\ Len(Results(cs)) = Len(cs)
  <2>1. Results(cs) \in [1..Len(cs) -> Events]
    BY <1>2, <1>3
  <2>2. Results(cs) \in Seq(Events)
    BY <1>1, <2>1, SeqDef
  <2> QED BY <1>1, <2>1, <2>2, LenProperties
<1> QED BY <1>2, <1>3, <1>4

(* ... or a list with a marker behind it.                                  *)
LEMMA MarkedType ==
  ASSUME NEW events \in Seq(Events), \A i \in 1..Len(events) : events[i].kind \in Plain,
         NEW kind \in MarkerKinds
  PROVE  /\ Append(events, Event(kind)) \in Seq(Events)
         /\ \A i \in 1..Len(Append(events, Event(kind))) :
              Append(events, Event(kind))[i].kind \in Plain
<1>1. Event(kind) \in Events /\ Event(kind).kind \in Plain
  BY DEF Event, Events, Plain
<1>2. Len(events) \in Nat
  BY LenProperties
<1> QED BY <1>1, <1>2, AppendProperties

(* A single event.                                                         *)
LEMMA OneEvent ==
  ASSUME NEW e \in Events
  PROVE  <<e>> \in Seq(Events) /\ Len(<<e>>) = 1 /\ <<e>>[1] = e /\ <<e>> # <<>>
<1>1. <<e>> \in Seq(Events) /\ Len(<<e>>) = 1 /\ <<e>>[1] = e
  OBVIOUS
<1>2. Len(<<>>) = 0
  BY EmptySeq
<1> QED BY <1>1, <1>2

LEMMA NoEvents == <<>> \in Seq(Events) /\ \A i \in 1..Len(<<>>) : <<>>[i].kind \in Plain
<1>1. Len(<<>>) = 0
  BY EmptySeq
<1> QED BY <1>1, EmptySeq

(* Approvals are finitely many; the events that request or resolve them    *)
(* are about exactly these.                                                *)
LEMMA IdsFinite == ASSUME NEW ids \in SUBSET ApprovalIds PROVE IsFiniteSet(ids)
<1>1. MaxCalls \in Int /\ NHooks \in Int
  BY LoopAssumption
<1>2. IsFiniteSet(1..MaxCalls) /\ IsFiniteSet(1..NHooks)
  BY <1>1, FS_Interval
<1>3. IsFiniteSet(ApprovalIds)
  BY <1>2, FS_Product DEF ApprovalIds
<1> QED BY <1>3, FS_Subset

LEMMA IdEvents ==
  ASSUME NEW ids \in SUBSET ApprovalIds,
         NEW kind \in {"ToolApprovalRequested", "ToolApprovalResolved"},
         NEW last \in Events, last.kind # kind
  PROVE  LET events == Append(SetToSeq({[kind |-> kind, id |-> id] : id \in ids}), last)
         IN /\ events \in Seq(Events) /\ events # <<>>
            /\ \A i \in 1..Len(events) : IF i = Len(events) THEN events[i] = last
                                                           ELSE events[i].kind = kind
            /\ Ids(events, kind) = ids
<1> DEFINE S == {[kind |-> kind, id |-> id] : id \in ids}
           s == SetToSeq(S)
           events == Append(s, last)
<1>1. IsFiniteSet(S)
  <2> DEFINE f == [id \in ids |-> [kind |-> kind, id |-> id]]
  <2>1. f \in Surjection(ids, S)
    BY DEF Surjection
  <2> QED BY <2>1, IdsFinite, FS_Surjection
<1> HIDE DEF S
<1>2. s \in Seq(S) /\ \A x \in S : \E i \in 1..Len(s) : s[i] = x
  BY <1>1, Listed
<1>3. S \subseteq Events /\ \A x \in S : x.kind = kind /\ x.id \in ids
  BY DEF S, Events
<1>4. s \in Seq(Events) /\ Len(s) \in Nat
  BY <1>2, <1>3, SeqMonotonic, LenProperties
<1> HIDE DEF s
<1>5. /\ events \in Seq(Events) /\ Len(events) = Len(s) + 1
      /\ \A i \in 1..Len(s) : events[i] = s[i]
      /\ events[Len(s) + 1] = last
  BY <1>4, AppendProperties
<1>6. \A i \in 1..Len(s) : s[i] \in S
  BY <1>2, ElementOfSeq
<1> HIDE DEF events
<1>7. Ids(events, kind) \subseteq ids
  BY <1>3, <1>4, <1>5, <1>6 DEF Ids
<1>8. ASSUME NEW id \in ids
      PROVE  id \in Ids(events, kind)
  <2>1. [kind |-> kind, id |-> id] \in S
    BY DEF S
  <2>2. PICK i \in 1..Len(s) : s[i] = [kind |-> kind, id |-> id]
    BY <1>2, <2>1
  <2>3. i \in 1..Len(events) /\ events[i].kind = kind /\ events[i].id = id
    BY <1>4, <1>5, <2>2
  <2>4. id \in ApprovalIds
    OBVIOUS
  <2> QED BY <2>3, <2>4 DEF Ids
<1>9. \A i \in 1..Len(events) : IF i = Len(events) THEN events[i] = last ELSE events[i].kind = kind
  BY <1>3, <1>4, <1>5, <1>6
<1>10. events # <<>>
  BY <1>4, <1>5
<1> QED BY <1>5, <1>7, <1>8, <1>9, <1>10 DEF events, s, S

(* The approvals that are left when one event is taken.                    *)
LEMMA IdsOfTail ==
  ASSUME NEW events \in Seq(Events), events # <<>>, NEW kind
  PROVE  Ids(events, kind) =
           Ids(Tail(events), kind)
             \cup (IF Head(events).kind = kind THEN {Head(events).id} \cap ApprovalIds ELSE {})
<1>1. /\ Len(events) \in Nat \ {0} /\ Len(Tail(events)) = Len(events) - 1
      /\ \A i \in 1..Len(Tail(events)) : Tail(events)[i] = events[i + 1]
      /\ Head(events) = events[1]
  BY EmptySeq, HeadTailProperties
<1>2. \A i \in 1..Len(events) : i = 1 \/ (i - 1 \in 1..Len(Tail(events))
                                          /\ Tail(events)[i - 1] = events[i])
  BY <1>1
<1>3. \A i \in 1..Len(Tail(events)) : i + 1 \in 1..Len(events)
  BY <1>1
<1>4. ASSUME NEW id \in ApprovalIds
      PROVE  id \in Ids(events, kind) <=>
               \/ id \in Ids(Tail(events), kind)
               \/ Head(events).kind = kind /\ Head(events).id = id
  <2>1. ASSUME NEW i \in 1..Len(events), events[i].kind = kind, events[i].id = id
        PROVE  \/ id \in Ids(Tail(events), kind)
               \/ Head(events).kind = kind /\ Head(events).id = id
    <3>1. CASE i = 1
      BY <1>1, <2>1, <3>1
    <3>2. CASE i # 1
      BY <1>2, <2>1, <3>2 DEF Ids
    <3> QED BY <3>1, <3>2
  <2>2. ASSUME NEW i \in 1..Len(Tail(events)), Tail(events)[i].kind = kind, Tail(events)[i].id = id
        PROVE  id \in Ids(events, kind)
    BY <1>1, <1>3, <2>2 DEF Ids
  <2>3. Head(events).kind = kind /\ Head(events).id = id => id \in Ids(events, kind)
    <3>1. 1 \in 1..Len(events)
      BY <1>1
    <3> QED BY <1>1, <3>1 DEF Ids
  <2> QED BY <2>1, <2>2, <2>3 DEF Ids
<1> QED BY <1>4 DEF Ids

-----------------------------------------------------------------------------
(* The steps that only leave events to record: the run goes on, or fails.  *)
Working == {"beginSteer", "loop", "phase", "steer", "prepend", "follow"}
Works ==
  /\ Quiet /\ pc \in Working \cup {"begin", "resuming"}
  /\ todo' \in Seq(Events) /\ \A i \in 1..Len(todo') : todo'[i].kind \in Plain
  /\ \/ pc' \in Working /\ ok' = ok /\ cause' = cause
     \/ pc' = "error" /\ ok' = FALSE /\ cause' \in {"aborted", "failed"}
  /\ UNCHANGED <<run, cancelled, local, agent, stored, replayable, cont, raced, whole, aborter>>

LEMMA PhaseCount == Len(Phases) = 9 /\ DOMAIN Phases = 1..9
BY DEF Phases

(* What is left alone in most phases.                                      *)
WorkTypes ==
  TypeOK /\ Works /\ phase' \in 1..(Len(Phases) + 1) /\ reply' \in Seq(1..MaxCalls)
    /\ calls' \in Seq(1..MaxCalls) /\ decision' \in {"None", "Stop", "Continue"}
    /\ asked' \in BOOLEAN /\ nextCall' \in 1..(MaxCalls + 1)
    /\ UNCHANGED <<turn, startPhase, recordTurn, input, steering, followUp, held, obsCommitted,
                   sent, queuedLog, dropped>>

LEMMA WorkTyped == ASSUME WorkTypes PROVE TypeOK'
<1>1. /\ pc' \in Working \cup {"error"} /\ todo' \in Seq(Events)
      /\ ok' \in BOOLEAN /\ cause' \in {"none", "aborted", "failed"} \cup Broken
  BY DEF WorkTypes, Works, TypeOK
<1>2. UNCHANGED <<run, cancelled, local, agent, stored, replayable, cont, raced, whole, aborter>>
  BY DEF WorkTypes, Works
<1> QED BY <1>1, <1>2 DEF WorkTypes, Working, TypeOK

(* A phase that completes or fails.                                        *)
LEMMA Completes ==
  ASSUME TypeOK, NEW id, InPhase(id),
         NEW events \in Seq(Events), \A i \in 1..Len(events) : events[i].kind \in Plain,
         CompletePhase(events), UNCHANGED <<run, cancelled, local, agent, log, aborter>>
  PROVE  Works /\ phase' \in 1..(Len(Phases) + 1)
<1>1. pc = "phase" /\ Quiet /\ phase \in 1..9 /\ phase' = phase + 1 /\ UNCHANGED <<pc, ok, cause>>
  BY PhaseCount DEF InPhase, CompletePhase
<1>2. /\ todo' \in Seq(Events) /\ \A i \in 1..Len(todo') : todo'[i].kind \in Plain
  <2>1. todo' = Append(events, Event("PhaseCompleted")) /\ "PhaseCompleted" \in MarkerKinds
    BY DEF CompletePhase, MarkerKinds
  <2> QED BY <2>1, MarkedType
<1>3. Works
  BY <1>1, <1>2 DEF Works, Working, log
<1>4. phase' \in 1..(Len(Phases) + 1)
  BY <1>1, PhaseCount
<1> QED BY <1>3, <1>4

LEMMA Fails ==
  ASSUME TypeOK, NEW id, InPhase(id), NEW why \in ProviderErrors, FailPhase(why),
         UNCHANGED <<run, cancelled, local, agent, log, aborter>>
  PROVE  Works /\ phase' = phase
<1>1. why \in {"aborted", "failed"}
  BY DEF ProviderErrors
<1>2. pc = "phase" /\ Quiet /\ phase' = phase /\ pc' = "error" /\ ok' = FALSE /\ cause' = why
  BY DEF InPhase, FailPhase, Fail
<1>3. Event("PhaseFailed") \in Events /\ Event("PhaseFailed").kind \in Plain
  BY DEF Event, Events, Plain, MarkerKinds
<1>4. todo' \in Seq(Events) /\ \A i \in 1..Len(todo') : todo'[i].kind \in Plain
  BY <1>3, OneEvent DEF FailPhase
<1> QED BY <1>1, <1>2, <1>4 DEF Works, Working, log

LEMMA FailedType ==
  ASSUME NEW why \in ProviderErrors
  PROVE  why \in {"aborted", "failed"}
BY DEF ProviderErrors

LEMMA BeginSteeringStep == ASSUME TypeOK, BeginSteering PROVE Works /\ TypeOK'
<1>1. /\ Drained(steering, SteeringMode) \in Seq(MessageSet) /\ steering' \in Seq(MessageSet)
  BY DrainedType DEF BeginSteering, TypeOK
<1>2. todo' \in Seq(Events) /\ \A i \in 1..Len(todo') : todo'[i].kind \in Plain
  BY <1>1, CommitsType DEF BeginSteering
<1>3. Works
  BY <1>2 DEF BeginSteering, Works, Working, log
<1> QED BY <1>1, <1>2, <1>3 DEF BeginSteering, TypeOK, cursor, log, history

LEMMA BeginTurnStep == ASSUME TypeOK, BeginTurn PROVE Works /\ TypeOK'
<1>1. CASE cancelled
  <2>1. Quiet /\ todo' = <<>> /\ pc' = "error" /\ ok' = FALSE /\ cause' = "aborted" /\ phase' = phase
    BY <1>1 DEF BeginTurn, Fail, Quiet
  <2>2. Works
    BY <2>1, NoEvents DEF BeginTurn, Works, Working, log
  <2>3. UNCHANGED <<turn, startPhase, recordTurn, phase, input, reply, calls, decision, queues,
                    history>>
    BY <2>1 DEF BeginTurn
  <2>4. /\ phase' \in 1..(Len(Phases) + 1)
        /\ reply' \in Seq(1..MaxCalls) /\ calls' \in Seq(1..MaxCalls)
        /\ decision' \in {"None", "Stop", "Continue"}
    BY <2>3 DEF TypeOK
  <2>5. WorkTypes
    BY <2>2, <2>3, <2>4 DEF WorkTypes, TypeOK, queues, history
  <2> QED BY <2>2, <2>5, WorkTyped
<1>2. CASE ~cancelled
  <2>1. /\ todo' = IF recordTurn THEN <<Event("TurnStarted")>> ELSE <<>>
        /\ phase' = startPhase /\ pc' = "phase" /\ UNCHANGED <<ok, cause>>
    BY <1>2 DEF BeginTurn, FirstPhase
  <2>2. Event("TurnStarted") \in Events /\ Event("TurnStarted").kind \in Plain
    BY DEF Event, Events, Plain, MarkerKinds
  <2>3. todo' \in Seq(Events) /\ \A i \in 1..Len(todo') : todo'[i].kind \in Plain
    BY <2>1, <2>2, OneEvent, NoEvents
  <2>4. Works
    BY <2>1, <2>3 DEF BeginTurn, Works, Working, log
  <2>5. phase' \in 1..(Len(Phases) + 1)
    BY <2>1, PhaseCount DEF TypeOK, AfterToolExecute
  <2> QED BY <2>1, <2>4, <2>5 DEF BeginTurn, Works, TypeOK, log, queues, history
<1> QED BY <1>1, <1>2

LEMMA InputIngestStep == ASSUME TypeOK, InputIngest PROVE Works /\ TypeOK'
<1> DEFINE events == IF turn = 1 /\ input # NoInput THEN <<Committed(input)>> ELSE <<>>
<1>1. Committed(input) \in Events /\ Committed(input).kind \in Plain
  BY DEF TypeOK, Committed, Events, Plain, Effects
<1>2. events \in Seq(Events) /\ \A i \in 1..Len(events) : events[i].kind \in Plain
  BY <1>1, OneEvent, NoEvents
<1>3. CompletePhase(events) /\ InPhase("input.ingest")
  BY DEF InputIngest
<1>4. UNCHANGED <<run, cancelled, local, agent, log, aborter>>
  BY DEF InputIngest
<1> HIDE DEF events
<1>5. Works /\ phase' \in 1..(Len(Phases) + 1)
  BY <1>2, <1>3, <1>4, Completes
<1>6. UNCHANGED <<turn, startPhase, recordTurn, input, reply, calls, decision, queues, history>>
  BY DEF InputIngest
<1>7. WorkTypes
  BY <1>5, <1>6 DEF WorkTypes, TypeOK, queues, history
<1> QED BY <1>5, <1>7, WorkTyped

LEMMA PreparePhaseStep == ASSUME TypeOK, PreparePhase PROVE Works /\ TypeOK'
<1>1. /\ InPhase("context.prepare") \/ InPhase("model.request.prepare")
      /\ UNCHANGED <<run, cancelled, local, agent, log, aborter>>
  BY DEF PreparePhase
<1>2. Works /\ phase' \in 1..(Len(Phases) + 1)
  <2>1. CASE CompletePhase(<<>>)
    BY <1>1, <2>1, NoEvents, Completes
  <2>2. CASE \E why \in ProviderErrors : FailPhase(why)
    BY <1>1, <2>2, Fails DEF TypeOK
  <2> QED BY <2>1, <2>2 DEF PreparePhase
<1>3. UNCHANGED <<turn, startPhase, recordTurn, input, reply, calls, decision, queues, history>>
  BY DEF PreparePhase
<1>4. WorkTypes
  BY <1>2, <1>3 DEF WorkTypes, TypeOK, queues, history
<1> QED BY <1>2, <1>4, WorkTyped

LEMMA CompactType ==
  ASSUME TypeOK, NEW cut \in Cuts(local.msgs)
  PROVE  CompactAt(local.msgs, cut) \in Events /\ CompactAt(local.msgs, cut).kind \in Plain
<1> DEFINE msgs == local.msgs
<1>1. msgs \in Seq(MessageSet)
  BY DEF TypeOK, States
<1> HIDE DEF msgs
<1>2. Len(msgs) \in Nat /\ cut \in 2..Len(msgs)
  BY <1>1, LenProperties DEF Cuts, msgs
<1>3. ASSUME NEW a \in 1..Len(msgs), NEW b \in 0..Len(msgs)
      PROVE  ToSet(SubSeq(msgs, a, b)) \in SUBSET MessageSet
  <2>1. \A i \in a..b : msgs[i] \in MessageSet
    BY <1>1, <1>2, ElementOfSeq
  <2>2. a \in Int /\ b \in Int
    BY <1>2
  <2>3. SubSeq(msgs, a, b) \in Seq(MessageSet)
    BY <2>1, <2>2, SubSeqProperties
  <2> QED BY <2>3, LenProperties, ElementOfSeq DEF ToSet
<1>4. Message("summary", run, turn, <<>>) \in MessageSet
  BY MessageType, EmptySeq DEF TypeOK, MessageKinds
<1>5. /\ ToSet(SubSeq(msgs, cut, Len(msgs))) \in SUBSET MessageSet
      /\ ToSet(SubSeq(msgs, 1, cut - 1)) \in SUBSET MessageSet
  <2>1. cut \in 1..Len(msgs) /\ Len(msgs) \in 0..Len(msgs) /\ 1 \in 1..Len(msgs) /\ cut - 1 \in 0..Len(msgs)
    BY <1>2
  <2> QED BY <2>1, <1>3
<1> QED BY <1>4, <1>5 DEF CompactAt, Compacted, Events, Plain, Effects, msgs

LEMMA ContextCompactStep == ASSUME TypeOK, ContextCompact PROVE Works /\ TypeOK'
<1>1. InPhase("context.compact") /\ UNCHANGED <<run, cancelled, local, agent, log, aborter>>
  BY DEF ContextCompact
<1>2. Works /\ phase' \in 1..(Len(Phases) + 1)
  <2>1. CASE CompletePhase(<<>>)
    BY <1>1, <2>1, NoEvents, Completes
  <2>2. CASE \E why \in ProviderErrors : FailPhase(why)
    BY <1>1, <2>2, Fails DEF TypeOK
  <2>3. ASSUME NEW cut \in Cuts(local.msgs), CompletePhase(<<CompactAt(local.msgs, cut)>>)
        PROVE  Works /\ phase' \in 1..(Len(Phases) + 1)
    <3> DEFINE e == CompactAt(local.msgs, cut)
               events == <<e>>
    <3>1. e \in Events /\ e.kind \in Plain
      BY CompactType
    <3> HIDE DEF e
    <3>2. events \in Seq(Events) /\ \A i \in 1..Len(events) : events[i].kind \in Plain
      BY <3>1, OneEvent
    <3>3. CompletePhase(events)
      BY <2>3 DEF e
    <3> HIDE DEF events
    <3> QED BY <1>1, <3>2, <3>3, Completes
  <2> QED BY <2>1, <2>2, <2>3 DEF ContextCompact
<1>3. UNCHANGED <<turn, startPhase, recordTurn, input, reply, calls, decision, queues, history>>
  BY DEF ContextCompact
<1>4. WorkTypes
  BY <1>2, <1>3 DEF WorkTypes, TypeOK, queues, history
<1> QED BY <1>2, <1>4, WorkTyped

LEMMA ModelStreamStep == ASSUME TypeOK, ModelStream PROVE Works /\ TypeOK'
<1>1. InPhase("model.stream") /\ UNCHANGED <<run, cancelled, local, agent, log, aborter>>
  BY DEF ModelStream
<1>2. UNCHANGED <<turn, startPhase, recordTurn, input, calls, decision, queues, sent, queuedLog,
               dropped>>
  BY DEF ModelStream
<1>3. CASE /\ \E n \in 0..(MaxCalls + 1 - nextCall) :
                /\ reply' = [i \in 1..n |-> nextCall + i - 1]
                /\ nextCall' = nextCall + n
           /\ asked' = TRUE
           /\ CompletePhase(<<>>)
  <2>1. Works /\ phase' \in 1..(Len(Phases) + 1)
    BY <1>1, <1>3, NoEvents, Completes
  <2>2. PICK n \in 0..(MaxCalls + 1 - nextCall) : /\ reply' = [i \in 1..n |-> nextCall + i - 1]
                                                  /\ nextCall' = nextCall + n
    BY <1>3
  <2>3. MaxCalls \in Nat /\ nextCall \in 1..(MaxCalls + 1)
    BY LoopAssumption DEF TypeOK
  <2>4. n \in Nat /\ nextCall' \in 1..(MaxCalls + 1) /\ \A i \in 1..n : nextCall + i - 1 \in 1..MaxCalls
    BY <2>2, <2>3
  <2>5. reply' \in Seq(1..MaxCalls)
    <3>1. reply' \in [1..n -> 1..MaxCalls]
      BY <2>2, <2>4
    <3> QED BY <2>4, <3>1, SeqDef
  <2>6. asked' \in BOOLEAN
    BY <1>3
  <2>7. WorkTypes
    BY <1>2, <2>1, <2>4, <2>5, <2>6 DEF WorkTypes, TypeOK, queues
  <2> QED BY <2>1, <2>7, WorkTyped
<1>4. CASE (\E why \in ProviderErrors : FailPhase(why)) /\ UNCHANGED <<reply, nextCall, asked>>
  <2>1. Works /\ phase' \in 1..(Len(Phases) + 1)
    BY <1>1, <1>4, Fails DEF TypeOK
  <2>2. WorkTypes
    BY <1>2, <1>4, <2>1 DEF WorkTypes, TypeOK, queues
  <2> QED BY <2>1, <2>2, WorkTyped
<1> QED BY <1>3, <1>4 DEF ModelStream

LEMMA AssistantCommitStep == ASSUME TypeOK, AssistantCommit PROVE Works /\ TypeOK'
<1>1. InPhase("assistant.commit") /\ UNCHANGED <<run, cancelled, local, agent, log, aborter>>
  BY DEF AssistantCommit
<1>2. Works /\ phase' \in 1..(Len(Phases) + 1)
  <2> DEFINE m == Message("assistant", run, turn, reply)
             events == <<Committed(m)>>
  <2>1. m \in MessageSet
    BY MessageType DEF TypeOK, MessageKinds
  <2> HIDE DEF m
  <2>2. Committed(m) \in Events /\ Committed(m).kind \in Plain
    BY <2>1 DEF Committed, Events, Plain, Effects
  <2>3. events \in Seq(Events) /\ \A i \in 1..Len(events) : events[i].kind \in Plain
    BY <2>2, OneEvent
  <2>4. CASE CompletePhase(events)
    <3> HIDE DEF events
    <3> QED BY <1>1, <2>3, <2>4, Completes
  <2>5. CASE \E why \in ProviderErrors : FailPhase(why)
    BY <1>1, <2>5, Fails DEF TypeOK
  <2> QED BY <2>4, <2>5 DEF AssistantCommit, m
<1>3. UNCHANGED <<turn, startPhase, recordTurn, input, reply, calls, decision, queues, history>>
  BY DEF AssistantCommit
<1>4. WorkTypes
  BY <1>2, <1>3 DEF WorkTypes, TypeOK, queues, history
<1> QED BY <1>2, <1>4, WorkTyped

LEMMA ToolCallResolveStep == ASSUME TypeOK, ToolCallResolve PROVE Works /\ TypeOK'
<1>1. /\ InPhase("tool.call.resolve") /\ CompletePhase(<<>>) /\ calls' = calls \o reply
      /\ UNCHANGED <<run, cancelled, local, agent, log, aborter>>
      /\ UNCHANGED <<turn, startPhase, recordTurn, input, reply, decision, queues, history>>
  BY DEF ToolCallResolve
<1>2. Works /\ phase' \in 1..(Len(Phases) + 1)
  BY <1>1, NoEvents, Completes
<1>3. calls' \in Seq(1..MaxCalls)
  BY <1>1, ConcatProperties DEF TypeOK
<1>4. WorkTypes
  BY <1>1, <1>2, <1>3 DEF WorkTypes, TypeOK, queues, history
<1> QED BY <1>2, <1>4, WorkTyped

LEMMA TurnDecisionStep == ASSUME TypeOK, TurnDecision PROVE Works /\ TypeOK'
<1>1. /\ InPhase("turn.decision") /\ CompletePhase(<<>>) /\ decision' = Decide(turn, calls)
      /\ UNCHANGED <<run, cancelled, local, agent, log, aborter>>
      /\ UNCHANGED <<turn, startPhase, recordTurn, input, reply, calls, queues, history>>
  BY DEF TurnDecision
<1>2. Works /\ phase' \in 1..(Len(Phases) + 1)
  BY <1>1, NoEvents, Completes
<1>3. decision' \in {"None", "Stop", "Continue"}
  BY <1>1 DEF Decide
<1>4. WorkTypes
  BY <1>1, <1>2, <1>3 DEF WorkTypes, TypeOK, queues, history
<1> QED BY <1>2, <1>4, WorkTyped

(* A pause: the approvals it is for are requested, then it is recorded.    *)
PausesFor(c) ==
  /\ todo' \in Seq(Events) /\ todo' # <<>>
  /\ \A i \in 1..Len(todo') : IF i = Len(todo') THEN todo'[i] = RunPaused(c)
                              ELSE todo'[i].kind = "ToolApprovalRequested"
  /\ Ids(todo', "ToolApprovalRequested") = c.pending
Pauses ==
  /\ Quiet /\ pc \in {"phase", "resuming"} /\ pc' = "paused"
  /\ \E c \in Conts : PausesFor(c)
  /\ UNCHANGED <<ok, cause, run, cancelled, local, agent, stored, replayable, cont, raced, whole, aborter>>

LEMMA PauseType ==
  ASSUME NEW t \in Nat, NEW cs \in Seq(1..MaxCalls), NEW pending \in SUBSET ApprovalIds,
         Quiet, pc \in {"phase", "resuming"}, PauseFor(t, cs, pending),
         UNCHANGED <<run, cancelled, local, agent, log, aborter>>
  PROVE  Pauses /\ PausesFor([turn |-> t, calls |-> cs, pending |-> pending])
<1> DEFINE c == [turn |-> t, calls |-> cs, pending |-> pending]
           S == {[kind |-> "ToolApprovalRequested", id |-> id] : id \in pending}
           last == RunPaused(c)
           events == Append(SetToSeq(S), last)
<1>1. c \in Conts /\ c.pending = pending
  BY DEF Conts
<1>2. last \in Events /\ last.kind # "ToolApprovalRequested"
  BY <1>1 DEF RunPaused, Events
<1>3. todo' = events /\ pc' = "paused" /\ UNCHANGED <<ok, cause>>
  BY DEF PauseFor, Requests, ApprovalRequested
<1> HIDE DEF c, last
<1>4. /\ events \in Seq(Events) /\ events # <<>>
      /\ \A i \in 1..Len(events) : IF i = Len(events) THEN events[i] = last
                                   ELSE events[i].kind = "ToolApprovalRequested"
      /\ Ids(events, "ToolApprovalRequested") = pending
  BY <1>2, IdEvents
<1> HIDE DEF events
<1>5. PausesFor(c)
  BY <1>1, <1>3, <1>4 DEF PausesFor, last, Ids
<1>6. Pauses
  BY <1>1, <1>3, <1>5 DEF Pauses, log
<1> QED BY <1>5, <1>6 DEF c

LEMMA PauseTypes ==
  ASSUME TypeOK, Pauses,
         UNCHANGED <<phase, input, reply, steering, followUp, held, obsCommitted, sent, queuedLog,
                     dropped, nextCall, asked>>,
         turn' \in Nat, calls' \in Seq(1..MaxCalls), decision' \in {"None", "Stop", "Continue"},
         startPhase' \in {1, AfterToolExecute}, recordTurn' \in BOOLEAN
  PROVE  TypeOK'
<1>1. todo' \in Seq(Events)
  BY DEF Pauses, PausesFor
<1>2. /\ UNCHANGED <<ok, cause, run, cancelled, local, agent, stored, replayable, cont, raced, whole, aborter>>
      /\ pc' = "paused"
  BY DEF Pauses
<1> QED BY <1>1, <1>2 DEF TypeOK

LEMMA ToSetType == ASSUME NEW S, NEW s \in Seq(S) PROVE ToSet(s) \in SUBSET S
BY LenProperties, ElementOfSeq DEF ToSet

LEMMA ToolPhaseStep == ASSUME TypeOK, ToolPhase PROVE (Works \/ Pauses) /\ TypeOK'
<1>1. /\ InPhase("tool.execute") /\ UNCHANGED <<run, cancelled, local, agent, log, aborter>>
      /\ UNCHANGED <<turn, startPhase, recordTurn, input, reply, calls, decision, queues, history>>
  BY DEF ToolPhase
<1>2. Works /\ phase' \in 1..(Len(Phases) + 1) => Works /\ TypeOK'
  <2>1. Works /\ phase' \in 1..(Len(Phases) + 1) => WorkTypes
    BY <1>1 DEF WorkTypes, TypeOK, queues, history
  <2> QED BY <2>1, WorkTyped
<1>3. CASE CompletePhase(<<>>)
  BY <1>1, <1>2, <1>3, NoEvents, Completes
<1>4. CASE CompletePhase(Results(calls))
  <2>1. /\ Results(calls) \in Seq(Events)
        /\ \A i \in 1..Len(Results(calls)) : Results(calls)[i].kind \in Plain
    BY ResultsType DEF TypeOK
  <2> QED BY <1>1, <1>2, <1>4, <2>1, Completes
<1>5. CASE \E why \in ProviderErrors : FailPhase(why)
  BY <1>1, <1>2, <1>5, Fails DEF TypeOK
<1>6. ASSUME NEW ask \in SUBSET ToSet(calls) \ {{}}, NEW hook \in [ask -> 1..NHooks],
             PauseFor(turn, calls, {<<c, hook[c]>> : c \in ask}), UNCHANGED phase
      PROVE  Pauses /\ TypeOK'
  <2> DEFINE pending == {<<c, hook[c]>> : c \in ask}
  <2>1. calls \in Seq(1..MaxCalls) /\ turn \in Nat
    BY DEF TypeOK
  <2>2. ToSet(calls) \subseteq 1..MaxCalls
    BY <2>1, ToSetType
  <2>3. \A c \in ask : c \in 1..MaxCalls /\ hook[c] \in 1..NHooks
    BY <2>2
  <2>4. pending \in SUBSET ApprovalIds
    BY <2>3 DEF ApprovalIds
  <2>5. PauseFor(turn, calls, pending)
    BY <1>6
  <2> HIDE DEF pending
  <2>6. Pauses
    BY <1>1, <2>1, <2>4, <2>5, PauseType DEF InPhase
  <2>7. /\ UNCHANGED <<phase, input, reply, steering, followUp, held, obsCommitted, sent, queuedLog,
                       dropped, nextCall, asked>>
        /\ turn' \in Nat /\ calls' \in Seq(1..MaxCalls) /\ decision' \in {"None", "Stop", "Continue"}
        /\ startPhase' \in {1, AfterToolExecute} /\ recordTurn' \in BOOLEAN
    BY <1>1, <1>6 DEF TypeOK, queues, history
  <2> QED BY <2>6, <2>7, PauseTypes
<1> QED BY <1>3, <1>4, <1>5, <1>6 DEF ToolPhase

(* Between the turns.                                                      *)
LEMMA TurnCompletedStep == ASSUME TypeOK, TurnCompleted PROVE Works /\ TypeOK'
<1>1. Event("TurnCompleted") \in Events /\ Event("TurnCompleted").kind \in Plain
  BY DEF Event, Events, Plain, MarkerKinds
<1>2. todo' \in Seq(Events) /\ \A i \in 1..Len(todo') : todo'[i].kind \in Plain
  BY <1>1, OneEvent DEF TurnCompleted
<1>3. Works
  BY <1>2 DEF TurnCompleted, Works, Working, log
<1>4. /\ pc' = "steer" /\ decision' \in {"None", "Stop", "Continue"} /\ obsCommitted' \in BOOLEAN
      /\ UNCHANGED <<ok, cause, run, cancelled, turn, startPhase, recordTurn, phase, input, reply,
                     calls, local, agent, log, steering, followUp, held, aborter, history>>
  BY DEF TurnCompleted, TypeOK
<1> QED BY <1>2, <1>3, <1>4 DEF TypeOK, log, history

LEMMA SteeringEmptyStep == ASSUME TypeOK, SteeringEmpty PROVE Works /\ TypeOK'
<1>1. Works
  BY NoEvents DEF SteeringEmpty, Quiet, Works, Working, log
<1> QED BY <1>1 DEF SteeringEmpty, TypeOK, cursor, log, queues, history

LEMMA SteeringAtStopStep == ASSUME TypeOK, SteeringAtStop PROVE Works /\ TypeOK'
<1> DEFINE drained == Drained(steering, SteeringMode)
<1>1. drained \in Seq(MessageSet) /\ steering' \in Seq(MessageSet)
  BY DrainedType DEF SteeringAtStop, TypeOK
<1> HIDE DEF drained
<1>2. \A kind : OfKind(drained, kind) \in Seq(MessageSet)
  BY <1>1, KeptType DEF OfKind
<1>3. todo' = Commits(OfKind(drained, "observation")) /\ held' = OfKind(drained, "userInput")
  BY DEF SteeringAtStop, drained
<1>4. todo' \in Seq(Events) /\ \A i \in 1..Len(todo') : todo'[i].kind \in Plain
  BY <1>2, <1>3, CommitsType
<1>5. Works
  BY <1>4 DEF SteeringAtStop, Works, Working, log
<1>6. held' \in Seq(MessageSet) /\ obsCommitted' \in BOOLEAN
  BY <1>2, <1>3 DEF SteeringAtStop
<1>7. UNCHANGED <<ok, cause, run, cancelled, cursor, local, agent, log, followUp, aborter, history>>
      /\ pc' = "prepend"
  BY DEF SteeringAtStop
<1> QED BY <1>1, <1>4, <1>5, <1>6, <1>7 DEF TypeOK, cursor, log, history

LEMMA PrependHeldStep == ASSUME TypeOK, PrependHeld PROVE Works /\ TypeOK'
<1>1. followUp' \in Seq(MessageSet) /\ held' \in Seq(MessageSet)
  BY ConcatProperties, EmptySeq DEF PrependHeld, Prepended, TypeOK
<1>2. Works
  BY NoEvents DEF PrependHeld, Quiet, Works, Working, log
<1> QED BY <1>1, <1>2 DEF PrependHeld, TypeOK, cursor, log, history

LEMMA NoneType == NoInput \in MessageSet /\ <<>> \in Seq(1..MaxCalls)
BY DefaultType, EmptySeq

LEMMA AnotherTurnType ==
  ASSUME TypeOK, AnotherTurn
  PROVE  /\ pc' = "loop" /\ turn' \in Nat /\ input' \in MessageSet
         /\ reply' \in Seq(1..MaxCalls) /\ calls' \in Seq(1..MaxCalls)
         /\ decision' \in {"None", "Stop", "Continue"} /\ asked' \in BOOLEAN
<1>1. /\ turn' = turn + 1 /\ input' = NoInput /\ reply' = <<>> /\ calls' = <<>>
      /\ decision' = "None" /\ asked' = FALSE /\ pc' = "loop"
  BY DEF AnotherTurn
<1>2. turn \in Nat
  BY DEF TypeOK
<1>3. input' \in MessageSet /\ reply' \in Seq(1..MaxCalls) /\ calls' \in Seq(1..MaxCalls)
  BY <1>1, NoneType
<1>4. asked' \in BOOLEAN
  BY <1>1
<1>5. turn' \in Nat
  BY <1>1, <1>2
<1> QED BY <1>1, <1>3, <1>4, <1>5

LEMMA SteeringAtContinueStep == ASSUME TypeOK, SteeringAtContinue PROVE Works /\ TypeOK'
<1>1. Drained(steering, SteeringMode) \in Seq(MessageSet) /\ steering' \in Seq(MessageSet)
  BY DrainedType DEF SteeringAtContinue, TypeOK
<1>2. todo' \in Seq(Events) /\ \A i \in 1..Len(todo') : todo'[i].kind \in Plain
  BY <1>1, CommitsType DEF SteeringAtContinue
<1>3. Works
  BY <1>2 DEF SteeringAtContinue, AnotherTurn, Works, Working, log
<1>4. /\ AnotherTurn
      /\ UNCHANGED <<ok, cause, run, cancelled, startPhase, recordTurn, phase, local, agent, log,
                     followUp, held, obsCommitted, aborter, sent, queuedLog, nextCall,
                     dropped>>
  BY DEF SteeringAtContinue
<1> QED BY <1>1, <1>2, <1>3, <1>4, AnotherTurnType DEF TypeOK, log

LEMMA NextTurnStep == ASSUME TypeOK, NextTurn PROVE Works /\ TypeOK'
<1>1. Works
  BY NoEvents DEF NextTurn, AnotherTurn, Quiet, Works, Working, log
<1>2. /\ AnotherTurn /\ startPhase' = 1 /\ recordTurn' = TRUE
      /\ UNCHANGED <<todo, ok, cause, run, cancelled, phase, local, agent, log, queues, aborter,
                     sent, queuedLog, nextCall, dropped>>
  BY DEF NextTurn
<1> QED BY <1>1, <1>2, AnotherTurnType DEF TypeOK, log, queues

LEMMA TurnAfterStopStep == ASSUME TypeOK, TurnAfterStop PROVE Works /\ TypeOK'
<1>1. Drained(followUp, FollowUpMode) \in Seq(MessageSet) /\ followUp' \in Seq(MessageSet)
  BY DrainedType DEF TurnAfterStop, TypeOK
<1>2. todo' \in Seq(Events) /\ \A i \in 1..Len(todo') : todo'[i].kind \in Plain
  BY <1>1, CommitsType DEF TurnAfterStop
<1>3. Works
  BY <1>2 DEF TurnAfterStop, AnotherTurn, Works, Working, log
<1>4. /\ AnotherTurn
      /\ UNCHANGED <<ok, cause, run, cancelled, startPhase, recordTurn, phase, local, agent, log,
                     steering, held, obsCommitted, aborter, sent, queuedLog, nextCall,
                     dropped>>
  BY DEF TurnAfterStop
<1> QED BY <1>1, <1>2, <1>3, <1>4, AnotherTurnType DEF TypeOK, log

(* The rest of a resumed phase.                                            *)
LEMMA ResumePhaseStep == ASSUME TypeOK, ResumePhase PROVE (Works \/ Pauses) /\ TypeOK'
<1>1. /\ pc = "resuming" /\ Quiet
      /\ turn' = cont.turn /\ calls' = cont.calls /\ decision' = "None"
      /\ startPhase' = AfterToolExecute /\ recordTurn' = FALSE
      /\ UNCHANGED <<run, cancelled, phase, input, reply, local, agent, log, queues, aborter, history>>
  BY DEF ResumePhase
<1>2. cont.turn \in Nat /\ cont.calls \in Seq(1..MaxCalls) /\ cont.pending \in SUBSET ApprovalIds
  BY DEF TypeOK, Conts
<1>3. /\ turn' \in Nat /\ calls' \in Seq(1..MaxCalls) /\ decision' \in {"None", "Stop", "Continue"}
      /\ startPhase' \in {1, AfterToolExecute} /\ recordTurn' \in BOOLEAN
  BY <1>1, <1>2
<1>4. Works => TypeOK'
  <2> SUFFICES ASSUME Works PROVE TypeOK'
    OBVIOUS
  <2>1. /\ pc' \in Working \cup {"error"} /\ todo' \in Seq(Events)
        /\ ok' \in BOOLEAN /\ cause' \in {"none", "aborted", "failed"} \cup Broken
    BY DEF Works, TypeOK
  <2> QED BY <1>1, <1>3, <2>1 DEF Working, TypeOK, log, queues, history
<1>5. CASE /\ todo' = Append(ResumedResults, Event("PhaseCompleted"))
           /\ pc' = "loop" /\ UNCHANGED <<ok, cause>>
  <2>1. /\ Results(cont.calls) \in Seq(Events)
        /\ \A i \in 1..Len(Results(cont.calls)) : Results(cont.calls)[i].kind \in Plain
    BY <1>2, ResultsType DEF TypeOK
  <2>2. todo' \in Seq(Events) /\ \A i \in 1..Len(todo') : todo'[i].kind \in Plain
    <3>1. "PhaseCompleted" \in MarkerKinds
      BY DEF MarkerKinds
    <3> QED BY <1>5, <2>1, <3>1, MarkedType DEF ResumedResults
  <2>3. Works
    BY <1>1, <1>5, <2>2 DEF Works, Working, log
  <2> QED BY <1>4, <2>3
<1>6. ASSUME NEW again \in SUBSET cont.pending \ {{}}, NEW hook \in [again -> 1..NHooks],
             PauseFor(cont.turn, cont.calls, {<<id[1], hook[id]>> : id \in again})
      PROVE  Pauses /\ TypeOK'
  <2> DEFINE pending == {<<id[1], hook[id]>> : id \in again}
  <2>1. \A id \in again : id[1] \in 1..MaxCalls /\ hook[id] \in 1..NHooks
    BY <1>2 DEF ApprovalIds
  <2>2. pending \in SUBSET ApprovalIds
    BY <2>1 DEF ApprovalIds
  <2>3. PauseFor(cont.turn, cont.calls, pending)
    BY <1>6
  <2> HIDE DEF pending
  <2>4. Pauses
    BY <1>1, <1>2, <2>2, <2>3, PauseType
  <2>5. UNCHANGED <<phase, input, reply, steering, followUp, held, obsCommitted, sent, queuedLog,
                    dropped, nextCall, asked>>
    BY <1>1 DEF queues, history
  <2> QED BY <1>3, <2>4, <2>5, PauseTypes
<1>7. ASSUME NEW why \in ProviderErrors, todo' = <<Event("PhaseFailed")>>, Fail(why)
      PROVE  Works /\ TypeOK'
  <2>1. Event("PhaseFailed") \in Events /\ Event("PhaseFailed").kind \in Plain
    BY DEF Event, Events, Plain, MarkerKinds
  <2>2. todo' \in Seq(Events) /\ \A i \in 1..Len(todo') : todo'[i].kind \in Plain
    BY <1>7, <2>1, OneEvent
  <2>3. Works
    BY <1>1, <1>7, <2>2, FailedType DEF Fail, Works, log
  <2> QED BY <1>4, <2>3
<1> QED BY <1>5, <1>6, <1>7 DEF ResumePhase

-----------------------------------------------------------------------------
(* The invariant after the steps above.                                    *)
LEMMA NoneAsked == ASSUME todo = <<>>, NEW kind PROVE Ids(todo, kind) = {}
<1>1. Len(todo) = 0
  BY EmptySeq
<1> QED BY <1>1 DEF Ids

LEMMA WorksOn == ASSUME IInv, Works, TypeOK' PROVE IInv'
<1>1. /\ Quiet /\ pc \in Working \cup {"begin", "resuming"} /\ pc' \in Working \cup {"error"}
      /\ UNCHANGED <<run, local, agent, stored, replayable, cont, raced, whole, aborter>>
      /\ \/ pc' \in Working /\ ok' = ok /\ cause' = cause
         \/ pc' = "error" /\ ok' = FALSE /\ cause' \in {"aborted", "failed"}
  BY DEF Works
<1>2. Started /\ Started' /\ ~Idle /\ ~Idle' /\ (Logged' <=> Logged)
  BY <1>1 DEF Started, Working, Idle, Logged
<1>3. Shapes'
  BY <1>1 DEF Works, Working, Shapes, Plain
<1>4. Numbers'
  BY <1>1, <1>2 DEF IInv, Numbers
<1>5. Agrees'
  BY <1>1, <1>2 DEF IInv, Agrees, Shows, Working
<1>6. Logged => stored.pending = {} /\ stored.status # "Paused"
  BY <1>1, <1>2, NoneAsked DEF IInv, Pendings, Working, Quiet
<1>7. Pendings'
  BY <1>1, <1>2, <1>6 DEF Pendings, Working
<1>8. Ends'
  BY <1>1, <1>2 DEF IInv, Ends, Working
<1> QED BY <1>3, <1>4, <1>5, <1>7, <1>8 DEF IInv

LEMMA PausesOn == ASSUME IInv, Pauses, TypeOK' PROVE IInv'
<1>1. /\ Quiet /\ pc \in {"phase", "resuming"} /\ pc' = "paused"
      /\ UNCHANGED <<ok, cause, run, local, agent, stored, replayable, cont, raced, whole, aborter>>
  BY DEF Pauses
<1>2. Started /\ Started' /\ ~Idle /\ ~Idle' /\ (Logged' <=> Logged)
  BY <1>1 DEF Started, Idle, Logged
<1>3. PICK c \in Conts : PausesFor(c)
  BY DEF Pauses
<1>4. /\ ~Quiet' /\ todo'[Len(todo')] = RunPaused(c)
      /\ \A i \in 1..Len(todo') : todo'[i].kind = IF i = Len(todo') THEN "RunPaused"
                                                  ELSE "ToolApprovalRequested"
      /\ Ids(todo', "ToolApprovalRequested") = c.pending
  <2>1. Len(todo') \in Nat /\ Len(todo') # 0
    BY <1>3, LenProperties, EmptySeq DEF PausesFor
  <2> QED BY <1>3, <2>1 DEF PausesFor, RunPaused, Quiet
<1>5. Shapes'
  BY <1>1, <1>4 DEF Shapes
<1>6. Numbers'
  BY <1>1, <1>2 DEF IInv, Numbers
<1>7. Agrees'
  BY <1>1, <1>2 DEF IInv, Agrees, Shows
<1>8. Logged => stored.pending = {} /\ stored.status # "Paused"
  BY <1>1, <1>2, NoneAsked DEF IInv, Pendings, Quiet
<1>9. Pendings'
  <2>1. Logged' => stored'.pending \cup Ids(todo', "ToolApprovalRequested") = todo'[Len(todo')].cont.pending
                       /\ stored'.status # "Paused"
    BY <1>1, <1>2, <1>4, <1>8 DEF RunPaused
  <2> QED BY <1>1, <1>2, <1>4, <2>1 DEF Pendings, Ids
<1>10. Ends'
  BY <1>1, <1>2, <1>4 DEF IInv, Ends
<1> QED BY <1>5, <1>6, <1>7, <1>9, <1>10 DEF IInv

(* A completed run, ...                                                    *)
LEMMA CompleteRunStep == ASSUME IInv, CompleteRun PROVE IInv'
<1>1. /\ pc = "follow" /\ Quiet /\ todo' = <<Event("RunCompleted")>> /\ pc' = "ending"
      /\ UNCHANGED <<ok, cause, run, cancelled, cursor, local, agent, log, queues, aborter, history>>
  BY DEF CompleteRun
<1>2. UNCHANGED <<stored, replayable, cont, raced, whole>>
  BY <1>1 DEF log
<1>3. Event("RunCompleted") \in Events /\ "RunCompleted" \in EndKinds
  BY DEF Event, Events, EndKinds
<1>4. todo' \in Seq(Events) /\ ~Quiet'
  <2>1. todo' \in Seq(Events) /\ todo' # <<>>
    BY <1>1, <1>3, OneEvent
  <2> QED BY <2>1 DEF Quiet
<1>5. TypeOK'
  BY <1>1, <1>2, <1>4 DEF IInv, TypeOK, cursor, queues, history
<1>6. Started /\ Started' /\ ~Idle /\ ~Idle' /\ (Logged' <=> Logged)
  BY <1>1, <1>2 DEF Started, Idle, Logged
<1>7. Shapes'
  BY <1>1, <1>3 DEF Shapes
<1>8. Numbers'
  BY <1>1, <1>2, <1>6 DEF IInv, Numbers
<1>9. Agrees'
  BY <1>1, <1>2, <1>6 DEF IInv, Agrees, Shows
<1>10. Pendings'
  BY <1>1, <1>2, <1>6 DEF IInv, Pendings
<1>11. Ends'
  BY <1>1, <1>4, <1>6 DEF IInv, Ends
<1> QED BY <1>5, <1>7, <1>8, <1>9, <1>10, <1>11 DEF IInv

(* ... an error, ...                                                       *)
LEMMA RecordRunErrorStep == ASSUME IInv, RecordRunError PROVE IInv'
<1>1. /\ pc = "error" /\ Quiet
      /\ UNCHANGED <<ok, cause, run, cancelled, cursor, agent, queues, aborter, history>>
  BY DEF RecordRunError
<1>2. Started /\ ~Idle
  BY <1>1 DEF Started, Idle
<1>3. ~ok /\ cause # "none"
  BY <1>1 DEF IInv, Ends
<1>4. CASE ~Silent(cause)
  <2> DEFINE kind == IF cause = "aborted" THEN "RunAborted" ELSE "RunFailed"
  <2>1. cause # "sink" /\ todo' = <<Event(kind)>> /\ pc' = "ending" /\ UNCHANGED <<local, log>>
    BY <1>4 DEF RecordRunError, Silent
  <2>2. kind \in EndKinds /\ Event(kind) \in Events
    BY DEF Event, Events, EndKinds
  <2> HIDE DEF kind
  <2>3. todo' \in Seq(Events) /\ ~Quiet'
    <3>1. todo' \in Seq(Events) /\ todo' # <<>>
      BY <2>1, <2>2, OneEvent
    <3> QED BY <3>1 DEF Quiet
  <2>4. UNCHANGED <<stored, replayable, cont, raced, whole>>
    BY <2>1 DEF log
  <2>5. TypeOK'
    BY <1>1, <2>1, <2>3, <2>4 DEF IInv, TypeOK, cursor, queues, history
  <2>6. Started' /\ ~Idle' /\ (Logged' <=> Logged)
    BY <2>1, <2>4 DEF Started, Idle, Logged
  <2>7. Shapes'
    BY <2>1, <2>2 DEF Shapes
  <2>8. Numbers'
    BY <1>1, <1>2, <2>1, <2>4, <2>6 DEF IInv, Numbers
  <2>9. Agrees'
    BY <1>1, <1>2, <2>1, <2>4, <2>6 DEF IInv, Agrees, Shows
  <2>10. Pendings'
    BY <1>1, <1>2, <2>1, <2>3, <2>4, <2>6 DEF IInv, Pendings
  <2>11. Ends'
    BY <1>1, <1>3, <2>1, <2>3, <2>6 DEF IInv, Ends
  <2> QED BY <2>5, <2>7, <2>8, <2>9, <2>10, <2>11 DEF IInv
<1>5. CASE Silent(cause) /\ UNCHANGED <<todo, local, log>> /\ pc' = "finish"
  <2>1. UNCHANGED <<stored, replayable, cont, raced, whole>> /\ cause = "sink"
    BY <1>5 DEF log, Silent
  <2>2. TypeOK'
    BY <1>1, <1>5, <2>1 DEF IInv, TypeOK, cursor, queues, history
  <2>3. Started' /\ ~Idle' /\ (Logged' <=> Logged) /\ Quiet'
    BY <1>1, <1>5, <2>1 DEF Started, Idle, Logged, Quiet
  <2>4. Shapes'
    BY <1>5, <2>3 DEF Shapes
  <2>5. Numbers'
    BY <1>1, <1>2, <1>5, <2>1, <2>3 DEF IInv, Numbers
  <2>6. Agrees'
    BY <1>1, <1>2, <1>5, <2>1, <2>3 DEF IInv, Agrees, Shows
  <2>7. Pendings'
    BY <1>1, <1>2, <1>5, <2>1, <2>3 DEF IInv, Pendings
  <2>8. Ends'
    BY <1>1, <1>3, <1>5, <2>1, <2>3 DEF Ends, Broken
  <2> QED BY <2>2, <2>4, <2>5, <2>6, <2>7, <2>8 DEF IInv
<1>6. CASE /\ Silent(cause) /\ pc' = "finish"
           /\ stored' = IF replayable THEN ApplyEvent(stored, Event("RunFailed")) ELSE stored
           /\ local' = ApplyEvent(local, Event("RunFailed"))
           /\ UNCHANGED <<todo, replayable, cont, raced, whole>>
  <2> DEFINE e == Event("RunFailed")
  <2>1. /\ cause = "sink" /\ stored' = IF replayable THEN ApplyEvent(stored, e) ELSE stored
        /\ local' = ApplyEvent(local, e) /\ pc' = "finish"
        /\ UNCHANGED <<todo, replayable, cont, raced, whole>>
    BY <1>6 DEF Silent
  <2>2. e \in Events /\ e.kind = "RunFailed"
    BY DEF Event, Events, EndKinds
  <2> HIDE DEF e
  <2>3. ASSUME NEW s \in States
        PROVE  /\ ApplyEvent(s, e) \in States /\ ApplyEvent(s, e).run = s.run
               /\ ApplyEvent(s, e).status = "Failed" /\ ApplyEvent(s, e).pending = {}
    BY <2>2, Applied DEF StatusAfter, PendingAfter, EndKinds
  <2>4. /\ stored' \in States /\ stored'.run = stored.run
        /\ replayable => stored'.status = "Failed" /\ stored'.pending = {}
        /\ local' \in States /\ local'.run = local.run /\ local'.status = "Failed" /\ local'.pending = {}
    BY <2>1, <2>3 DEF IInv, TypeOK
  <2>5. TypeOK'
    BY <1>1, <2>1, <2>4 DEF IInv, TypeOK, cursor, queues, history
  <2>6. Started' /\ ~Idle' /\ (Logged' <=> Logged) /\ (Quiet' <=> Quiet)
    BY <2>1 DEF Started, Idle, Logged, Quiet
  <2>7. Shapes'
    BY <1>1, <2>1, <2>6 DEF Shapes
  <2>8. Numbers'
    BY <1>1, <1>2, <2>1, <2>4, <2>6 DEF IInv, Numbers
  <2>9. Agrees'
    BY <1>1, <2>1, <2>4, <2>6 DEF Agrees, Shows, Logged
  <2>10. Pendings'
    BY <2>1, <2>4, <2>6 DEF Pendings, Logged
  <2>11. Ends'
    BY <1>1, <1>3, <2>1, <2>6 DEF Ends, Broken
  <2> QED BY <2>5, <2>7, <2>8, <2>9, <2>10, <2>11 DEF IInv
<1> QED BY <1>4, <1>5, <1>6 DEF RecordRunError

(* ... and how the run's state becomes the agent's.                        *)
LEMMA FinishRunStep == ASSUME IInv, FinishRun PROVE IInv'
<1>1. /\ pc \in {"ending", "paused", "finish"} /\ Quiet /\ pc' = "idle" /\ held' = <<>>
      /\ agent' = IF ok THEN local ELSE agent
      /\ UNCHANGED <<todo, ok, cause, run, cancelled, cursor, local, log, steering, followUp,
                     obsCommitted, aborter, history>>
  BY DEF FinishRun, Reported
<1>2. UNCHANGED <<stored, replayable, cont, raced, whole>> /\ (Quiet' <=> Quiet)
  BY <1>1 DEF log, Quiet
<1>3. Started /\ Started' /\ ~Idle /\ Idle' /\ (Logged' <=> Logged) /\ run > 0
  BY <1>1, <1>2 DEF Started, Idle, Logged, IInv, Numbers
<1>4. TypeOK'
  <2>1. agent' \in States /\ held' \in Seq(MessageSet)
    BY <1>1, EmptySeq DEF IInv, TypeOK
  <2> QED BY <1>1, <1>2, <2>1 DEF IInv, TypeOK, cursor, history
<1>5. Shapes'
  BY <1>1, <1>2 DEF Shapes
<1>6. Numbers'
  <2>1. local.run = run /\ agent'.run \in {local.run, agent.run} /\ agent.run <= run
        /\ stored.run = run /\ aborter.run <= run
    BY <1>1, <1>3 DEF IInv, Numbers
  <2>2. run \in Nat /\ run # 0
    BY <1>3 DEF IInv, TypeOK
  <2> QED BY <1>1, <1>2, <1>3, <2>1, <2>2 DEF Numbers
<1>7. Agrees'
  BY <1>1, <1>2, <1>3 DEF IInv, Agrees, Shows
<1>8. Pendings'
  <2>1. ASSUME Logged
        PROVE  /\ stored.status = "Paused" => stored.pending \subseteq cont.pending
               /\ stored.status = "Paused" /\ cause \notin Broken => stored.pending = cont.pending
    <3>1. Pendings /\ Agrees /\ Ends
      BY DEF IInv
    <3>2. CASE pc = "paused"
      BY <1>1, <1>3, <2>1, <3>1, <3>2 DEF Pendings
    <3>3. CASE pc = "finish"
      BY <1>3, <2>1, <3>1, <3>3 DEF Pendings, Ends
    <3>4. CASE pc = "ending"
      BY <1>1, <1>3, <2>1, <3>1, <3>4 DEF Pendings, Agrees, Shows, Ends, Terminal
    <3> QED BY <1>1, <3>2, <3>3, <3>4
  <2> QED BY <1>1, <1>2, <1>3, <2>1 DEF Pendings
<1>9. Ends'
  <2>1. Ends /\ Numbers
    BY DEF IInv
  <2>2. cause \notin Broken => agent'.status # "Running" /\ (agent'.status = "Paused" => agent'.run = run)
    BY <1>1, <1>3, <2>1 DEF Ends, Numbers, Terminal
  <2> QED BY <1>1, <1>3, <2>1, <2>2 DEF Ends
<1> QED BY <1>4, <1>5, <1>6, <1>7, <1>8, <1>9 DEF IInv

-----------------------------------------------------------------------------
(* A new run.                                                              *)
LEMMA StartRunStep ==
  ASSUME IInv, NEW message \in MessageSet, StartRun(message)
  PROVE  IInv'
<1>1. /\ Idle /\ run < MaxRuns /\ run' = run + 1
      /\ pc' = "begin" /\ ok' = TRUE /\ cause' = "none" /\ cancelled' = FALSE
      /\ local' = agent
      /\ stored' = DefaultState /\ replayable' = TRUE /\ cont' = NoCont /\ raced' = FALSE
      /\ whole' = Paired(agent.msgs) /\ todo' = <<RunStarted(run + 1)>>
      /\ turn' = 1 /\ startPhase' = 1 /\ recordTurn' = TRUE /\ phase' = 1
      /\ input' = message /\ reply' = <<>> /\ calls' = <<>> /\ decision' = "None"
      /\ asked' = FALSE
      /\ UNCHANGED <<agent, queues, aborter, sent, queuedLog, nextCall,
                     dropped>>
  BY DEF StartRun
<1>2. run \in Nat /\ MaxRuns \in Nat /\ run + 1 \in 0..MaxRuns
  <2>1. run \in 0..MaxRuns /\ MaxRuns \in Nat
    BY LoopAssumption DEF IInv, TypeOK
  <2> QED BY <1>1, <2>1
<1>3. RunStarted(run + 1) \in Events
  BY <1>2 DEF RunStarted, Events
<1>4. todo' \in Seq(Events) /\ ~Quiet'
  <2>1. todo' \in Seq(Events) /\ todo' # <<>>
    BY <1>1, <1>3, OneEvent
  <2> QED BY <2>1 DEF Quiet
<1>5. TypeOK'
  <2>1. phase' \in 1..(Len(Phases) + 1)
    BY <1>1, PhaseCount
  <2>2. turn' \in Nat /\ reply' \in Seq(1..MaxCalls) /\ calls' \in Seq(1..MaxCalls)
    BY <1>1, NoneType
  <2>3. ok' \in BOOLEAN /\ cancelled' \in BOOLEAN /\ replayable' \in BOOLEAN /\ raced' \in BOOLEAN
        /\ recordTurn' \in BOOLEAN /\ asked' \in BOOLEAN
    BY <1>1
  <2>5. whole' \in BOOLEAN
    BY <1>1 DEF Paired
  <2>4. stored' \in States /\ cont' \in Conts /\ local' \in States
    BY <1>1, DefaultType DEF IInv, TypeOK
  <2> QED BY <1>1, <1>2, <1>4, <2>1, <2>2, <2>3, <2>4, <2>5 DEF IInv, TypeOK, queues
<1>6. ~Started' /\ ~Idle'
  BY <1>1, <1>4 DEF Started, Idle
<1>7. Shapes'
  BY <1>1, <1>4 DEF Shapes
<1>8. Numbers'
  <2>1. agent.run \in Nat /\ aborter.run \in Nat /\ agent.run <= run /\ aborter.run <= run
        /\ (run = 0 => agent.pending = {} /\ agent.status # "Paused")
    BY DEF IInv, Numbers, TypeOK, States
  <2> QED BY <1>1, <1>2, <1>6, <2>1 DEF Numbers
<1>9. Agrees' /\ Pendings'
  BY <1>6 DEF Agrees, Pendings
<1>10. Ends'
  BY <1>1, <1>6 DEF Ends
<1> QED BY <1>5, <1>7, <1>8, <1>9, <1>10 DEF IInv

LEMMA PromptStep == ASSUME IInv, Prompt PROVE IInv'
<1>1. run + 1 \in 0..MaxRuns
  BY SMTT(60), LoopAssumption DEF Prompt, StartRun, IInv, TypeOK
<1>2. Message("prompt", run + 1, 1, <<>>) \in MessageSet
  BY <1>1, MessageType, NoneType DEF MessageKinds
<1> QED BY <1>2, StartRunStep DEF Prompt

LEMMA ContinueRunStep == ASSUME IInv, ContinueRun PROVE IInv'
BY NoneType, StartRunStep DEF ContinueRun

(* A resume of the paused run.                                             *)
LEMMA ResumeRunStep == ASSUME IInv, ResumeRun PROVE IInv'
<1> DEFINE S == {[kind |-> "ToolApprovalResolved", id |-> id] : id \in cont.pending}
           last == Event("RunResumed")
           events == Append(SetToSeq(S), last)
<1>1. /\ Idle /\ stored.status = "Paused" /\ replayable
      /\ pc' = "resuming" /\ ok' = TRUE /\ cause' = "none" /\ cancelled' = FALSE
      /\ local' = stored /\ todo' = events
      /\ whole' = TRUE
      /\ UNCHANGED <<run, cursor, agent, stored, replayable, cont, raced, queues, aborter, history>>
  BY DEF ResumeRun, ApprovalResolved
<1>2. cont.pending \in SUBSET ApprovalIds
  BY DEF IInv, TypeOK, Conts
<1>3. last \in Events /\ last.kind = "RunResumed"
  BY DEF Event, Events
<1>4. /\ events \in Seq(Events) /\ events # <<>>
      /\ \A i \in 1..Len(events) : IF i = Len(events) THEN events[i] = last
                                   ELSE events[i].kind = "ToolApprovalResolved"
      /\ Ids(events, "ToolApprovalResolved") = cont.pending
  BY <1>2, <1>3, IdEvents
<1> HIDE DEF events, last
<1>5. UNCHANGED <<stored, replayable, cont, raced>> /\ ~Quiet'
  BY <1>1, <1>4 DEF Quiet
<1>6. Started /\ Started' /\ ~Idle' /\ (Logged' <=> Logged) /\ run > 0 /\ stored.run = run
  BY <1>1, <1>5 DEF Started, Idle, Logged, IInv, Numbers, TypeOK
<1>7. TypeOK'
  <2>1. ok' \in BOOLEAN /\ cancelled' \in BOOLEAN /\ whole' \in BOOLEAN /\ todo' \in Seq(Events)
    BY <1>1, <1>4
  <2> QED BY <1>1, <1>5, <2>1 DEF IInv, TypeOK, cursor, queues, history
<1>8. Shapes'
  BY <1>1, <1>3, <1>4 DEF Shapes
<1>9. Numbers'
  BY <1>1, <1>5, <1>6 DEF IInv, Numbers
<1>10. Agrees'
  BY <1>1, <1>5, <1>6 DEF IInv, Agrees, Shows
<1>11. Pendings'
  <2>1. Logged => stored.pending \subseteq cont.pending
    BY <1>1, <1>6 DEF IInv, Pendings, Idle
  <2>2. Ids(todo, "ToolApprovalResolved")' = cont.pending
    BY <1>1, <1>4 DEF Ids
  <2> QED BY <1>1, <1>5, <1>6, <2>1, <2>2 DEF Pendings
<1>12. Ends'
  BY <1>1, <1>6 DEF Ends
<1> QED BY <1>7, <1>8, <1>9, <1>10, <1>11, <1>12 DEF IInv

(* Calls that leave the run and what is known of it alone.                 *)
LEMMA CallersKeep ==
  ASSUME IInv, UNCHANGED <<pc, todo, ok, cause, run, local, agent, stored, replayable, cont, raced>>,
         TypeOK', aborter'.run <= run, ~Started => aborter'.run < run
  PROVE  IInv'
<1>1. (Started' <=> Started) /\ (Idle' <=> Idle) /\ (Logged' <=> Logged) /\ (Quiet' <=> Quiet)
  BY DEF Started, Idle, Logged, Quiet
<1>2. Shapes'
  BY <1>1 DEF IInv, Shapes
<1>3. Numbers'
  BY <1>1 DEF IInv, Numbers
<1>4. Agrees'
  BY <1>1 DEF IInv, Agrees, Shows
<1>5. Pendings'
  BY <1>1 DEF IInv, Pendings, Ids
<1>6. Ends'
  BY <1>1 DEF IInv, Ends
<1> QED BY <1>2, <1>3, <1>4, <1>5, <1>6 DEF IInv

LEMMA AbortActiveStep == ASSUME IInv, AbortActive PROVE IInv'
<1>1. /\ cancelled' = TRUE
      /\ UNCHANGED <<pc, todo, ok, cause, run, cursor, local, agent, log, queues, aborter, history>>
  BY DEF AbortActive
<1>2. cancelled' \in BOOLEAN
  BY <1>1
<1>3. TypeOK'
  BY <1>1, <1>2 DEF IInv, TypeOK, cursor, log, queues, history
<1> QED BY <1>1, <1>3, CallersKeep DEF IInv, Numbers, log

LEMMA EnqueueStep ==
  ASSUME IInv, NEW m \in MessageSet, sent' = Append(sent, m),
         steering' \in {steering, Append(steering, m)}, followUp' \in {followUp, Append(followUp, m)},
         UNCHANGED <<control, cursor, local, agent, log, held, obsCommitted, aborter, asked,
                     queuedLog, nextCall, dropped>>
  PROVE  IInv'
<1>1. sent' \in Seq(MessageSet) /\ steering' \in Seq(MessageSet) /\ followUp' \in Seq(MessageSet)
  <2>1. sent \in Seq(MessageSet) /\ steering \in Seq(MessageSet) /\ followUp \in Seq(MessageSet)
    BY DEF IInv, TypeOK
  <2>2. \A q \in Seq(MessageSet) : Append(q, m) \in Seq(MessageSet)
    BY AppendProperties
  <2> QED BY <2>1, <2>2
<1>2. TypeOK'
  BY <1>1 DEF IInv, TypeOK, control, cursor, log
<1> QED BY <1>2, CallersKeep DEF IInv, Numbers, control, log

LEMMA QueuedType ==
  ASSUME IInv, NEW kind \in QueuedKinds
  PROVE  Message(kind, 0, Len(sent) + 1, <<>>) \in MessageSet
<1>1. 0 \in 0..MaxRuns /\ Len(sent) + 1 \in Nat
  BY LoopAssumption, LenProperties DEF IInv, TypeOK
<1> QED BY <1>1, MessageType, NoneType DEF MessageKinds

LEMMA QueuesStep == ASSUME IInv, Steer \/ SteerUserInput \/ FollowUp PROVE IInv'
<1>1. CASE Steer
  BY <1>1, QueuedType, EnqueueStep DEF Steer, Enqueue, QueuedKinds
<1>2. CASE SteerUserInput
  BY <1>2, QueuedType, EnqueueStep DEF SteerUserInput, Enqueue, QueuedKinds
<1>3. CASE FollowUp
  BY <1>3, QueuedType, EnqueueStep DEF FollowUp, Enqueue, QueuedKinds
<1> QED BY <1>1, <1>2, <1>3

(* An abort of a paused run, ...                                           *)
LEMMA IdleStarted == Idle => Started
BY DEF Idle, Started

LEMMA RunBegun == ASSUME IInv, ~Started PROVE run > 0 /\ 0 < run
BY IdleStarted DEF IInv, Numbers, TypeOK

LEMMA NoAborterStep ==
  ASSUME IInv, UNCHANGED <<control, cursor, local, agent, log, queues, history>>,
         aborter' = NoAborter
  PROVE  IInv'
<1>1. /\ aborter' \in [st : {"none", "called", "loaded"}, run : 0..MaxRuns, replayable : BOOLEAN]
      /\ aborter'.run = 0
  BY LoopAssumption DEF NoAborter
<1>2. TypeOK'
  BY <1>1 DEF IInv, TypeOK, control, cursor, log, queues, history
<1> QED BY <1>1, <1>2, RunBegun, CallersKeep DEF control, log, IInv, TypeOK

LEMMA AbortPausedStep == ASSUME IInv, AbortPaused PROVE IInv'
<1>1. /\ aborter' = [st |-> "called", run |-> run, replayable |-> replayable]
      /\ Idle /\ UNCHANGED <<control, cursor, local, agent, log, queues, history>>
  BY DEF AbortPaused
<1>2. /\ aborter' \in [st : {"none", "called", "loaded"}, run : 0..MaxRuns, replayable : BOOLEAN]
      /\ aborter'.run = run
  BY <1>1 DEF IInv, TypeOK
<1>3. TypeOK'
  BY <1>1, <1>2 DEF IInv, TypeOK, control, cursor, log, queues, history
<1> QED BY <1>1, <1>2, <1>3, IdleStarted, CallersKeep DEF control, log, IInv, TypeOK

LEMMA AbortLoadStep == ASSUME IInv, AbortLoad PROVE IInv'
<1>1. UNCHANGED <<control, cursor, local, agent, log, queues, history>>
  BY DEF AbortLoad
<1>2. CASE aborter' = NoAborter
  BY <1>1, <1>2, NoAborterStep
<1>3. CASE aborter' = [aborter EXCEPT !.st = "loaded"]
  <2>1. /\ aborter' \in [st : {"none", "called", "loaded"}, run : 0..MaxRuns, replayable : BOOLEAN]
        /\ aborter'.run = aborter.run
    BY <1>3 DEF IInv, TypeOK
  <2>2. TypeOK'
    BY <1>1, <2>1 DEF IInv, TypeOK, control, cursor, log, queues, history
  <2> QED BY <1>1, <2>1, <2>2, CallersKeep DEF control, log, IInv, Numbers
<1> QED BY <1>2, <1>3 DEF AbortLoad

LEMMA AbortFailsStep == ASSUME IInv, AbortFails PROVE IInv'
BY NoAborterStep DEF AbortFails

(* ... which the run's log and the agent are told of.                      *)
LEMMA AbortRecordStep == ASSUME IInv, AbortRecord PROVE IInv'
<1> DEFINE e == Event("RunAborted")
<1>1. /\ stored' = IF aborter.run = run /\ replayable THEN ApplyEvent(stored, e) ELSE stored
      /\ agent' = ApplyEvent(agent, e)
      /\ raced' = (raced \/ ~Idle \/ aborter.run # run)
      /\ aborter' = NoAborter
      /\ UNCHANGED <<control, cursor, local, replayable, cont, whole, queues, history>>
  BY DEF AbortRecord
<1>2. e \in Events /\ e.kind = "RunAborted"
  BY DEF Event, Events, EndKinds
<1> HIDE DEF e
<1>3. ASSUME NEW s \in States
      PROVE  /\ ApplyEvent(s, e) \in States /\ ApplyEvent(s, e).run = s.run
             /\ ApplyEvent(s, e).status = "Aborted" /\ ApplyEvent(s, e).pending = {}
  BY <1>2, Applied DEF StatusAfter, PendingAfter, EndKinds
<1>4. /\ agent' \in States /\ agent'.run = agent.run /\ agent'.status = "Aborted" /\ agent'.pending = {}
      /\ stored' \in States /\ stored'.run = stored.run
      /\ IF aborter.run = run /\ replayable THEN stored'.status = "Aborted" /\ stored'.pending = {}
         ELSE stored' = stored
  BY <1>1, <1>3 DEF IInv, TypeOK
<1>5. /\ aborter' \in [st : {"none", "called", "loaded"}, run : 0..MaxRuns, replayable : BOOLEAN]
      /\ aborter'.run = 0
  BY <1>1, LoopAssumption DEF NoAborter
<1>6. UNCHANGED <<pc, todo, ok, cause, run, cancelled>> /\ raced' \in BOOLEAN
  BY <1>1 DEF control
<1>7. TypeOK'
  BY <1>1, <1>4, <1>5, <1>6 DEF IInv, TypeOK, cursor, queues, history
<1>8. /\ (Started' <=> Started) /\ (Idle' <=> Idle) /\ (Quiet' <=> Quiet)
      /\ Logged' => Logged /\ Idle /\ Started /\ aborter.run = run /\ replayable
  BY <1>1, <1>6, IdleStarted DEF Started, Idle, Logged, Quiet
<1>9. Shapes'
  BY <1>6, <1>8 DEF IInv, Shapes
<1>10. Numbers'
  <2>1. ~Started => stored' = stored
    BY <1>4 DEF IInv, Numbers, TypeOK
  <2> QED BY <1>1, <1>4, <1>5, <1>6, <1>8, <2>1, RunBegun DEF IInv, Numbers, TypeOK
<1>11. Agrees'
  BY <1>4, <1>6, <1>8 DEF Agrees, Shows
<1>12. Pendings'
  BY <1>4, <1>6, <1>8 DEF Pendings, Idle
<1>13. Ends'
  BY <1>1, <1>4, <1>6, <1>8 DEF IInv, Ends
<1> QED BY <1>7, <1>9, <1>10, <1>11, <1>12, <1>13 DEF IInv

LEMMA ResetStep == ASSUME IInv, Reset PROVE IInv'
<1>1. /\ agent' = DefaultState /\ steering' = <<>> /\ followUp' = <<>>
      /\ UNCHANGED <<control, cursor, local, log, held, obsCommitted, aborter, asked, sent,
                     queuedLog, nextCall>>
      /\ dropped' = TRUE
  BY DEF Reset
<1>2. agent' \in States /\ agent'.run = 0 /\ agent'.status = "Idle" /\ agent'.pending = {}
  BY <1>1, DefaultType DEF DefaultState
<1>3. steering' \in Seq(MessageSet) /\ followUp' \in Seq(MessageSet)
  BY <1>1, EmptySeq
<1>4. UNCHANGED <<pc, todo, ok, cause, run, cancelled, stored, replayable, cont, raced, whole>>
  BY <1>1 DEF control, log
<1>5. TypeOK'
  BY <1>1, <1>2, <1>3, <1>4 DEF IInv, TypeOK, cursor
<1>6. (Started' <=> Started) /\ (Idle' <=> Idle) /\ (Logged' <=> Logged) /\ (Quiet' <=> Quiet)
  BY <1>4 DEF Started, Idle, Logged, Quiet
<1>7. Shapes'
  BY <1>4, <1>6 DEF IInv, Shapes
<1>8. Numbers'
  BY <1>1, <1>2, <1>4, <1>6, RunBegun DEF IInv, Numbers, TypeOK
<1>9. Agrees'
  BY <1>1, <1>2, <1>4, <1>6 DEF IInv, Agrees, Shows
<1>10. Pendings'
  BY <1>4, <1>6 DEF IInv, Pendings, Ids
<1>11. Ends'
  BY <1>1, <1>2, <1>4, <1>6 DEF IInv, Ends
<1> QED BY <1>5, <1>7, <1>8, <1>9, <1>10, <1>11 DEF IInv

-----------------------------------------------------------------------------
(* What is left to record of a list of events.                             *)
LEMMA TailType ==
  ASSUME NEW events \in Seq(Events), events # <<>>
  PROVE  /\ Head(events) = events[1] /\ Head(events) \in Events
         /\ Len(events) \in Nat \ {0}
         /\ Tail(events) \in Seq(Events) /\ Len(Tail(events)) = Len(events) - 1
         /\ \A i \in 1..Len(Tail(events)) : Tail(events)[i] = events[i + 1]
<1>1. Len(events) \in Nat \ {0}
  BY EmptySeq, LenProperties
<1> QED BY <1>1, HeadTailProperties

LEMMA TailQuiet ==
  ASSUME NEW events \in Seq(Events), events # <<>>
  PROVE  Tail(events) = <<>> <=> Len(events) = 1
<1>1. Tail(events) \in Seq(Events) /\ Len(Tail(events)) = Len(events) - 1 /\ Len(events) \in Nat
  BY TailType
<1>2. Tail(events) = <<>> <=> Len(Tail(events)) = 0
  BY <1>1, EmptySeq
<1> QED BY <1>1, <1>2

(* A listener fails on an event, or on its proposal.                       *)
FailsTo == /\ todo' = <<>> /\ ok' = FALSE /\ cause' = "sink"
           /\ pc' = IF pc \in {"begin", "beginSteer", "resuming", "ending"} THEN "finish" ELSE "error"

LEMMA ProposalFailsStep == ASSUME IInv, ProposalFails PROVE IInv'
<1>1. /\ FailsTo /\ ~Quiet /\ Head(todo).kind \in Effects
      /\ UNCHANGED <<run, cancelled, cursor, local, agent, log, queues, aborter, asked, sent,
                     queuedLog, nextCall>>
      /\ dropped' = TRUE
  BY DEF ProposalFails, SinkFailure, FailsTo, Unguarded
<1>2. pc \in {"beginSteer", "loop", "phase", "steer", "prepend", "follow", "error"}
  <2>1. todo \in Seq(Events) /\ todo # <<>> /\ Shapes
    BY <1>1 DEF IInv, TypeOK, Quiet
  <2>2. Head(todo) = todo[1] /\ 1 \in 1..Len(todo) /\ todo[1].kind \in Effects
    BY <1>1, <2>1, TailType
  <2>3. pc # "begin"
    BY <1>1, <2>1, <2>2 DEF Shapes, RunStarted, Effects
  <2>4. pc # "ending"
    BY <1>1, <2>1, <2>2 DEF Shapes, Event, Effects, EndKinds
  <2>5. pc \notin {"paused", "resuming", "idle", "finish"}
    BY <1>1, <2>1, <2>2 DEF Shapes, Effects
  <2> QED BY <2>3, <2>4, <2>5 DEF IInv, TypeOK
<1>3. UNCHANGED <<stored, replayable, cont, raced, whole>> /\ Quiet' /\ pc' \in {"finish", "error"}
  BY <1>1 DEF log, FailsTo, Quiet
<1>4. Started /\ Started' /\ ~Idle /\ ~Idle' /\ (Logged' <=> Logged)
  BY <1>2, <1>3 DEF Started, Idle, Logged
<1>5. TypeOK'
  <2>1. todo' \in Seq(Events) /\ ok' \in BOOLEAN /\ cause' = "sink"
    BY <1>1, NoEvents DEF FailsTo
  <2> QED BY <1>1, <1>3, <2>1 DEF IInv, TypeOK, cursor, queues, Broken
<1>6. Shapes'
  <2>1. Len(todo') = 0
    BY <1>1, EmptySeq DEF FailsTo
  <2> QED BY <1>3, <2>1 DEF Shapes
<1>7. Numbers'
  BY <1>1, <1>3, <1>4 DEF IInv, Numbers
<1>8. Agrees'
  BY <1>1, <1>2, <1>3, <1>4 DEF IInv, Agrees, Shows
<1>9. Pendings'
  <2>1. Logged /\ stored.status = "Paused" => stored.pending \subseteq cont.pending
    BY <1>2, <1>4 DEF IInv, Pendings
  <2> QED BY <1>1, <1>3, <1>4, <2>1 DEF Pendings, FailsTo, Broken
<1>10. Ends'
  BY <1>1, <1>3, <1>4 DEF Ends, FailsTo, Broken
<1> QED BY <1>5, <1>6, <1>7, <1>8, <1>9, <1>10 DEF IInv

(* The store fails on any event but the first.                             *)
LEMMA StoreFailsStep == ASSUME IInv, StoreFails PROVE IInv'
<1>1. /\ ~Quiet /\ pc # "begin" /\ todo' = <<>> /\ ok' = FALSE /\ cause' = "store" /\ dropped' = TRUE
      /\ pc' = IF pc \in {"begin", "beginSteer", "resuming", "ending"} THEN "finish" ELSE "error"
      /\ UNCHANGED <<run, cancelled, cursor, local, agent, log, queues, aborter, asked, sent,
                     queuedLog, nextCall>>
  BY DEF StoreFails, Unguarded
<1>2. pc \in {"beginSteer", "loop", "phase", "steer", "prepend", "follow", "error", "paused",
             "resuming", "ending"}
  BY <1>1 DEF IInv, TypeOK, Shapes
<1>3. UNCHANGED <<stored, replayable, cont, raced, whole>> /\ Quiet' /\ pc' \in {"finish", "error"}
  BY <1>1 DEF log, Quiet
<1>4. Started /\ Started' /\ ~Idle /\ ~Idle' /\ (Logged' <=> Logged)
  BY <1>2, <1>3 DEF Started, Idle, Logged
<1>5. TypeOK'
  <2>1. todo' \in Seq(Events) /\ ok' \in BOOLEAN /\ cause' \in Broken
    BY <1>1, NoEvents DEF Broken
  <2> QED BY <1>1, <1>3, <2>1 DEF IInv, TypeOK, cursor, queues
<1>6. Shapes'
  <2>1. Len(todo') = 0
    BY <1>1, EmptySeq
  <2> QED BY <1>3, <2>1 DEF Shapes
<1>7. Numbers'
  BY <1>1, <1>3, <1>4 DEF IInv, Numbers
<1>8. Agrees'
  BY <1>1, <1>2, <1>3, <1>4 DEF IInv, Agrees, Shows
<1>9. Pendings'
  <2>1. Logged /\ stored.status = "Paused" => stored.pending \subseteq cont.pending
    BY <1>1, <1>2, <1>4 DEF IInv, Pendings
  <2> QED BY <1>1, <1>3, <1>4, <2>1 DEF Pendings, Broken
<1>10. Ends'
  BY <1>1, <1>3, <1>4 DEF Ends, Broken
<1> QED BY <1>5, <1>6, <1>7, <1>8, <1>9, <1>10 DEF IInv

(* What recording an event does to the states.                             *)
Becomes(s, t, e) ==
  /\ t.run = IF e.kind = "RunStarted" THEN e.run ELSE s.run
  /\ t.status = StatusAfter(s.status, e) /\ t.pending = PendingAfter(s.pending, e)

Goes(e) ==
  /\ todo' = Tail(todo) /\ UNCHANGED <<pc, ok, cause>> /\ Valid(agent, e)

LEMMA RecordEffect ==
  ASSUME IInv, Record
  PROVE  LET e == Head(todo)
         IN  /\ e \in Events /\ todo # <<>> /\ todo \in Seq(Events)
             /\ UNCHANGED <<run, cancelled, cursor, raced, whole, queues, aborter>>
             /\ TypeOK'
             /\ Becomes(local, local', e) /\ Becomes(agent, agent', e)
             /\ replayable' => replayable /\ Becomes(stored, stored', e)
             /\ e.kind # "RunStarted" => stored'.run = stored.run
             /\ e.kind = "RunStarted" => (replayable' <=> replayable)
             /\ cont' = IF e.kind = "RunPaused" THEN e.cont ELSE cont
             /\ queuedLog' = IF e.kind = "EffectCommitted" /\ e.message.kind \in QueuedKinds
                             THEN Append(queuedLog, e.message) ELSE queuedLog
             /\ sent' = sent
             /\ (Goes(e) /\ dropped' = dropped) \/ (FailsTo /\ dropped' = TRUE)
<1> DEFINE e == Head(todo)
           reducible == replayable /\ Valid(stored, e)
<1>1. /\ todo # <<>>
      /\ stored' = IF reducible THEN ApplyEvent(stored, e) ELSE stored
      /\ replayable' = reducible
      /\ local' = ApplyEvent(local, e)
      /\ agent' = IF Valid(agent, e) THEN ApplyEvent(agent, e) ELSE agent
      /\ cont' = IF e.kind = "RunPaused" THEN e.cont ELSE cont
      /\ queuedLog' = IF e.kind = "EffectCommitted" /\ e.message.kind \in QueuedKinds
                      THEN Append(queuedLog, e.message) ELSE queuedLog
      /\ UNCHANGED <<run, cancelled, cursor, raced, whole, queues, aborter, asked, sent, nextCall>>
  BY DEF Record, Quiet
<1>2. (Goes(e) /\ dropped' = dropped) \/ (FailsTo /\ dropped' = TRUE)
  BY DEF Record, SinkFailure, Unguarded, Goes, FailsTo
<1>3. e \in Events /\ todo \in Seq(Events) /\ Tail(todo) \in Seq(Events)
  BY <1>1, TailType DEF IInv, TypeOK
<1> HIDE DEF e
<1>4. local \in States /\ agent \in States /\ stored \in States /\ cont \in Conts
      /\ replayable \in BOOLEAN /\ queuedLog \in Seq(MessageSet)
  BY DEF IInv, TypeOK
<1>5. ASSUME NEW s \in States
      PROVE  /\ ApplyEvent(s, e) \in States /\ Becomes(s, ApplyEvent(s, e), e)
             /\ e.kind # "RunStarted" => ApplyEvent(s, e).run = s.run
             /\ ~Valid(s, e) => Becomes(s, s, e) /\ e.kind # "RunStarted"
  <2>1. /\ ApplyEvent(s, e) \in States
        /\ ApplyEvent(s, e).run = IF e.kind = "RunStarted" THEN e.run ELSE s.run
        /\ ApplyEvent(s, e).status = StatusAfter(s.status, e)
        /\ ApplyEvent(s, e).pending = PendingAfter(s.pending, e)
    BY <1>3, Applied
  <2>2. CASE ~Valid(s, e)
    <3>1. e.kind = "MessagesCompacted"
      BY <2>2 DEF Valid
    <3> QED BY <2>1, <3>1 DEF Becomes, StatusAfter, PendingAfter, EndKinds
  <2> QED BY <2>1, <2>2 DEF Becomes
<1>6. Becomes(local, local', e) /\ Becomes(agent, agent', e) /\ local' \in States /\ agent' \in States
  BY <1>1, <1>4, <1>5
<1>7. /\ replayable' => replayable /\ Becomes(stored, stored', e)
      /\ e.kind # "RunStarted" => stored'.run = stored.run
      /\ e.kind = "RunStarted" => (replayable' <=> replayable)
      /\ stored' \in States
  BY <1>1, <1>4, <1>5
<1>8. TypeOK'
  <2>1. cont' \in Conts
    <3>1. e.kind = "RunPaused" => e.cont \in Conts
      BY <1>3 DEF Events, MarkerKinds, EndKinds
    <3> QED BY <1>1, <1>4, <3>1
  <2>2. queuedLog' \in Seq(MessageSet)
    <3>1. e.kind = "EffectCommitted" => e.message \in MessageSet
      BY <1>3 DEF Events, MarkerKinds, EndKinds
    <3> QED BY <1>1, <1>4, <3>1, AppendProperties
  <2>3. replayable' \in BOOLEAN /\ dropped' \in BOOLEAN
    BY <1>1, <1>2 DEF Valid, IInv, TypeOK
  <2>4. /\ todo' \in Seq(Events) /\ ok' \in BOOLEAN /\ cause' \in {"none", "aborted", "failed"} \cup Broken
        /\ pc' = pc \/ pc' \in {"finish", "error"}
    <3>1. CASE Goes(e)
      BY <1>3, <3>1 DEF Goes, IInv, TypeOK
    <3>2. CASE FailsTo
      BY <3>2, NoEvents DEF FailsTo, Broken
    <3> QED BY <1>2, <3>1, <3>2
  <2>5. /\ pc' \in {"idle", "begin", "beginSteer", "loop", "phase", "steer", "prepend",
                    "follow", "ending", "error", "paused", "finish", "resuming"}
        /\ UNCHANGED <<run, cancelled, raced, whole, turn, startPhase, recordTurn, phase, input, reply, calls,
                       decision, steering, followUp, held, obsCommitted, aborter, asked, sent, nextCall>>
    BY <1>1, <2>4 DEF IInv, TypeOK, cursor, queues
  <2>6. local' \in States /\ agent' \in States /\ stored' \in States
    BY <1>6, <1>7
  <2> QED BY <2>1, <2>2, <2>3, <2>4, <2>5, <2>6 DEF IInv, TypeOK
<1> QED BY <1>1, <1>2, <1>3, <1>6, <1>7, <1>8 DEF e

(* The event that is next, by where the driver is.                         *)
LEMMA NextEvent ==
  ASSUME IInv, todo # <<>>
  PROVE  LET e == Head(todo)
         IN  /\ pc \notin {"idle", "finish"}
             /\ pc = "begin" => e = RunStarted(run) /\ Len(todo) = 1
             /\ pc = "ending" => e.kind \in EndKinds /\ Len(todo) = 1
             /\ pc \in Working \cup {"error"} => e.kind \in Plain
             /\ pc = "paused" => e.kind = IF Len(todo) = 1 THEN "RunPaused" ELSE "ToolApprovalRequested"
             /\ pc = "resuming" => e.kind \in {"ToolApprovalResolved", "RunResumed"}
             /\ pc # "begin" => e.kind # "RunStarted"
<1> DEFINE e == Head(todo)
<1>1. todo \in Seq(Events) /\ ~Quiet /\ Shapes
  BY DEF IInv, TypeOK, Quiet
<1>2. e = todo[1] /\ 1 \in 1..Len(todo)
  BY <1>1, TailType
<1> HIDE DEF e
<1>3. pc \notin {"idle", "finish"}
  BY <1>1 DEF Shapes
<1>4. pc = "begin" => e = RunStarted(run) /\ Len(todo) = 1
  BY <1>1, <1>2 DEF Shapes
<1>5. pc = "ending" => e.kind \in EndKinds /\ Len(todo) = 1
  BY <1>1, <1>2 DEF Shapes, Event
<1>6. pc \in Working \cup {"error"} => e.kind \in Plain
  BY <1>1, <1>2 DEF Shapes, Working
<1>7. pc = "paused" => e.kind = IF Len(todo) = 1 THEN "RunPaused" ELSE "ToolApprovalRequested"
  BY <1>1, <1>2 DEF Shapes
<1>8. pc = "resuming" => e.kind \in {"ToolApprovalResolved", "RunResumed"}
  BY <1>1, <1>2 DEF Shapes
<1>9. pc # "begin" => e.kind # "RunStarted"
  <2>1. "RunStarted" \notin Plain \cup EndKinds
    BY DEF Plain, MarkerKinds, Effects, EndKinds
  <2> QED BY <1>3, <1>5, <1>6, <1>7, <1>8, <2>1 DEF IInv, TypeOK, Working
<1> QED BY <1>3, <1>4, <1>5, <1>6, <1>7, <1>8, <1>9 DEF e

LEMMA FailsWhere ==
  ASSUME FailsTo
  PROVE  /\ Quiet' /\ todo' = <<>> /\ ~ok' /\ cause' = "sink"
         /\ pc \in {"begin", "beginSteer", "resuming", "ending"} => pc' = "finish"
         /\ pc \notin {"begin", "beginSteer", "resuming", "ending"} => pc' = "error"
BY DEF FailsTo, Quiet

(* What shows the log shows it when both take an event.                    *)
Matches(log_, s) ==
  /\ log_.status = s.status /\ log_.pending \subseteq s.pending
  /\ run = 1 => log_.pending = s.pending

LEMMA MatchesOn ==
  ASSUME NEW st, NEW s, NEW st2, NEW s2, NEW e, Matches(st, s),
         Becomes(st, st2, e), Becomes(s, s2, e)
  PROVE  Matches(st2, s2)
<1>1. /\ st2.status = StatusAfter(st.status, e) /\ s2.status = StatusAfter(s.status, e)
      /\ st2.pending = PendingAfter(st.pending, e) /\ s2.pending = PendingAfter(s.pending, e)
  BY DEF Becomes
<1>2. /\ st.status = s.status /\ st.pending \subseteq s.pending
      /\ run = 1 => st.pending = s.pending
  BY DEF Matches
<1>3. PendingAfter(st.pending, e) \subseteq PendingAfter(s.pending, e)
  BY <1>2 DEF PendingAfter
<1> QED BY <1>1, <1>2, <1>3 DEF Matches

(* The event that starts the run.                                          *)
LEMMA RecordStart == ASSUME IInv, Record, pc = "begin" PROVE IInv'
<1> DEFINE e == Head(todo)
<1>1. /\ todo # <<>> /\ todo \in Seq(Events)
      /\ UNCHANGED <<run, cancelled, cursor, raced, whole, queues, aborter>>
      /\ TypeOK'
      /\ Becomes(local, local', e) /\ Becomes(agent, agent', e)
      /\ replayable' => Becomes(stored, stored', e)
      /\ e.kind = "RunStarted" => (replayable' <=> replayable)
      /\ Goes(e) \/ FailsTo
  BY RecordEffect
<1>2. e = RunStarted(run) /\ Len(todo) = 1
  BY <1>1, NextEvent
<1>3. ~Started /\ ~Idle /\ run > 0
  BY <1>1 DEF Started, Idle, Quiet, IInv, Numbers
<1>4. /\ stored = DefaultState /\ replayable /\ agent.run < run /\ aborter.run < run
      /\ run = 1 => agent.pending = {} /\ local.pending = {}
  BY <1>3 DEF IInv, Numbers
<1> HIDE DEF e
<1>5. /\ e.kind = "RunStarted" /\ e.run = run
      /\ \A s : StatusAfter(s.status, e) = "Running" /\ PendingAfter(s.pending, e) = s.pending
  BY <1>2 DEF RunStarted, StatusAfter, PendingAfter, EndKinds
<1>6. /\ stored'.run = run /\ local'.run = run /\ agent'.run = run
      /\ stored'.status = "Running" /\ local'.status = "Running" /\ agent'.status = "Running"
      /\ stored'.pending = {} /\ local'.pending = local.pending /\ agent'.pending = agent.pending
  BY <1>1, <1>4, <1>5 DEF Becomes, DefaultState
<1>7. Quiet' /\ ((pc' = "begin" /\ UNCHANGED <<ok, cause>>) \/ (pc' = "finish" /\ FailsTo))
  <2>1. CASE Goes(e)
    <3>1. todo' = Tail(todo) /\ UNCHANGED <<pc, ok, cause>>
      BY <2>1 DEF Goes
    <3>2. Tail(todo) = <<>>
      BY <1>1, <1>2, TailQuiet
    <3> QED BY <3>1, <3>2 DEF Quiet
  <2>2. CASE FailsTo
    BY <2>2, FailsWhere
  <2> QED BY <1>1, <2>1, <2>2
<1>8. Started' /\ ~Idle'
  BY <1>7 DEF Started, Idle
<1>9. Shapes'
  BY <1>7 DEF Shapes
<1>10. Numbers'
  <2>1. run' = run /\ aborter' = aborter /\ aborter.run <= run /\ run \in Nat /\ run # 0
    BY <1>1, <1>3 DEF IInv, TypeOK, Numbers
  <2> QED BY <1>6, <1>8, <2>1 DEF Numbers
<1>11. Agrees'
  BY <1>1, <1>4, <1>6 DEF Agrees, Shows
<1>12. Pendings'
  BY <1>6, <1>7, <1>8 DEF Pendings
<1>13. Ends'
  BY <1>7, <1>8 DEF IInv, Ends, FailsTo, Broken
<1> QED BY <1>1, <1>9, <1>10, <1>11, <1>12, <1>13 DEF IInv

(* Any later one: the parts that do not depend on where the driver is.     *)
LEMMA RecordOn ==
  ASSUME IInv, Record, pc # "begin"
  PROVE  LET e == Head(todo)
         IN  /\ TypeOK' /\ Numbers' /\ Agrees'
             /\ Started /\ Started' /\ ~Idle /\ ~Idle' /\ (Logged' => Logged)
             /\ Logged' => /\ stored'.pending = PendingAfter(stored.pending, e)
                           /\ stored'.status = StatusAfter(stored.status, e)
             /\ local'.status = StatusAfter(local.status, e)
             /\ agent'.status = StatusAfter(agent.status, e)
             /\ cont' = IF e.kind = "RunPaused" THEN e.cont ELSE cont
             /\ \/ Goes(e) \/ FailsTo
             /\ todo \in Seq(Events) /\ todo # <<>>
<1> DEFINE e == Head(todo)
<1>1. /\ todo # <<>> /\ todo \in Seq(Events)
      /\ UNCHANGED <<run, cancelled, cursor, raced, whole, queues, aborter>>
      /\ TypeOK'
      /\ Becomes(local, local', e) /\ Becomes(agent, agent', e)
      /\ replayable' => replayable /\ Becomes(stored, stored', e)
      /\ e.kind # "RunStarted" => stored'.run = stored.run
      /\ cont' = IF e.kind = "RunPaused" THEN e.cont ELSE cont
      /\ Goes(e) \/ FailsTo
  BY RecordEffect
<1>2. e.kind # "RunStarted" /\ pc \notin {"idle", "finish"}
  BY <1>1, NextEvent
<1> HIDE DEF e
<1>3. pc' = pc \/ pc' \in {"finish", "error"}
  BY <1>1 DEF Goes, FailsTo
<1>4. Started /\ Started' /\ ~Idle /\ ~Idle' /\ (Logged' => Logged)
  BY <1>1, <1>2, <1>3 DEF Started, Idle, Logged
<1>5. stored'.run = stored.run /\ local'.run = local.run /\ agent'.run = agent.run
  BY <1>1, <1>2 DEF Becomes
<1>6. Numbers'
  BY <1>1, <1>4, <1>5 DEF IInv, Numbers
<1>7. Agrees'
  <2> SUFFICES ASSUME Logged', run > 0
               PROVE  Matches(stored', local') /\ (agent.run = run => Matches(stored', agent'))
    BY <1>1, <1>4, <1>5 DEF Agrees, Shows, Matches
  <2>1. Matches(stored, local) /\ (agent.run = run => Matches(stored, agent))
    BY <1>2, <1>4 DEF IInv, Agrees, Shows, Matches
  <2>2. Becomes(stored, stored', e)
    BY <1>1 DEF Logged
  <2> QED BY <1>1, <2>1, <2>2, MatchesOn
<1>8. Logged' => /\ stored'.pending = PendingAfter(stored.pending, e)
                 /\ stored'.status = StatusAfter(stored.status, e)
  BY <1>1 DEF Logged, Becomes
<1> QED BY <1>1, <1>4, <1>6, <1>7, <1>8 DEF Becomes, e

(* Events of turns, phases and effects.                                    *)
LEMMA RecordPlain == ASSUME IInv, Record, pc \in Working \cup {"error"} PROVE IInv'
<1> DEFINE e == Head(todo)
<1>1. /\ TypeOK' /\ Numbers' /\ Agrees'
      /\ Started /\ Started' /\ ~Idle /\ ~Idle' /\ (Logged' => Logged)
      /\ Logged' => /\ stored'.pending = PendingAfter(stored.pending, e)
                    /\ stored'.status = StatusAfter(stored.status, e)
      /\ cont' = IF e.kind = "RunPaused" THEN e.cont ELSE cont
      /\ Goes(e) \/ FailsTo
      /\ todo \in Seq(Events) /\ todo # <<>>
  BY RecordOn DEF Working
<1>2. e.kind \in Plain /\ \A i \in 1..Len(todo) : todo[i].kind \in Plain
  <2>1. Shapes
    BY DEF IInv
  <2> QED BY <1>1, <2>1, NextEvent DEF Shapes, Working
<1> HIDE DEF e
<1>3. /\ PendingAfter(stored.pending, e) = stored.pending
      /\ StatusAfter(stored.status, e) \in {stored.status, "Failed"}
  BY <1>2 DEF PendingAfter, StatusAfter, Plain, MarkerKinds, Effects, EndKinds
<1>4. Shapes'
  <2>1. \A i \in 1..Len(todo') : todo'[i].kind \in Plain
    <3>1. CASE Goes(e)
      BY <1>1, <1>2, <3>1, TailType DEF Goes
    <3>2. CASE FailsTo
      BY <3>2, NoEvents DEF FailsTo
    <3> QED BY <1>1, <3>1, <3>2
  <2>2. pc' \in Working \cup {"error"} \/ (pc' = "finish" /\ Quiet')
    <3>1. CASE Goes(e)
      BY <3>1 DEF Goes
    <3>2. CASE FailsTo
      BY <3>2, FailsWhere
    <3> QED BY <1>1, <3>1, <3>2
  <2> QED BY <2>1, <2>2 DEF Shapes, Working
<1>5. Pendings'
  <2> SUFFICES ASSUME Logged'
               PROVE  /\ pc' \in Working \cup {"error", "finish"}
                      /\ pc' \in Working => stored'.pending = {} /\ stored'.status # "Paused"
                      /\ pc' = "error" /\ cause' \notin Broken => stored'.pending = {}
                      /\ stored'.status = "Paused" => stored'.pending \subseteq cont'.pending
    BY <1>1 DEF Pendings, Working
  <2>1. /\ pc \in Working => stored.pending = {} /\ stored.status # "Paused"
        /\ pc = "error" /\ cause \notin Broken => stored.pending = {}
        /\ stored.status = "Paused" => stored.pending \subseteq cont.pending
    BY <1>1 DEF IInv, Pendings, Working
  <2>2. stored'.pending = stored.pending /\ stored'.status \in {stored.status, "Failed"} /\ cont' = cont
    BY <1>1, <1>2, <1>3 DEF Plain, MarkerKinds, Effects
  <2>3. CASE Goes(e)
    <3>1. UNCHANGED <<pc, ok, cause>>
      BY <2>3 DEF Goes
    <3> QED BY <2>1, <2>2, <3>1 DEF Working
  <2>4. CASE FailsTo
    <3>1. cause' \in Broken /\ (pc' = "error" \/ pc' = "finish")
      BY <2>4, FailsWhere DEF Working, Broken
    <3> QED BY <2>1, <2>2, <3>1 DEF Working
  <2> QED BY <1>1, <2>3, <2>4
<1>6. Ends'
  BY <1>1 DEF IInv, Ends, Goes, FailsTo, Working, Broken
<1> QED BY <1>1, <1>4, <1>5, <1>6 DEF IInv

(* The event that ends the run.                                            *)
LEMMA RecordEnd == ASSUME IInv, Record, pc = "ending" PROVE IInv'
<1> DEFINE e == Head(todo)
<1>1. /\ TypeOK' /\ Numbers' /\ Agrees'
      /\ Started /\ Started' /\ ~Idle /\ ~Idle' /\ (Logged' => Logged)
      /\ Logged' => /\ stored'.pending = PendingAfter(stored.pending, e)
                    /\ stored'.status = StatusAfter(stored.status, e)
      /\ local'.status = StatusAfter(local.status, e)
      /\ agent'.status = StatusAfter(agent.status, e)
      /\ Goes(e) \/ FailsTo
      /\ todo \in Seq(Events) /\ todo # <<>>
  BY RecordOn
<1>2. e.kind \in EndKinds /\ Len(todo) = 1
  BY <1>1, NextEvent
<1> HIDE DEF e
<1>3. /\ \A pending : PendingAfter(pending, e) = {}
      /\ \A status : StatusAfter(status, e) \in Terminal
  BY <1>2 DEF PendingAfter, StatusAfter, EndKinds, Terminal
<1>4. Quiet' /\ ((pc' = "ending" /\ UNCHANGED <<ok, cause>>) \/ (pc' = "finish" /\ FailsTo))
  <2>1. CASE Goes(e)
    <3>1. todo' = Tail(todo) /\ UNCHANGED <<pc, ok, cause>>
      BY <2>1 DEF Goes
    <3>2. Tail(todo) = <<>>
      BY <1>1, <1>2, TailQuiet
    <3> QED BY <3>1, <3>2 DEF Quiet
  <2>2. CASE FailsTo
    BY <2>2, FailsWhere
  <2> QED BY <1>1, <2>1, <2>2
<1>5. Shapes'
  BY <1>4 DEF Shapes
<1>6. Pendings'
  BY <1>1, <1>3, <1>4 DEF Pendings
<1>7. Ends'
  BY <1>1, <1>3, <1>4 DEF Ends, FailsTo, Terminal, Broken
<1> QED BY <1>1, <1>5, <1>6, <1>7 DEF IInv

(* The events of a pause, ...                                              *)
LEMMA RecordPause == ASSUME IInv, Record, pc = "paused" PROVE IInv'
<1> DEFINE e == Head(todo)
<1>1. /\ TypeOK' /\ Numbers' /\ Agrees'
      /\ Started /\ Started' /\ ~Idle /\ ~Idle' /\ (Logged' => Logged)
      /\ Logged' => /\ stored'.pending = PendingAfter(stored.pending, e)
                    /\ stored'.status = StatusAfter(stored.status, e)
      /\ local'.status = StatusAfter(local.status, e)
      /\ cont' = IF e.kind = "RunPaused" THEN e.cont ELSE cont
      /\ Goes(e) \/ FailsTo
      /\ todo \in Seq(Events) /\ todo # <<>>
  BY RecordOn
<1>2. e.kind = IF Len(todo) = 1 THEN "RunPaused" ELSE "ToolApprovalRequested"
  BY <1>1, NextEvent
<1>3. /\ e = todo[1] /\ e \in Events /\ Len(todo) \in Nat \ {0}
      /\ Tail(todo) \in Seq(Events) /\ Len(Tail(todo)) = Len(todo) - 1
      /\ \A i \in 1..Len(Tail(todo)) : Tail(todo)[i] = todo[i + 1]
      /\ Tail(todo) = <<>> <=> Len(todo) = 1
  BY <1>1, TailType, TailQuiet
<1>4. /\ \A i \in 1..Len(todo) : todo[i].kind = IF i = Len(todo) THEN "RunPaused"
                                                ELSE "ToolApprovalRequested"
      /\ Logged => /\ stored.pending \cup Ids(todo, "ToolApprovalRequested") = todo[Len(todo)].cont.pending
                   /\ stored.status # "Paused"
  BY <1>1 DEF IInv, Shapes, Pendings, Quiet
<1>5. Ids(todo, "ToolApprovalRequested") =
        Ids(Tail(todo), "ToolApprovalRequested")
          \cup (IF e.kind = "ToolApprovalRequested" THEN {e.id} \cap ApprovalIds ELSE {})
  BY <1>1, IdsOfTail
<1> HIDE DEF e
<1>6. CASE FailsTo
  <2>1. /\ todo' = <<>> /\ Quiet' /\ pc' = "error" /\ ~ok' /\ cause' = "sink"
    BY <1>6 DEF FailsTo, Quiet
  <2>2. Shapes'
    BY <2>1, NoEvents DEF Shapes
  <2>3. Logged' /\ stored'.status = "Paused" => stored'.pending \subseteq cont'.pending
    <3>1. CASE Len(todo) # 1
      BY <1>1, <1>2, <1>4, <3>1 DEF StatusAfter, EndKinds
    <3>2. CASE Len(todo) = 1
      <4>1. Ids(Tail(todo), "ToolApprovalRequested") = {}
        <5>1. Len(Tail(todo)) = 0
          BY <1>3, <3>2
        <5>2. \A i \in 1..Len(Tail(todo)) : FALSE
          BY <5>1
        <5> QED BY <5>2 DEF Ids
      <4>2. e.kind = "RunPaused" /\ cont' = e.cont
        BY <1>1, <1>2, <3>2
      <4>3. Logged => stored.pending = e.cont.pending
        BY <1>3, <1>4, <1>5, <3>2, <4>1, <4>2
      <4> QED BY <1>1, <4>2, <4>3 DEF PendingAfter, EndKinds
    <3> QED BY <3>1, <3>2
  <2>4. Pendings' /\ Ends'
    BY <1>1, <2>1, <2>3 DEF Pendings, Ends, Broken
  <2> QED BY <1>1, <2>2, <2>4 DEF IInv
<1>7. CASE Goes(e) /\ Len(todo) = 1
  <2>1. todo' = <<>> /\ Quiet' /\ UNCHANGED <<pc, ok, cause>>
    BY <1>3, <1>7 DEF Goes, Quiet
  <2>2. e.kind = "RunPaused" /\ cont' = e.cont
    BY <1>1, <1>2, <1>7
  <2>3. Logged => stored.pending = e.cont.pending
    <3>1. Ids(Tail(todo), "ToolApprovalRequested") = {}
      BY <1>3, <1>7 DEF Ids
    <3> QED BY <1>3, <1>4, <1>5, <1>7, <2>2, <3>1
  <2>4. Shapes'
    BY <2>1, NoEvents DEF Shapes
  <2>5. Pendings'
    BY <1>1, <2>1, <2>2, <2>3 DEF Pendings, PendingAfter, EndKinds
  <2>6. Ends'
    BY <1>1, <2>1, <2>2 DEF IInv, Ends, StatusAfter
  <2> QED BY <1>1, <2>4, <2>5, <2>6 DEF IInv
<1>8. CASE Goes(e) /\ Len(todo) # 1
  <2>1. todo' = Tail(todo) /\ ~Quiet' /\ UNCHANGED <<pc, ok, cause>>
    BY <1>3, <1>8 DEF Goes, Quiet
  <2>2. e.kind = "ToolApprovalRequested" /\ e.id \in ApprovalIds
    BY <1>2, <1>3, <1>8 DEF Events, MarkerKinds, EndKinds
  <2>3. Shapes'
    <3>1. \A i \in 1..Len(todo') : todo'[i].kind = IF i = Len(todo') THEN "RunPaused"
                                                   ELSE "ToolApprovalRequested"
      <4>1. Len(todo') = Len(todo) - 1 /\ \A i \in 1..Len(todo') : todo'[i] = todo[i + 1]
        BY <1>3, <2>1
      <4>2. \A i \in 1..Len(todo') : i + 1 \in 1..Len(todo) /\ (i + 1 = Len(todo) <=> i = Len(todo'))
        BY <1>3, <4>1
      <4> QED BY <1>4, <4>1, <4>2
    <3> QED BY <2>1, <3>1 DEF Shapes
  <2>4. Pendings'
    <3>1. todo'[Len(todo')] = todo[Len(todo)]
      BY <1>3, <1>8, <2>1
    <3>2. Logged' => stored'.pending = stored.pending \cup {e.id}
      BY <1>1, <2>2 DEF PendingAfter, EndKinds
    <3>3. Ids(todo, "ToolApprovalRequested") = Ids(todo', "ToolApprovalRequested") \cup {e.id}
      BY <1>5, <2>1, <2>2
    <3>4. Logged' => stored'.pending \cup Ids(todo', "ToolApprovalRequested")
                       = todo'[Len(todo')].cont.pending
      BY <1>1, <1>4, <3>1, <3>2, <3>3
    <3>5. Logged' => stored'.status # "Paused"
      BY <1>1, <1>4, <2>2 DEF StatusAfter, EndKinds
    <3> QED BY <1>1, <2>1, <3>4, <3>5 DEF Pendings, Ids
  <2>5. Ends'
    BY <1>1, <2>1 DEF IInv, Ends
  <2> QED BY <1>1, <2>3, <2>4, <2>5 DEF IInv
<1> QED BY <1>1, <1>6, <1>7, <1>8

(* ... and of a resume.                                                    *)
LEMMA RecordResume == ASSUME IInv, Record, pc = "resuming" PROVE IInv'
<1> DEFINE e == Head(todo)
<1>1. /\ TypeOK' /\ Numbers' /\ Agrees'
      /\ Started /\ Started' /\ ~Idle /\ ~Idle' /\ (Logged' => Logged)
      /\ Logged' => /\ stored'.pending = PendingAfter(stored.pending, e)
                    /\ stored'.status = StatusAfter(stored.status, e)
      /\ cont' = IF e.kind = "RunPaused" THEN e.cont ELSE cont
      /\ Goes(e) \/ FailsTo
      /\ todo \in Seq(Events) /\ todo # <<>>
  BY RecordOn
<1>2. e.kind \in {"ToolApprovalResolved", "RunResumed"}
  BY <1>1, NextEvent
<1>3. /\ Len(todo) \in Nat \ {0} /\ Len(Tail(todo)) = Len(todo) - 1
      /\ \A i \in 1..Len(Tail(todo)) : Tail(todo)[i] = todo[i + 1]
  BY <1>1, TailType
<1>4. /\ \A i \in 1..Len(todo) : todo[i].kind = IF i = Len(todo) THEN "RunResumed"
                                                ELSE "ToolApprovalResolved"
      /\ Logged => stored.pending \subseteq cont.pending \cap Ids(todo, "ToolApprovalResolved")
  BY DEF IInv, Shapes, Pendings, Started
<1>5. Ids(todo, "ToolApprovalResolved") =
        Ids(Tail(todo), "ToolApprovalResolved")
          \cup (IF e.kind = "ToolApprovalResolved" THEN {e.id} \cap ApprovalIds ELSE {})
  BY <1>1, IdsOfTail
<1> HIDE DEF e
<1>6. Logged' => stored'.pending \subseteq cont'.pending \cap Ids(Tail(todo), "ToolApprovalResolved")
  <2>1. cont' = cont
    BY <1>1, <1>2
  <2>2. CASE e.kind = "ToolApprovalResolved"
    BY <1>1, <1>4, <1>5, <2>1, <2>2 DEF PendingAfter, EndKinds
  <2>3. CASE e.kind = "RunResumed"
    BY <1>1, <1>4, <1>5, <2>1, <2>3 DEF PendingAfter, EndKinds
  <2> QED BY <1>2, <2>2, <2>3
<1>7. CASE FailsTo
  <2>1. todo' = <<>> /\ Quiet' /\ pc' = "finish" /\ ~ok' /\ cause' = "sink"
    BY <1>7 DEF FailsTo, Quiet
  <2>2. Shapes'
    BY <2>1 DEF Shapes
  <2>3. Pendings' /\ Ends'
    BY <1>1, <1>6, <2>1 DEF Pendings, Ends, Broken
  <2> QED BY <1>1, <2>2, <2>3 DEF IInv
<1>8. CASE Goes(e)
  <2>1. todo' = Tail(todo) /\ UNCHANGED <<pc, ok, cause>>
    BY <1>8 DEF Goes
  <2>2. Shapes'
    <3>1. \A i \in 1..Len(todo') : todo'[i].kind = IF i = Len(todo') THEN "RunResumed"
                                                   ELSE "ToolApprovalResolved"
      <4>1. Len(todo') = Len(todo) - 1 /\ \A i \in 1..Len(todo') : todo'[i] = todo[i + 1]
        BY <1>3, <2>1
      <4>2. \A i \in 1..Len(todo') : i + 1 \in 1..Len(todo) /\ (i + 1 = Len(todo) <=> i = Len(todo'))
        BY <1>3, <4>1
      <4> QED BY <1>4, <4>1, <4>2
    <3> QED BY <2>1, <3>1 DEF Shapes
  <2>3. Pendings'
    <3>1. Logged' /\ Quiet' => stored'.status # "Paused"
      <4>1. Quiet' => Len(todo) = 1
        BY <1>1, <2>1, TailQuiet DEF Quiet
      <4>2. Quiet' => e.kind = "RunResumed"
        BY <1>1, <1>4, <4>1, TailType DEF e
      <4> QED BY <1>1, <4>2 DEF StatusAfter, EndKinds
    <3> QED BY <1>1, <1>6, <2>1, <3>1 DEF Pendings, Ids
  <2>4. Ends'
    BY <1>1, <2>1 DEF IInv, Ends
  <2> QED BY <1>1, <2>2, <2>3, <2>4 DEF IInv
<1> QED BY <1>1, <1>7, <1>8

LEMMA RecordStep == ASSUME IInv, Record PROVE IInv'
<1>1. pc \notin {"idle", "finish"}
  BY RecordEffect, NextEvent
<1> QED BY <1>1, RecordStart, RecordPlain, RecordEnd, RecordPause, RecordResume DEF IInv, TypeOK, Working

-----------------------------------------------------------------------------
(* The theorems.                                                           *)
LEMMA Begins == Init => IInv
<1> SUFFICES ASSUME Init PROVE IInv
  OBVIOUS
<1>1. /\ pc = "idle" /\ todo = <<>> /\ run = 0 /\ ok = TRUE /\ cause = "none" /\ cancelled = FALSE
      /\ turn = 0 /\ startPhase = 1 /\ recordTurn = TRUE /\ phase = 1
      /\ input = NoInput /\ reply = <<>> /\ calls = <<>> /\ decision = "None"
      /\ local = DefaultState /\ agent = DefaultState
      /\ stored = DefaultState /\ replayable = TRUE /\ cont = NoCont /\ raced = FALSE /\ whole = TRUE
      /\ steering = <<>> /\ followUp = <<>> /\ held = <<>> /\ obsCommitted = FALSE
      /\ aborter = NoAborter
      /\ asked = FALSE /\ sent = <<>> /\ queuedLog = <<>> /\ nextCall = 1 /\ dropped = FALSE
  BY DEF Init
<1>2. 0 \in 0..MaxRuns /\ 1 \in 1..(MaxCalls + 1) /\ 1 \in 1..(Len(Phases) + 1) /\ 0 \in Nat
  BY LoopAssumption, PhaseCount
<1>3. aborter \in [st : {"none", "called", "loaded"}, run : 0..MaxRuns, replayable : BOOLEAN]
      /\ aborter.run = 0
  BY <1>1, <1>2 DEF NoAborter
<1>4. <<>> \in Seq(Events) /\ <<>> \in Seq(MessageSet) /\ <<>> \in Seq(1..MaxCalls)
  BY EmptySeq
<1>5. /\ ok \in BOOLEAN /\ cancelled \in BOOLEAN /\ recordTurn \in BOOLEAN /\ replayable \in BOOLEAN
      /\ raced \in BOOLEAN /\ whole \in BOOLEAN /\ obsCommitted \in BOOLEAN /\ asked \in BOOLEAN /\ dropped \in BOOLEAN
  BY <1>1
<1>6. TypeOK
  BY <1>1, <1>2, <1>3, <1>4, <1>5, DefaultType DEF TypeOK
<1>7. Shapes
  BY <1>1 DEF Shapes, Quiet
<1>8. Numbers
  BY <1>1, <1>3 DEF Numbers, Idle, Started, DefaultState
<1>9. Agrees
  BY <1>1 DEF Agrees
<1>10. Pendings
  BY <1>1 DEF Pendings, Idle, DefaultState, NoCont
<1>11. Ends
  BY <1>1 DEF Ends, DefaultState
<1> QED BY <1>6, <1>7, <1>8, <1>9, <1>10, <1>11 DEF IInv

LEMMA DriverStep == ASSUME IInv, Driver PROVE IInv'
<1>1. TypeOK
  BY DEF IInv
<1>2. CASE \/ BeginSteering \/ BeginTurn \/ InputIngest \/ PreparePhase \/ ContextCompact
           \/ ModelStream \/ AssistantCommit \/ ToolCallResolve \/ TurnDecision \/ TurnCompleted
           \/ SteeringEmpty \/ SteeringAtStop \/ PrependHeld \/ SteeringAtContinue \/ NextTurn
           \/ TurnAfterStop
  <2>1. Works /\ TypeOK'
    BY <1>1, <1>2, BeginSteeringStep, BeginTurnStep, InputIngestStep, PreparePhaseStep,
       ContextCompactStep, ModelStreamStep, AssistantCommitStep, ToolCallResolveStep,
       TurnDecisionStep, TurnCompletedStep, SteeringEmptyStep, SteeringAtStopStep,
       PrependHeldStep, SteeringAtContinueStep, NextTurnStep, TurnAfterStopStep
  <2> QED BY <2>1, WorksOn
<1>3. CASE ToolPhase \/ ResumePhase
  BY <1>1, <1>3, ToolPhaseStep, ResumePhaseStep, WorksOn, PausesOn
<1>4. CASE ProposalFails \/ StoreFails \/ Record
  BY <1>4, ProposalFailsStep, StoreFailsStep, RecordStep
<1>5. CASE CompleteRun \/ RecordRunError \/ FinishRun
  BY <1>5, CompleteRunStep, RecordRunErrorStep, FinishRunStep
<1> QED BY <1>2, <1>3, <1>4, <1>5 DEF Driver

LEMMA CallersStep == ASSUME IInv, Callers PROVE IInv'
<1>1. CASE Prompt \/ ContinueRun \/ ResumeRun
  BY <1>1, PromptStep, ContinueRunStep, ResumeRunStep
<1>2. CASE AbortActive \/ AbortPaused \/ AbortLoad \/ AbortFails \/ AbortRecord
  BY <1>2, AbortActiveStep, AbortPausedStep, AbortLoadStep, AbortFailsStep, AbortRecordStep
<1>3. CASE Reset \/ Steer \/ SteerUserInput \/ FollowUp
  BY <1>3, ResetStep, QueuesStep
<1> QED BY <1>1, <1>2, <1>3 DEF Callers

LEMMA StutterStep == ASSUME IInv, UNCHANGED vars PROVE IInv'
<1>1. UNCHANGED <<control, cursor, local, agent, log, queues, aborter, history>>
  BY DEF vars
<1>2. TypeOK'
  BY <1>1 DEF IInv, TypeOK, control, cursor, log, queues, history
<1> QED BY <1>1, <1>2, CallersKeep DEF control, log, IInv, Numbers

LEMMA Inductive == Spec => []IInv
<1>1. IInv /\ [Next]_vars => IInv'
  BY DriverStep, CallersStep, StutterStep DEF Next
<1> QED BY <1>1, Begins, PTL DEF Spec

(* The driver, the agent and the log of its run stay in their types.       *)
THEOREM TypeCorrect == Spec => []TypeOK
<1>1. IInv => TypeOK
  BY DEF IInv
<1> QED BY <1>1, Inductive, PTL

(* An idle agent shows of its latest run the status and the pending        *)
(* approvals that the run's log reduces to, but for a run that a failing   *)
(* listener ended: whenever listeners and appends to the store fail        *)
(* (event_sink, record_event, run_exclusive, record_run_error,             *)
(* reduce_events).                                                         *)
THEOREM StateIsTheLogs == Spec => []LogIsTheState
<1>1. IInv => LogIsTheState
  <2> SUFFICES ASSUME IInv, Idle PROVE LogIsTheState
    BY DEF LogIsTheState
  <2>1. Started /\ Agrees /\ Ends
    BY IdleStarted DEF IInv
  <2>2. ASSUME run > 0, agent.run = run, Logged
        PROVE  \/ /\ stored.status = agent.status /\ stored.pending \subseteq agent.pending
                  /\ run = 1 => stored.pending = agent.pending
               \/ cause = "sink" /\ stored.status = "Failed"
    BY <2>1, <2>2 DEF Agrees, Shows
  <2>3. agent.status = "Running" => cause \in Broken
    BY <2>1 DEF Ends
  <2> QED BY <2>2, <2>3 DEF LogIsTheState
<1> QED BY <1>1, Inductive, PTL

(* An agent that is left paused can be resumed, and shows the approvals it *)
(* waits for (set_tool_approval_pause, resume_tool_approvals_internal).    *)
THEOREM PausedIsResumable == Spec => []PauseCanBeResumed
<1>1. IInv => PauseCanBeResumed
  <2> SUFFICES ASSUME IInv, Idle, agent.status = "Paused", cause \notin Broken, Logged
               PROVE  /\ agent.run = run /\ stored.status = "Paused"
                      /\ stored.pending = cont.pending /\ cont.pending \subseteq agent.pending
                      /\ run = 1 => agent.pending = cont.pending
    BY DEF PauseCanBeResumed
  <2>1. Started /\ agent.run = run /\ run > 0
    BY IdleStarted DEF IInv, Ends, Numbers, TypeOK
  <2>2. /\ stored.status = "Paused" /\ stored.pending \subseteq agent.pending
        /\ run = 1 => stored.pending = agent.pending
    BY <2>1 DEF IInv, Agrees, Shows, Broken
  <2>3. stored.pending = cont.pending
    BY <2>1, <2>2 DEF IInv, Pendings
  <2> QED BY <2>1, <2>2, <2>3
<1> QED BY <1>1, Inductive, PTL

-----------------------------------------------------------------------------
(* Queued messages.  Where they wait is a line from the transcript back to *)
(* the steering queue, and a message goes before another that it must not  *)
(* be equal to, nor come after when both were sent the same way.           *)
Queued(messages) == {m \in messages : m.kind \in QueuedKinds}

Precedes(m, k) ==
  m.kind \in QueuedKinds /\ k.kind \in QueuedKinds =>
    m # k /\ (ModesKeepOrder /\ m.kind = k.kind => m.n < k.n)

Ahead(M, K) == \A m \in M, k \in K : Precedes(m, k)

Sorted(s) == \A i, j \in 1..Len(s) : i < j => Precedes(s[i], s[j])

Line(q, t, h, f, s) ==
  /\ Sorted(q) /\ Sorted(t) /\ Sorted(h) /\ Sorted(f) /\ Sorted(s)
  /\ Ahead(ToSet(q), ToSet(t) \cup ToSet(h) \cup ToSet(f) \cup ToSet(s))
  /\ Ahead(ToSet(t), ToSet(h) \cup ToSet(f) \cup ToSet(s))
  /\ Ahead(ToSet(h), ToSet(f) \cup ToSet(s))
  /\ Ahead(ToSet(f), ToSet(s))

Places(q, t, h, f, s) ==
  ToSet(q) \cup Queued(ToSet(t)) \cup ToSet(h) \cup ToSet(f) \cup ToSet(s)

(* Which messages wait where.                                              *)
Kinds ==
  /\ \A i \in 1..Len(sent) : sent[i].kind \in QueuedKinds /\ sent[i].n = i
  /\ \A m \in ToSet(queuedLog) : m.kind \in QueuedKinds
  /\ \A m \in ToSet(held) : m.kind = "userInput"
  /\ \A m \in ToSet(followUp) : m.kind \in {"userInput", "followUp"}
  /\ \A m \in ToSet(steering) : m.kind \in {"userInput", "observation"}
  /\ input.kind \notin QueuedKinds

(* User inputs are held, and then lie in the follow-up queue, only between *)
(* two turns; unless a listener failed, none is held any longer.           *)
Between ==
  /\ pc = "prepend" => decision = "Stop"
  /\ held # <<>> => pc = "prepend" \/ (dropped /\ pc \in {"error", "ending", "finish"})
  /\ SteeringMode # "All" => Len(held) <= 1
  /\ ModesKeepOrder => \A i \in 1..Len(followUp) : followUp[i].kind = "userInput" =>
       pc = "follow" /\ Quiet /\ decision = "Stop" /\ (FollowUpMode = "All" \/ i = 1)

(* Every message sent is in one place.                                     *)
Placed ==
  LET places == Places(queuedLog, MessagesOf(todo), held, followUp, steering)
  IN places \subseteq ToSet(sent) /\ (~dropped => ToSet(sent) \subseteq places)

MInv ==
  Line(queuedLog, MessagesOf(todo), held, followUp, steering) /\ Kinds /\ Between /\ Placed

(* The elements of a sequence.                                             *)
LEMMA Elements ==
  ASSUME NEW S, NEW s \in Seq(S)
  PROVE  /\ Len(s) \in Nat /\ ToSet(s) \in SUBSET S /\ ToSet(<<>>) = {}
         /\ \A x : x \in ToSet(s) <=> \E i \in 1..Len(s) : s[i] = x
         /\ s = <<>> <=> Len(s) = 0
<1>1. Len(s) \in Nat /\ DOMAIN s = 1..Len(s) /\ \A i \in 1..Len(s) : s[i] \in S
  BY LenProperties, ElementOfSeq
<1>2. DOMAIN <<>> = {}
  OBVIOUS
<1>3. s = <<>> <=> Len(s) = 0
  BY EmptySeq
<1> QED BY <1>1, <1>2, <1>3 DEF ToSet

LEMMA NothingSorted == Sorted(<<>>) /\ ToSet(<<>>) = {} /\ \A M : Ahead(M, {}) /\ Ahead({}, M)
<1>1. Len(<<>>) = 0 /\ ToSet(<<>>) = {}
  BY EmptySeq, Elements
<1> QED BY <1>1 DEF Sorted, Ahead

(* A sequence is in order when its parts are, one after the other; ...     *)
LEMMA Joined ==
  ASSUME NEW s \in Seq(MessageSet), NEW t \in Seq(MessageSet)
  PROVE  /\ s \o t \in Seq(MessageSet) /\ Len(s \o t) = Len(s) + Len(t)
         /\ ToSet(s \o t) = ToSet(s) \cup ToSet(t)
         /\ Sorted(s \o t) <=> Sorted(s) /\ Sorted(t) /\ Ahead(ToSet(s), ToSet(t))
         /\ \A i \in 1..Len(s) : (s \o t)[i] = s[i]
         /\ \A i \in 1..Len(t) : (s \o t)[Len(s) + i] = t[i]
         /\ \A i \in 1..Len(s \o t) : i \in 1..Len(s) \/ i - Len(s) \in 1..Len(t)
<1> DEFINE u == s \o t
           m == Len(s)
           n == Len(t)
<1>1. m \in Nat /\ n \in Nat /\ u \in Seq(MessageSet) /\ Len(u) = m + n
      /\ \A i \in 1..(m + n) : u[i] = IF i <= m THEN s[i] ELSE t[i - m]
  BY Elements, ConcatProperties
<1>2. \A x : /\ x \in ToSet(s) <=> \E i \in 1..m : s[i] = x
             /\ x \in ToSet(t) <=> \E i \in 1..n : t[i] = x
             /\ x \in ToSet(u) <=> \E i \in 1..(m + n) : u[i] = x
  BY ZenonT(60), <1>1, Elements
<1> HIDE DEF u, m, n
<1>3. /\ \A i \in 1..m : i \in 1..(m + n) /\ u[i] = s[i]
      /\ \A i \in 1..n : m + i \in 1..(m + n) /\ u[m + i] = t[i]
      /\ \A i \in 1..(m + n) : \/ i \in 1..m /\ u[i] = s[i]
                               \/ i - m \in 1..n /\ i > m /\ u[i] = t[i - m] /\ i = m + (i - m)
  BY <1>1
<1>4. ToSet(u) = ToSet(s) \cup ToSet(t)
  <2>1. ASSUME NEW x \in ToSet(u) PROVE x \in ToSet(s) \cup ToSet(t)
    BY <1>2, <1>3
  <2>2. ASSUME NEW x \in ToSet(s) \cup ToSet(t) PROVE x \in ToSet(u)
    BY <1>2, <1>3
  <2> QED BY <2>1, <2>2
<1>5. ASSUME Sorted(u)
      PROVE  Sorted(s) /\ Sorted(t) /\ Ahead(ToSet(s), ToSet(t))
  <2>1. \A i, j \in 1..(m + n) : i < j => Precedes(u[i], u[j])
    BY <1>1, <1>5 DEF Sorted
  <2>2. ASSUME NEW i \in 1..m, NEW j \in 1..m, i < j PROVE Precedes(s[i], s[j])
    BY <1>3, <2>1, <2>2
  <2>3. ASSUME NEW i \in 1..n, NEW j \in 1..n, i < j PROVE Precedes(t[i], t[j])
    <3>1. m + i < m + j
      BY <1>1, <2>3
    <3> QED BY <1>3, <2>1, <3>1
  <2>4. ASSUME NEW i \in 1..m, NEW j \in 1..n PROVE Precedes(s[i], t[j])
    <3>1. i < m + j
      BY <1>1
    <3> QED BY <1>3, <2>1, <3>1
  <2>5. Ahead(ToSet(s), ToSet(t))
    BY <1>2, <2>4 DEF Ahead
  <2> QED BY <2>2, <2>3, <2>5 DEF Sorted, m, n
<1>6. ASSUME Sorted(s), Sorted(t), Ahead(ToSet(s), ToSet(t))
      PROVE  Sorted(u)
  <2>1. /\ \A i, j \in 1..m : i < j => Precedes(s[i], s[j])
        /\ \A i, j \in 1..n : i < j => Precedes(t[i], t[j])
    BY <1>6 DEF Sorted, m, n
  <2>2. \A i \in 1..m, j \in 1..n : Precedes(s[i], t[j])
    BY <1>2, <1>6 DEF Ahead
  <2> SUFFICES ASSUME NEW i \in 1..(m + n), NEW j \in 1..(m + n), i < j
               PROVE  Precedes(u[i], u[j])
    BY <1>1 DEF Sorted
  <2>3. CASE j \in 1..m /\ u[j] = s[j]
    <3>1. i \in 1..m
      BY <1>1, <2>3
    <3> QED BY <1>3, <2>1, <2>3, <3>1
  <2>4. CASE j - m \in 1..n /\ j > m /\ u[j] = t[j - m]
    <3>1. CASE i \in 1..m /\ u[i] = s[i]
      BY <2>2, <2>4, <3>1
    <3>2. CASE i - m \in 1..n /\ u[i] = t[i - m]
      <4>1. i - m < j - m
        BY <1>1
      <4> QED BY <2>1, <2>4, <3>2, <4>1
    <3> QED BY <1>3, <3>1, <3>2
  <2> QED BY <1>3, <2>3, <2>4
<1>7. \A i \in 1..Len(u) : i \in 1..m \/ i - m \in 1..n
  BY <1>1, <1>3
<1>8. \A i \in 1..n : u[m + i] = t[i]
  BY <1>3
<1>9. \A i \in 1..m : u[i] = s[i]
  BY <1>3
<1> QED BY <1>1, <1>4, <1>5, <1>6, <1>7, <1>8, <1>9 DEF u, m, n

(* ... one with a message at its end, when the rest goes before it.        *)
LEMMA Added ==
  ASSUME NEW s \in Seq(MessageSet), NEW m \in MessageSet
  PROVE  /\ Append(s, m) \in Seq(MessageSet) /\ Len(Append(s, m)) = Len(s) + 1
         /\ ToSet(Append(s, m)) = ToSet(s) \cup {m}
         /\ Sorted(s) /\ Ahead(ToSet(s), {m}) => Sorted(Append(s, m))
         /\ \A i \in 1..Len(s) : Append(s, m)[i] = s[i]
         /\ Append(s, m)[Len(s) + 1] = m
<1>1. <<m>> \in Seq(MessageSet) /\ Len(<<m>>) = 1 /\ <<m>>[1] = m
  OBVIOUS
<1>2. ToSet(<<m>>) = {m} /\ Sorted(<<m>>)
  <2> DEFINE one == <<m>>
  <2>1. one \in Seq(MessageSet) /\ Len(one) = 1 /\ one[1] = m
    BY <1>1
  <2> HIDE DEF one
  <2>2. ToSet(one) = {m}
    <3>1. \A x : x \in ToSet(one) <=> \E i \in 1..1 : one[i] = x
      BY <2>1, Elements
    <3> QED BY <2>1, <3>1
  <2>3. Sorted(one)
    BY <2>1 DEF Sorted
  <2> QED BY <2>2, <2>3 DEF one
<1>3. Append(s, m) = s \o <<m>>
  BY AppendIsConcat
<1>4. /\ s \o <<m>> \in Seq(MessageSet) /\ ToSet(s \o <<m>>) = ToSet(s) \cup {m}
      /\ Sorted(s) /\ Ahead(ToSet(s), {m}) => Sorted(s \o <<m>>)
  BY ZenonT(30), <1>1, <1>2, Joined
<1>5. /\ Len(Append(s, m)) = Len(s) + 1 /\ Append(s, m)[Len(s) + 1] = m
      /\ \A i \in 1..Len(s) : Append(s, m)[i] = s[i]
  BY AppendProperties
<1> QED BY <1>3, <1>4, <1>5

(* What drain returns and what it leaves are the queue.                    *)
LEMMA DrainSplits ==
  ASSUME NEW queue \in Seq(MessageSet), NEW mode \in QueueModes
  PROVE  /\ Drained(queue, mode) \in Seq(MessageSet) /\ Remaining(queue, mode) \in Seq(MessageSet)
         /\ Drained(queue, mode) \o Remaining(queue, mode) = queue
         /\ mode = "All" => Remaining(queue, mode) = <<>>
         /\ mode # "All" => Len(Drained(queue, mode)) <= 1
         /\ queue # <<>> => Len(Drained(queue, mode)) >= 1
<1> DEFINE d == Drained(queue, mode)
           r == Remaining(queue, mode)
           n == IF mode = "All" THEN Len(queue) ELSE IF Len(queue) = 0 THEN 0 ELSE 1
<1>1. /\ Len(queue) \in Nat /\ n \in 0..Len(queue) /\ (queue = <<>> <=> Len(queue) = 0)
      /\ \A i \in 1..Len(queue) : queue[i] \in MessageSet
  BY Elements, ElementOfSeq
<1>2. d \in Seq(MessageSet) /\ r \in Seq(MessageSet)
  BY DrainedType
<1>3. Len(d) = n /\ \A i \in 1..n : d[i] = queue[i]
  <2>1. CASE mode = "All"
    BY <2>1 DEF Drained
  <2>2. CASE mode # "All"
    <3>1. Min({1, Len(queue)}) = n
      <4>1. \E x \in {1, Len(queue)} : \A y \in {1, Len(queue)} : x <= y
        BY <1>1
      <4>2. Min({1, Len(queue)}) \in {1, Len(queue)} /\ \A y \in {1, Len(queue)} : Min({1, Len(queue)}) <= y
        BY <4>1 DEF Min
      <4> QED BY <1>1, <2>2, <4>2
    <3>2. d = SubSeq(queue, 1, n)
      BY <2>2, <3>1 DEF Drained
    <3>3. /\ Len(SubSeq(queue, 1, n)) = IF 1 <= n THEN n - 1 + 1 ELSE 0
          /\ \A i \in 1..(n - 1 + 1) : SubSeq(queue, 1, n)[i] = queue[1 + i - 1]
      <4>1. 1 \in Int /\ n \in Int /\ \A i \in 1..n : queue[i] \in MessageSet
        BY <1>1
      <4> HIDE DEF n
      <4> QED BY <4>1, SubSeqProperties
    <3> QED BY <1>1, <3>2, <3>3
  <2> QED BY <2>1, <2>2
<1>4. Len(r) = Len(queue) - n /\ \A i \in 1..(Len(queue) - n) : r[i] = queue[n + i]
  <2>1. r = SubSeq(queue, n + 1, Len(queue))
    BY <1>3 DEF Remaining
  <2>2. n + 1 \in Int /\ Len(queue) \in Int /\ \A i \in (n + 1)..Len(queue) : queue[i] \in MessageSet
    BY <1>1
  <2>3. /\ Len(r) = IF n + 1 <= Len(queue) THEN Len(queue) - (n + 1) + 1 ELSE 0
        /\ \A i \in 1..(Len(queue) - (n + 1) + 1) : r[i] = queue[n + 1 + i - 1]
    <3> HIDE DEF n, r
    <3> QED BY <2>1, <2>2, SubSeqProperties
  <2> HIDE DEF n, r
  <2>4. \A i \in 1..(Len(queue) - n) : i \in 1..(Len(queue) - (n + 1) + 1) /\ n + 1 + i - 1 = n + i
    BY <1>1
  <2>5. Len(r) = Len(queue) - n
    BY <1>1, <2>3
  <2> QED BY <2>3, <2>4, <2>5
<1> HIDE DEF d, r
<1>5. d \o r = queue
  <2>1. /\ d \o r \in Seq(MessageSet) /\ Len(d \o r) = Len(queue)
        /\ \A i \in 1..Len(queue) : (d \o r)[i] = IF i <= n THEN d[i] ELSE r[i - n]
    <3> HIDE DEF n
    <3>1. Len(d) + Len(r) = Len(queue)
      BY <1>1, <1>3, <1>4
    <3> QED BY <1>2, <1>3, <3>1, ConcatProperties
  <2> HIDE DEF n
  <2>2. ASSUME NEW i \in 1..Len(queue) PROVE (d \o r)[i] = queue[i]
    <3>1. CASE i <= n
      BY <1>1, <1>3, <2>1, <3>1
    <3>2. CASE ~(i <= n)
      <4>1. i - n \in 1..(Len(queue) - n) /\ n + (i - n) = i
        BY <1>1, <3>2
      <4> QED BY <1>4, <2>1, <3>2, <4>1
    <3> QED BY <3>1, <3>2
  <2> QED BY <2>1, <2>2, SeqEqual
<1>6. mode = "All" => r = <<>>
  <2>1. mode = "All" => Len(r) = 0
    BY <1>1, <1>4
  <2> QED BY <1>2, <2>1, Elements
<1>7. (mode # "All" => Len(d) <= 1) /\ (queue # <<>> => Len(d) >= 1)
  BY <1>1, <1>3
<1> QED BY <1>2, <1>5, <1>6, <1>7 DEF d, r

(* What is kept of a list: its elements that stay, in their order.         *)
LEMMA KeptOf ==
  ASSUME NEW s \in Seq(MessageSet), NEW stays
  PROVE  /\ Kept(s, stays) \in Seq(MessageSet) /\ Len(Kept(s, stays)) <= Len(s)
         /\ ToSet(Kept(s, stays)) = ToSet(s) \cap stays
         /\ Sorted(s) => Sorted(Kept(s, stays))
<1> DEFINE kept == CHOOSE f : KeptTo(f, s, stays, Len(s))
           Part(i) == {s[j] : j \in 1..i}
           Good(i) == /\ kept[i] \in Seq(MessageSet) /\ Len(kept[i]) <= i
                      /\ ToSet(kept[i]) = Part(i) \cap stays
                      /\ Sorted(s) => Sorted(kept[i])
           T == {i \in 0..Len(s) : ~Good(i)}
<1>1. KeptTo(kept, s, stays, Len(s))
  <2>1. Len(s) \in 0..Len(s)
    BY LenProperties
  <2> QED BY <2>1, KeptExists
<1>2. Kept(s, stays) = kept[Len(s)]
  BY DEF Kept, KeptTo
<1> HIDE DEF kept
<1>3. Len(s) \in Nat /\ ToSet(s) = Part(Len(s))
  BY Elements
<1>4. SUFFICES ASSUME NEW n \in T PROVE FALSE
  <2>1. Good(Len(s)) => /\ Kept(s, stays) \in Seq(MessageSet) /\ Len(Kept(s, stays)) <= Len(s)
                        /\ ToSet(Kept(s, stays)) = ToSet(s) \cap stays
                        /\ Sorted(s) => Sorted(Kept(s, stays))
    BY <1>2, <1>3
  <2> HIDE DEF Good
  <2>2. Good(Len(s)) \/ Len(s) \in T
    BY <1>3
  <2> QED BY <2>1, <2>2
<1>5. PICK m \in T : \A k \in T : m <= k
  <2>1. T \in SUBSET Nat
    BY <1>3
  <2> HIDE DEF T
  <2> QED BY <2>1, Least
<1>6. kept[m] = IF m = 0 THEN <<>>
                ELSE IF s[m] \in stays THEN Append(kept[m - 1], s[m]) ELSE kept[m - 1]
  BY <1>1 DEF KeptTo
<1>7. m # 0
  <2>1. Part(0) = {} /\ Len(<<>>) = 0 /\ <<>> \in Seq(MessageSet)
    BY EmptySeq
  <2>2. ASSUME m = 0 PROVE Good(0)
    <3>1. kept[0] = <<>>
      BY <1>6, <2>2
    <3>2. ToSet(<<>>) = {} /\ Sorted(<<>>)
      BY NothingSorted
    <3> QED BY <2>1, <3>1, <3>2
  <2> HIDE DEF Good
  <2> QED BY <2>2
<1>8. m \in 1..Len(s) /\ m - 1 \in 0..Len(s) /\ Good(m - 1)
  <2> HIDE DEF Good
  <2>1. m \in 0..Len(s)
    OBVIOUS
  <2>2. m - 1 \in 0..Len(s) /\ ~(m <= m - 1)
    BY <1>3, <1>7, <2>1
  <2>3. m - 1 \notin T
    BY <1>5, <2>2
  <2> QED BY <1>3, <1>7, <2>1, <2>2, <2>3
<1> DEFINE before == kept[m - 1]
<1>9. before \in Seq(MessageSet) /\ Len(before) <= m - 1 /\ Len(before) \in Nat
      /\ ToSet(before) = Part(m - 1) \cap stays /\ (Sorted(s) => Sorted(before))
  BY <1>8, LenProperties
<1>10. Part(m) = Part(m - 1) \cup {s[m]}
  <2>1. \A j \in 1..m : j = m \/ j \in 1..(m - 1)
    BY <1>8
  <2>2. m \in 1..m /\ \A j \in 1..(m - 1) : j \in 1..m
    BY <1>8
  <2> QED BY <2>1, <2>2
<1>11. s[m] \in MessageSet
  BY <1>8, ElementOfSeq
<1> HIDE DEF before
<1>12. CASE s[m] \notin stays
  <2>1. kept[m] = before
    BY <1>6, <1>7, <1>12 DEF before
  <2>2. Part(m) \cap stays = Part(m - 1) \cap stays
    BY <1>10, <1>12
  <2>3. Len(before) <= m
    BY <1>8, <1>9
  <2> QED BY <1>9, <2>1, <2>2, <2>3
<1>13. CASE s[m] \in stays
  <2>1. kept[m] = Append(before, s[m])
    BY <1>6, <1>7, <1>13 DEF before
  <2>2. Part(m) \cap stays = (Part(m - 1) \cap stays) \cup {s[m]}
    BY <1>10, <1>13
  <2>3. Sorted(s) => Ahead(ToSet(before), {s[m]})
    <3>1. \A x \in ToSet(before) : \E j \in 1..(m - 1) : x = s[j]
      BY <1>9
    <3>2. \A j \in 1..(m - 1) : j \in 1..Len(s) /\ j < m
      BY <1>8
    <3> QED BY SMTT(30), <1>8, <3>1, <3>2 DEF Sorted, Ahead
  <2>4. /\ Append(before, s[m]) \in Seq(MessageSet) /\ Len(Append(before, s[m])) = Len(before) + 1
        /\ ToSet(Append(before, s[m])) = ToSet(before) \cup {s[m]}
        /\ Sorted(s) => Sorted(Append(before, s[m]))
    BY <1>9, <1>11, <2>3, Added
  <2>5. Len(before) + 1 <= m
    BY <1>8, <1>9
  <2> HIDE DEF Part
  <2> QED BY <1>9, <2>1, <2>2, <2>4, <2>5
<1> QED BY <1>12, <1>13

(* The messages that events commit.                                        *)
LEMMA MessagesType ==
  ASSUME NEW events \in Seq(Events)
  PROVE  /\ MessagesOf(events) \in Seq(MessageSet) /\ Len(MessagesOf(events)) = Len(events)
         /\ \A i \in 1..Len(events) :
              MessagesOf(events)[i] =
                IF events[i].kind = "EffectCommitted" THEN events[i].message ELSE NoInput
<1> DEFINE message(i) == IF events[i].kind = "EffectCommitted" THEN events[i].message ELSE NoInput
<1>1. Len(events) \in Nat /\ DOMAIN events = 1..Len(events)
      /\ \A i \in 1..Len(events) : events[i] \in Events
  BY LenProperties, ElementOfSeq
<1>2. \A i \in 1..Len(events) : message(i) \in MessageSet
  BY <1>1, DefaultType DEF Events, MarkerKinds, EndKinds
<1>3. MessagesOf(events) = [i \in 1..Len(events) |-> message(i)]
  BY <1>1 DEF MessagesOf
<1> HIDE DEF message
<1>4. MessagesOf(events) \in [1..Len(events) -> MessageSet]
  BY <1>2, <1>3
<1>5. MessagesOf(events) \in Seq(MessageSet) /\ Len(MessagesOf(events)) = Len(events)
  <2>1. MessagesOf(events) \in Seq(MessageSet)
    BY <1>1, <1>4, SeqDef
  <2> QED BY <1>1, <1>4, <2>1, LenProperties
<1> QED BY <1>3, <1>5 DEF message

LEMMA MessagesOfCommits ==
  ASSUME NEW messages \in Seq(MessageSet)
  PROVE  MessagesOf(Commits(messages)) = messages
<1> DEFINE events == Commits(messages)
<1>1. events \in Seq(Events) /\ Len(events) = Len(messages)
      /\ \A i \in 1..Len(messages) : events[i] = Committed(messages[i])
  <2>1. DOMAIN messages = 1..Len(messages) /\ Len(messages) \in Nat
    BY LenProperties
  <2>2. events \in Seq(Events)
    BY CommitsType
  <2>3. events = [i \in 1..Len(messages) |-> Committed(messages[i])]
    BY <2>1 DEF Commits
  <2>4. DOMAIN events = 1..Len(messages) /\ DOMAIN events = 1..Len(events) /\ Len(events) \in Nat
    BY <2>2, <2>3, LenProperties
  <2>5. Len(events) = Len(messages)
    BY <2>1, <2>4
  <2> QED BY <2>2, <2>3, <2>5
<1> HIDE DEF events
<1>2. MessagesOf(events) \in Seq(MessageSet) /\ Len(MessagesOf(events)) = Len(messages)
  BY <1>1, MessagesType
<1>3. \A i \in 1..Len(messages) : MessagesOf(events)[i] = messages[i]
  <2> TAKE i \in 1..Len(messages)
  <2>1. i \in 1..Len(events) /\ events[i] = Committed(messages[i])
    BY <1>1
  <2>2. MessagesOf(events)[i] =
          IF events[i].kind = "EffectCommitted" THEN events[i].message ELSE NoInput
    BY <1>1, <2>1, MessagesType
  <2> QED BY <2>1, <2>2 DEF Committed
<1>4. MessagesOf(events) = messages
  BY <1>2, <1>3, SeqEqual
<1> QED BY <1>4 DEF events

LEMMA MessagesOfTail ==
  ASSUME NEW events \in Seq(Events), events # <<>>
  PROVE  LET m == IF Head(events).kind = "EffectCommitted" THEN Head(events).message ELSE NoInput
         IN  /\ m \in MessageSet /\ MessagesOf(Tail(events)) \in Seq(MessageSet)
             /\ MessagesOf(events) = <<m>> \o MessagesOf(Tail(events))
<1> DEFINE m == IF Head(events).kind = "EffectCommitted" THEN Head(events).message ELSE NoInput
           s == MessagesOf(events)
           t == MessagesOf(Tail(events))
<1>1. /\ Head(events) = events[1] /\ Len(events) \in Nat \ {0}
      /\ Tail(events) \in Seq(Events) /\ Len(Tail(events)) = Len(events) - 1
      /\ \A i \in 1..Len(Tail(events)) : Tail(events)[i] = events[i + 1]
  BY TailType
<1>2. s \in Seq(MessageSet) /\ Len(s) = Len(events) /\ s[1] = m
  BY <1>1, MessagesType
<1>3. t \in Seq(MessageSet) /\ Len(t) = Len(events) - 1
  BY <1>1, MessagesType
<1>4. m \in MessageSet
  BY <1>1, <1>2, ElementOfSeq
<1>5. \A i \in 1..Len(t) : i + 1 \in 1..Len(events) /\ t[i] = s[i + 1]
  <2> TAKE i \in 1..Len(t)
  <2>1. i \in 1..Len(Tail(events)) /\ i + 1 \in 1..Len(events) /\ Tail(events)[i] = events[i + 1]
    BY <1>1, <1>3
  <2> QED BY <1>1, <2>1, MessagesType
<1> HIDE DEF m, s, t
<1> DEFINE u == <<m>> \o t
<1>6. /\ u \in Seq(MessageSet) /\ Len(u) = Len(s)
      /\ \A i \in 1..Len(s) : u[i] = IF i <= 1 THEN m ELSE t[i - 1]
  <2>1. <<m>> \in Seq(MessageSet) /\ Len(<<m>>) = 1 /\ <<m>>[1] = m
    BY <1>4
  <2>2. Len(<<m>>) + Len(t) = Len(s)
    BY <1>1, <1>2, <1>3, <2>1
  <2>3. \A i \in 1..Len(s) : i <= 1 => i = 1
    BY <1>1, <1>2
  <2> QED BY <1>3, <2>1, <2>2, <2>3, ConcatProperties
<1> HIDE DEF u
<1>7. \A i \in 1..Len(s) : u[i] = s[i]
  <2> TAKE i \in 1..Len(s)
  <2>1. CASE i = 1
    BY <1>2, <1>6, <2>1
  <2>2. CASE i # 1
    <3>1. i - 1 \in 1..Len(t) /\ ~(i <= 1) /\ (i - 1) + 1 = i
      BY <1>1, <1>2, <1>3, <2>2
    <3> QED BY <1>5, <1>6, <3>1
  <2> QED BY <2>1, <2>2
<1>8. u = s
  BY <1>2, <1>6, <1>7, SeqEqual
<1> QED BY <1>3, <1>4, <1>8 DEF m, s, t, u

(* Events that commit no queued message.                                   *)
Unqueued(events) ==
  \A i \in 1..Len(events) :
    events[i].kind = "EffectCommitted" => events[i].message.kind \notin QueuedKinds

LEMMA NoneQueued ==
  ASSUME NEW events \in Seq(Events), Unqueued(events)
  PROVE  /\ Queued(ToSet(MessagesOf(events))) = {} /\ Sorted(MessagesOf(events))
         /\ \A M : Ahead(M, ToSet(MessagesOf(events))) /\ Ahead(ToSet(MessagesOf(events)), M)
<1> DEFINE s == MessagesOf(events)
<1>1. s \in Seq(MessageSet) /\ Len(s) = Len(events) /\ \A i \in 1..Len(s) : s[i].kind \notin QueuedKinds
  BY MessagesType DEF Unqueued, NoInput, Message, QueuedKinds
<1>2. \A m \in ToSet(s) : m.kind \notin QueuedKinds
  BY <1>1, Elements
<1> HIDE DEF s
<1> QED BY <1>1, <1>2 DEF Queued, Sorted, Ahead, Precedes, s

-----------------------------------------------------------------------------
(* How a step moves queued messages.                                       *)
LEMMA LineTypes ==
  ASSUME TypeOK
  PROVE  /\ queuedLog \in Seq(MessageSet) /\ MessagesOf(todo) \in Seq(MessageSet)
         /\ held \in Seq(MessageSet) /\ followUp \in Seq(MessageSet)
         /\ steering \in Seq(MessageSet) /\ sent \in Seq(MessageSet)
         /\ SteeringMode \in QueueModes /\ FollowUpMode \in QueueModes
BY MessagesType, LoopAssumption DEF TypeOK

LEMMA NoMessages == MessagesOf(<<>>) = <<>>
<1>1. MessagesOf(<<>>) \in Seq(MessageSet) /\ Len(MessagesOf(<<>>)) = Len(<<>>) /\ Len(<<>>) = 0
  BY NoEvents, EmptySeq, MessagesType
<1> QED BY <1>1, EmptySeq

LEMMA QuietNone == ASSUME Quiet PROVE MessagesOf(todo) = <<>> /\ ToSet(MessagesOf(todo)) = {}
BY NoMessages, NothingSorted DEF Quiet

(* Nothing queued is left to record, and no queue changes: ...             *)
LEMMA NothingMoves ==
  ASSUME TypeOK, MInv, TypeOK', Quiet, Unqueued(todo'),
         UNCHANGED <<queuedLog, held, followUp, steering, sent, dropped>>,
         input'.kind \notin QueuedKinds, Between'
  PROVE  MInv'
<1> DEFINE t == MessagesOf(todo)
           u == MessagesOf(todo')
<1>1. t = <<>> /\ ToSet(t) = {}
  BY QuietNone
<1>2. Queued(ToSet(u)) = {} /\ Sorted(u) /\ \A M : Ahead(M, ToSet(u)) /\ Ahead(ToSet(u), M)
  BY NoneQueued DEF TypeOK
<1> HIDE DEF t, u
<1>3. Line(queuedLog, t, held, followUp, steering) /\ Kinds /\ Placed
  BY DEF MInv, t
<1>4. Line(queuedLog, u, held, followUp, steering)
  BY <1>1, <1>2, <1>3 DEF Line, Ahead
<1>5. Kinds'
  BY <1>3 DEF Kinds
<1>6. Queued(ToSet(t)) = {}
  BY <1>1 DEF Queued
<1>7. Places(queuedLog, u, held, followUp, steering) = Places(queuedLog, t, held, followUp, steering)
  BY <1>2, <1>6 DEF Places
<1>8. Placed'
  BY <1>3, <1>7 DEF Placed, t, u
<1> QED BY <1>4, <1>5, <1>8 DEF MInv, u

(* ... the driver goes on from where no user input waits, ...              *)
LEMMA GoesOn ==
  ASSUME TypeOK, MInv, TypeOK', Quiet, Unqueued(todo'),
         UNCHANGED <<queuedLog, held, followUp, steering, sent, dropped>>,
         input'.kind \notin QueuedKinds,
         pc \notin {"prepend", "error", "ending", "finish"}, pc' # "prepend",
         followUp = <<>> \/ pc # "follow" \/ decision # "Stop"
  PROVE  MInv'
<1>1. held = <<>>
  BY DEF MInv, Between
<1>2. ModesKeepOrder => \A i \in 1..Len(followUp) : followUp[i].kind # "userInput"
  <2>1. followUp = <<>> => Len(followUp) = 0
    BY EmptySeq
  <2> QED BY <2>1 DEF MInv, Between
<1>3. Between'
  BY <1>1, <1>2 DEF MInv, Between, ModesKeepOrder
<1> QED BY <1>3, NothingMoves

(* ... or it fails on the events it had left.                              *)
LEMMA FailsOn ==
  ASSUME TypeOK, MInv, TypeOK', ~Quiet, todo' = <<>>,
         UNCHANGED <<queuedLog, held, followUp, steering, sent, input>>, dropped' = TRUE,
         pc' \in {"error", "finish"}
  PROVE  MInv'
<1> DEFINE t == MessagesOf(todo)
           u == MessagesOf(todo')
<1>1. ToSet(u) = {} /\ Sorted(u)
  BY NoMessages, NothingSorted
<1> HIDE DEF t, u
<1>2. Line(queuedLog, t, held, followUp, steering) /\ Kinds /\ Placed /\ Between
  BY DEF MInv, t
<1>3. Line(queuedLog, u, held, followUp, steering)
  BY <1>1, <1>2 DEF Line, Ahead
<1>4. Kinds'
  BY <1>2 DEF Kinds
<1>5. Places(queuedLog, u, held, followUp, steering) \subseteq Places(queuedLog, t, held, followUp, steering)
  BY <1>1 DEF Places, Queued
<1>6. Placed'
  BY <1>2, <1>5 DEF Placed, t, u
<1>7. Between'
  BY <1>2 DEF Between, ModesKeepOrder, Quiet
<1> QED BY <1>3, <1>4, <1>6, <1>7 DEF MInv, u

(* Every part of the line is one of queued messages.                       *)
LEMMA KindsOf ==
  ASSUME TypeOK, Kinds
  PROVE  /\ \A m \in ToSet(queuedLog) \cup ToSet(held) \cup ToSet(followUp) \cup ToSet(steering) :
              m.kind \in QueuedKinds
         /\ \A m \in ToSet(sent) : m.kind \in QueuedKinds /\ m.n \in Nat /\ m.n <= Len(sent)
<1>1. sent \in Seq(MessageSet) /\ Len(sent) \in Nat
  BY LineTypes, Elements
<1>2. \A m \in ToSet(sent) : m.kind \in QueuedKinds /\ m.n \in Nat /\ m.n <= Len(sent)
  <2>1. \A i \in 1..Len(sent) : sent[i].kind \in QueuedKinds /\ sent[i].n = i
    BY DEF Kinds
  <2>2. \A m \in ToSet(sent) : \E i \in 1..Len(sent) : sent[i] = m
    BY <1>1, Elements
  <2> QED BY <1>1, <2>1, <2>2
<1> QED BY <1>2 DEF Kinds, QueuedKinds

(* Steering that is drained goes to the transcript before everything that  *)
(* waits: the follow-up queue holds no message sent the same way.          *)
LEMMA SteeringGoes ==
  ASSUME TypeOK, MInv, TypeOK', Quiet,
         todo' = Commits(Drained(steering, SteeringMode)),
         steering' = Remaining(steering, SteeringMode),
         UNCHANGED <<queuedLog, held, followUp, sent, dropped>>,
         input'.kind \notin QueuedKinds,
         pc \in {"begin", "steer"}, pc' \in {"beginSteer", "loop"}
  PROVE  MInv'
<1> DEFINE d == Drained(steering, SteeringMode)
           r == Remaining(steering, SteeringMode)
           u == MessagesOf(todo')
<1>1. /\ queuedLog \in Seq(MessageSet) /\ followUp \in Seq(MessageSet) /\ held = <<>>
      /\ steering \in Seq(MessageSet) /\ MessagesOf(todo) = <<>>
  BY LineTypes, QuietNone DEF MInv, Between
<1>2. d \in Seq(MessageSet) /\ r \in Seq(MessageSet) /\ d \o r = steering
  BY <1>1, LineTypes, DrainSplits
<1>3. u = d
  BY <1>2, MessagesOfCommits
<1> HIDE DEF d, r, u
<1>4. /\ ToSet(steering) = ToSet(d) \cup ToSet(r)
      /\ Sorted(steering) => Sorted(d) /\ Sorted(r) /\ Ahead(ToSet(d), ToSet(r))
  BY <1>2, Joined
<1>5. Line(queuedLog, <<>>, <<>>, followUp, steering) /\ Kinds /\ Between /\ Placed
  BY <1>1 DEF MInv
<1>6. Ahead(ToSet(d), ToSet(followUp))
  <2> SUFFICES ASSUME NEW m \in ToSet(d), NEW k \in ToSet(followUp) PROVE Precedes(m, k)
    BY DEF Ahead
  <2>1. Precedes(k, m)
    BY <1>4, <1>5 DEF Line, Ahead
  <2>2. m.kind \in {"userInput", "observation"} /\ k.kind \in {"userInput", "followUp"}
    BY <1>4, <1>5 DEF Kinds
  <2>3. ModesKeepOrder => k.kind # "userInput"
    BY <1>1, <1>5, Elements DEF Between
  <2> QED BY <2>1, <2>2, <2>3 DEF Precedes, QueuedKinds
<1>7. Line(queuedLog, d, <<>>, followUp, r)
  BY <1>4, <1>5, <1>6, NothingSorted DEF Line, Ahead
<1>8. Kinds'
  BY <1>4, <1>5 DEF Kinds, r
<1>9. Places(queuedLog, d, <<>>, followUp, r) = Places(queuedLog, <<>>, <<>>, followUp, steering)
  <2>1. Queued(ToSet(d)) = ToSet(d) /\ Queued(ToSet(<<>>)) = {}
    BY <1>4, <1>5, KindsOf, NothingSorted DEF Queued
  <2> QED BY <1>4, <2>1, NothingSorted DEF Places
<1>10. Placed'
  BY <1>1, <1>3, <1>5, <1>9 DEF Placed, u, r
<1>11. Between'
  BY <1>1, <1>5, NothingSorted DEF Between, ModesKeepOrder
<1> QED BY <1>1, <1>3, <1>7, <1>8, <1>10, <1>11 DEF MInv, u, r

(* At a stop the observations go, and the user inputs are held.            *)
LEMMA SteeringStops == ASSUME TypeOK, MInv, TypeOK', SteeringAtStop PROVE MInv'
<1> DEFINE d == Drained(steering, SteeringMode)
           r == Remaining(steering, SteeringMode)
           o == OfKind(d, "observation")
           h == OfKind(d, "userInput")
           u == MessagesOf(todo')
<1>1. /\ Quiet /\ pc = "steer" /\ decision = "Stop" /\ decision' = decision /\ pc' = "prepend"
      /\ todo' = Commits(o) /\ held' = h /\ steering' = r /\ input' = input
      /\ UNCHANGED <<followUp, sent, queuedLog, dropped>>
  BY DEF SteeringAtStop, cursor, history
<1>2. /\ queuedLog \in Seq(MessageSet) /\ followUp \in Seq(MessageSet) /\ held = <<>>
      /\ steering \in Seq(MessageSet) /\ MessagesOf(todo) = <<>> /\ SteeringMode \in QueueModes
  BY <1>1, LineTypes, QuietNone DEF MInv, Between
<1>3. /\ d \in Seq(MessageSet) /\ r \in Seq(MessageSet) /\ d \o r = steering
      /\ SteeringMode # "All" => Len(d) <= 1
  BY <1>2, DrainSplits
<1> HIDE DEF d, r
<1>4. ASSUME NEW kind
      PROVE  /\ OfKind(d, kind) \in Seq(MessageSet) /\ Len(OfKind(d, kind)) <= Len(d)
             /\ ToSet(OfKind(d, kind)) = {m \in ToSet(d) : m.kind = kind}
             /\ Sorted(d) => Sorted(OfKind(d, kind))
  <2> DEFINE stays == {m \in ToSet(d) : m.kind = kind}
  <2>1. ToSet(d) \cap stays = stays
    OBVIOUS
  <2> HIDE DEF stays
  <2>2. /\ Kept(d, stays) \in Seq(MessageSet) /\ Len(Kept(d, stays)) <= Len(d)
        /\ ToSet(Kept(d, stays)) = stays
        /\ Sorted(d) => Sorted(Kept(d, stays))
    BY <1>3, <2>1, KeptOf
  <2>3. OfKind(d, kind) = Kept(d, stays) /\ stays = {m \in ToSet(d) : m.kind = kind}
    BY DEF OfKind, stays
  <2> QED BY <2>2, <2>3
<1>5. u = o
  BY <1>1, <1>4, MessagesOfCommits
<1>6. o \in Seq(MessageSet) /\ h \in Seq(MessageSet) /\ Len(h) <= Len(d) /\ Len(d) \in Nat /\ Len(h) \in Nat
  BY <1>3, <1>4, Elements
<1>7. /\ ToSet(o) = {m \in ToSet(d) : m.kind = "observation"}
      /\ ToSet(h) = {m \in ToSet(d) : m.kind = "userInput"}
      /\ Sorted(d) => Sorted(o) /\ Sorted(h)
  BY <1>4
<1> HIDE DEF o, h, u
<1>8. /\ ToSet(steering) = ToSet(d) \cup ToSet(r)
      /\ Sorted(steering) => Sorted(d) /\ Sorted(r) /\ Ahead(ToSet(d), ToSet(r))
  BY <1>3, Joined
<1>9. Line(queuedLog, <<>>, <<>>, followUp, steering) /\ Kinds /\ Between /\ Placed
  BY <1>2 DEF MInv
<1>10. ToSet(d) = ToSet(o) \cup ToSet(h)
  BY <1>7, <1>8, <1>9 DEF Kinds
<1>11. Ahead(ToSet(o), ToSet(h) \cup ToSet(followUp))
  <2>1. /\ \A m \in ToSet(o) : m.kind = "observation"
        /\ \A k \in ToSet(h) \cup ToSet(followUp) : k.kind \in {"userInput", "followUp"}
    BY <1>7, <1>9 DEF Kinds
  <2> QED BY <2>1 DEF Ahead, Precedes
<1>12. Ahead(ToSet(h), ToSet(followUp))
  <2> SUFFICES ASSUME NEW m \in ToSet(h), NEW k \in ToSet(followUp) PROVE Precedes(m, k)
    BY DEF Ahead
  <2>1. Precedes(k, m)
    BY <1>8, <1>9, <1>10 DEF Line, Ahead
  <2>2. m.kind = "userInput" /\ k.kind \in {"userInput", "followUp"}
    BY <1>7, <1>9 DEF Kinds
  <2>3. ModesKeepOrder => k.kind # "userInput"
    BY <1>1, <1>2, <1>9, Elements DEF Between
  <2> QED BY <2>1, <2>2, <2>3 DEF Precedes, QueuedKinds
<1>13. Line(queuedLog, o, h, followUp, r)
  BY <1>7, <1>8, <1>9, <1>10, <1>11, <1>12 DEF Line, Ahead
<1>14. Kinds'
  BY <1>1, <1>7, <1>8, <1>9 DEF Kinds
<1>15. Places(queuedLog, o, h, followUp, r) = Places(queuedLog, <<>>, <<>>, followUp, steering)
  <2>1. Queued(ToSet(o)) = ToSet(o) /\ Queued(ToSet(<<>>)) = {}
    BY <1>8, <1>9, <1>10, KindsOf, NothingSorted DEF Queued
  <2> QED BY <1>8, <1>10, <2>1, NothingSorted DEF Places
<1>16. Placed'
  BY <1>1, <1>2, <1>5, <1>9, <1>15 DEF Placed, u
<1>17. Between'
  BY <1>1, <1>2, <1>3, <1>6, <1>9 DEF Between, ModesKeepOrder
<1> QED BY <1>1, <1>5, <1>13, <1>14, <1>16, <1>17 DEF MInv, u

(* What was held goes before the follow-ups.                               *)
LEMMA HeldIsPrepended == ASSUME TypeOK, MInv, TypeOK', PrependHeld PROVE MInv'
<1> DEFINE f == held \o followUp
<1>1. /\ Quiet /\ todo' = todo /\ pc = "prepend" /\ pc' = "follow" /\ decision' = decision
      /\ followUp' = f /\ held' = <<>> /\ input' = input
      /\ UNCHANGED <<steering, sent, queuedLog, dropped>>
  BY DEF PrependHeld, Prepended, cursor, history
<1>2. /\ queuedLog \in Seq(MessageSet) /\ followUp \in Seq(MessageSet) /\ held \in Seq(MessageSet)
      /\ steering \in Seq(MessageSet) /\ MessagesOf(todo) = <<>> /\ MessagesOf(todo') = <<>>
      /\ SteeringMode \in QueueModes /\ FollowUpMode \in QueueModes /\ decision = "Stop" /\ Quiet'
  BY <1>1, LineTypes, QuietNone DEF MInv, Between, Quiet
<1>3. Line(queuedLog, <<>>, held, followUp, steering) /\ Kinds /\ Between /\ Placed
  BY <1>2 DEF MInv
<1>4. /\ ToSet(f) = ToSet(held) \cup ToSet(followUp)
      /\ Sorted(held) /\ Sorted(followUp) /\ Ahead(ToSet(held), ToSet(followUp)) => Sorted(f)
      /\ \A i \in 1..Len(followUp) : f[Len(held) + i] = followUp[i]
      /\ \A i \in 1..Len(f) : i \in 1..Len(held) \/ i - Len(held) \in 1..Len(followUp)
  BY <1>2, Joined
<1>5. Len(held) \in Nat /\ Len(f) \in Nat
  BY <1>2, Elements, Joined
<1> HIDE DEF f
<1>6. Line(queuedLog, <<>>, <<>>, f, steering)
  BY <1>3, <1>4, NothingSorted DEF Line, Ahead
<1>7. Kinds'
  BY <1>1, <1>3, <1>4, NothingSorted DEF Kinds
<1>8. Places(queuedLog, <<>>, <<>>, f, steering) = Places(queuedLog, <<>>, held, followUp, steering)
  BY <1>4, NothingSorted DEF Places
<1>9. Placed'
  BY <1>1, <1>2, <1>3, <1>8 DEF Placed
<1>10. ASSUME ModesKeepOrder, NEW i \in 1..Len(f), f[i].kind = "userInput"
       PROVE  FollowUpMode = "All" \/ i = 1
  <2>1. i \in 1..Len(held)
    <3>1. CASE i - Len(held) \in 1..Len(followUp)
      <4>1. f[i] = followUp[i - Len(held)]
        <5>1. Len(held) + (i - Len(held)) = i
          BY <1>5
        <5> QED BY <1>4, <3>1, <5>1
      <4> QED BY <1>1, <1>3, <1>10, <3>1, <4>1 DEF Between
    <3> QED BY <1>4, <3>1
  <2>2. FollowUpMode # "All" => SteeringMode # "All"
    BY <1>2, <1>10 DEF ModesKeepOrder, QueueModes
  <2>3. FollowUpMode # "All" => Len(held) <= 1
    BY <1>3, <2>2 DEF Between
  <2> QED BY <1>5, <2>1, <2>3
<1>11. Between'
  <2>1. Len(<<>>) = 0
    BY EmptySeq
  <2> QED BY <1>1, <1>2, <1>10, <2>1 DEF Between, ModesKeepOrder
<1> QED BY <1>1, <1>2, <1>6, <1>7, <1>9, <1>11 DEF MInv

(* Follow-ups go; only the first of them was a prepended user input, or    *)
(* all of them go.                                                         *)
LEMMA FollowUpsGo == ASSUME TypeOK, MInv, TypeOK', TurnAfterStop PROVE MInv'
<1> DEFINE d == Drained(followUp, FollowUpMode)
           r == Remaining(followUp, FollowUpMode)
           u == MessagesOf(todo')
<1>1. /\ Quiet /\ pc = "follow" /\ decision = "Stop" /\ pc' = "loop" /\ input' = NoInput
      /\ todo' = Commits(d) /\ followUp' = r
      /\ UNCHANGED <<steering, held, sent, queuedLog, dropped>>
  BY DEF TurnAfterStop, AnotherTurn
<1>2. /\ queuedLog \in Seq(MessageSet) /\ followUp \in Seq(MessageSet) /\ held = <<>>
      /\ steering \in Seq(MessageSet) /\ MessagesOf(todo) = <<>> /\ FollowUpMode \in QueueModes
  BY <1>1, LineTypes, QuietNone DEF MInv, Between
<1>3. /\ d \in Seq(MessageSet) /\ r \in Seq(MessageSet) /\ d \o r = followUp
      /\ FollowUpMode = "All" => r = <<>>
      /\ followUp # <<>> => Len(d) >= 1
  BY <1>2, DrainSplits
<1>4. u = d
  BY <1>1, <1>3, MessagesOfCommits
<1> HIDE DEF d, r, u
<1>5. /\ ToSet(followUp) = ToSet(d) \cup ToSet(r) /\ Len(followUp) = Len(d) + Len(r)
      /\ Sorted(followUp) => Sorted(d) /\ Sorted(r) /\ Ahead(ToSet(d), ToSet(r))
      /\ \A i \in 1..Len(r) : followUp[Len(d) + i] = r[i]
  BY <1>3, Joined
<1>6. Line(queuedLog, <<>>, <<>>, followUp, steering) /\ Kinds /\ Between /\ Placed
  BY <1>2 DEF MInv
<1>7. Line(queuedLog, d, <<>>, r, steering)
  BY <1>5, <1>6, NothingSorted DEF Line, Ahead
<1>8. Kinds'
  <2>1. input'.kind \notin QueuedKinds
    BY <1>1 DEF NoInput, Message, QueuedKinds
  <2> QED BY <1>1, <1>5, <1>6, <2>1 DEF Kinds
<1>9. Places(queuedLog, d, <<>>, r, steering) = Places(queuedLog, <<>>, <<>>, followUp, steering)
  <2>1. Queued(ToSet(d)) = ToSet(d) /\ Queued(ToSet(<<>>)) = {}
    BY <1>5, <1>6, KindsOf, NothingSorted DEF Queued
  <2> QED BY <1>5, <2>1, NothingSorted DEF Places
<1>10. Placed'
  BY <1>1, <1>2, <1>4, <1>6, <1>9 DEF Placed, u
<1>11. ASSUME ModesKeepOrder, NEW i \in 1..Len(r)
       PROVE  r[i].kind # "userInput"
  <2>1. Len(d) \in Nat /\ Len(r) \in Nat /\ (r = <<>> <=> Len(r) = 0) /\ (followUp = <<>> <=> Len(followUp) = 0)
    BY <1>2, <1>3, Elements
  <2>2. Len(d) + i \in 1..Len(followUp) /\ Len(d) + i # 1 /\ FollowUpMode # "All"
    BY <1>3, <1>5, <2>1
  <2> QED BY <1>5, <1>6, <1>11, <2>2 DEF Between
<1>12. Between'
  BY <1>1, <1>2, <1>11, NothingSorted, EmptySeq DEF Between, ModesKeepOrder
<1> QED BY <1>1, <1>2, <1>4, <1>7, <1>8, <1>10, <1>12 DEF MInv, u

(* An event is recorded: what it commits moves to the transcript.          *)
LEMMA RecordMoves == ASSUME IInv, MInv, Record PROVE MInv'
<1> DEFINE e == Head(todo)
           m == IF e.kind = "EffectCommitted" THEN e.message ELSE NoInput
           rest == MessagesOf(Tail(todo))
<1>1. /\ todo # <<>> /\ todo \in Seq(Events) /\ TypeOK' /\ TypeOK /\ ~Quiet
      /\ UNCHANGED <<sent, held, followUp, steering, input, decision>>
      /\ queuedLog' = IF e.kind = "EffectCommitted" /\ e.message.kind \in QueuedKinds
                      THEN Append(queuedLog, e.message) ELSE queuedLog
      /\ \/ todo' = Tail(todo) /\ pc' = pc /\ dropped' = dropped
         \/ FailsTo /\ dropped' = TRUE
  <2>1. UNCHANGED <<cursor, queues>> /\ IInv
    BY RecordEffect
  <2> QED BY <2>1, RecordEffect DEF Goes, cursor, queues, IInv, Quiet
<1>2. m \in MessageSet /\ rest \in Seq(MessageSet) /\ MessagesOf(todo) = <<m>> \o rest
  BY <1>1, MessagesOfTail
<1>3. queuedLog' = IF m.kind \in QueuedKinds THEN Append(queuedLog, m) ELSE queuedLog
  BY <1>1 DEF NoInput, Message, QueuedKinds
<1> HIDE DEF e, m, rest
<1>4. /\ queuedLog \in Seq(MessageSet) /\ queuedLog' \in Seq(MessageSet)
      /\ held \in Seq(MessageSet) /\ followUp \in Seq(MessageSet) /\ steering \in Seq(MessageSet)
  BY <1>1 DEF TypeOK
<1>5. <<m>> \in Seq(MessageSet) /\ ToSet(<<m>>) = {m}
  <2>1. <<>> \in Seq(MessageSet) /\ Append(<<>>, m) = <<m>>
    BY <1>2, EmptySeq
  <2>2. ToSet(Append(<<>>, m)) = ToSet(<<>>) \cup {m} /\ Append(<<>>, m) \in Seq(MessageSet)
    BY <1>2, <2>1, Added
  <2> QED BY <2>1, <2>2, NothingSorted
<1>6. /\ ToSet(MessagesOf(todo)) = {m} \cup ToSet(rest)
      /\ Sorted(MessagesOf(todo)) => Sorted(rest) /\ Ahead({m}, ToSet(rest))
  BY ZenonT(60), <1>2, <1>5, Joined
<1>7. Line(queuedLog, MessagesOf(todo), held, followUp, steering) /\ Kinds /\ Between /\ Placed
  BY DEF MInv
<1>8. ToSet(queuedLog') = ToSet(queuedLog) \cup Queued({m}) /\ Sorted(queuedLog')
  <2>1. CASE m.kind \in QueuedKinds
    <3>1. Ahead(ToSet(queuedLog), {m}) /\ Sorted(queuedLog)
      BY <1>6, <1>7 DEF Line, Ahead
    <3>2. Queued({m}) = {m}
      BY <2>1 DEF Queued
    <3> QED BY <1>2, <1>3, <1>4, <2>1, <3>1, <3>2, Added
  <2>2. CASE m.kind \notin QueuedKinds
    BY <1>3, <1>7, <2>2 DEF Queued, Line
  <2> QED BY <2>1, <2>2
<1>9. Line(queuedLog', rest, held, followUp, steering)
  <2>1. \A k \in Queued({m}) : k = m
    BY DEF Queued
  <2> QED BY <1>6, <1>7, <1>8, <2>1 DEF Line, Ahead
<1>10. Kinds'
  <2>1. \A k \in Queued({m}) : k.kind \in QueuedKinds
    BY DEF Queued
  <2> QED BY <1>1, <1>7, <1>8, <2>1 DEF Kinds
<1>11. Places(queuedLog', rest, held, followUp, steering)
         = Places(queuedLog, MessagesOf(todo), held, followUp, steering)
  BY <1>6, <1>8 DEF Places, Queued
<1>12. CASE todo' = Tail(todo) /\ pc' = pc /\ dropped' = dropped
  <2>1. MessagesOf(todo') = rest
    BY <1>12 DEF rest
  <2>2. Placed'
    BY <1>1, <1>7, <1>11, <1>12, <2>1 DEF Placed
  <2>3. Between'
    BY <1>1, <1>7, <1>12 DEF Between, ModesKeepOrder
  <2> QED BY <1>1, <1>9, <1>10, <2>1, <2>2, <2>3 DEF MInv
<1>13. CASE FailsTo /\ dropped' = TRUE
  <2>1. todo' = <<>> /\ pc' \in {"finish", "error"} /\ ToSet(MessagesOf(todo')) = {} /\ Sorted(MessagesOf(todo'))
    BY <1>13, NoMessages, NothingSorted DEF FailsTo
  <2>2. Line(queuedLog', MessagesOf(todo'), held, followUp, steering)
    BY <1>9, <2>1 DEF Line, Ahead
  <2>3. Places(queuedLog', MessagesOf(todo'), held, followUp, steering)
          \subseteq Places(queuedLog', rest, held, followUp, steering)
    BY <2>1 DEF Places, Queued
  <2>4. Placed'
    BY <1>1, <1>7, <1>11, <1>13, <2>3 DEF Placed
  <2>5. Between'
    BY <1>1, <1>7, <1>13, <2>1 DEF Between, ModesKeepOrder
  <2> QED BY <1>1, <1>10, <2>2, <2>4, <2>5 DEF MInv
<1> QED BY <1>1, <1>12, <1>13

(* A run ends: a user input is lost if a listener failed while it was held.*)
LEMMA FinishDrops == ASSUME TypeOK, MInv, TypeOK', FinishRun PROVE MInv'
<1>1. /\ pc \in {"ending", "paused", "finish"} /\ pc' = "idle" /\ Quiet /\ held' = <<>>
      /\ UNCHANGED <<todo, input, decision, steering, followUp, sent, queuedLog, dropped>>
  BY DEF FinishRun, cursor, history
<1>2. /\ Line(queuedLog, MessagesOf(todo), held, followUp, steering) /\ Kinds /\ Between /\ Placed
      /\ held # <<>> => dropped
  BY <1>1 DEF MInv, Between
<1>3. Line(queuedLog, MessagesOf(todo), <<>>, followUp, steering)
  BY <1>2, NothingSorted DEF Line, Ahead
<1>4. Kinds'
  BY <1>1, <1>2, NothingSorted DEF Kinds
<1>5. /\ Places(queuedLog, MessagesOf(todo), <<>>, followUp, steering)
           \subseteq Places(queuedLog, MessagesOf(todo), held, followUp, steering)
      /\ held = <<>> => Places(queuedLog, MessagesOf(todo), <<>>, followUp, steering)
                          = Places(queuedLog, MessagesOf(todo), held, followUp, steering)
  BY NothingSorted DEF Places
<1>6. Placed'
  BY <1>1, <1>2, <1>5 DEF Placed
<1>7. Between'
  BY <1>1, <1>2, EmptySeq DEF Between, ModesKeepOrder
<1> QED BY <1>1, <1>3, <1>4, <1>6, <1>7 DEF MInv

LEMMA ResetDrops == ASSUME TypeOK, MInv, TypeOK', Reset PROVE MInv'
<1>1. /\ steering' = <<>> /\ followUp' = <<>> /\ dropped' = TRUE
      /\ UNCHANGED <<pc, todo, input, decision, held, sent, queuedLog>>
  BY DEF Reset, control, cursor
<1>2. Line(queuedLog, MessagesOf(todo), held, followUp, steering) /\ Kinds /\ Between /\ Placed
  BY DEF MInv
<1>3. Line(queuedLog, MessagesOf(todo), held, <<>>, <<>>)
  BY <1>2, NothingSorted DEF Line, Ahead
<1>4. Kinds'
  BY <1>1, <1>2, NothingSorted DEF Kinds
<1>5. Places(queuedLog, MessagesOf(todo), held, <<>>, <<>>)
        \subseteq Places(queuedLog, MessagesOf(todo), held, followUp, steering)
  BY NothingSorted DEF Places
<1>6. Placed'
  BY <1>1, <1>2, <1>5 DEF Placed
<1>7. Between'
  <2>1. Len(<<>>) = 0
    BY EmptySeq
  <2> QED BY <1>1, <1>2, <2>1 DEF Between, ModesKeepOrder
<1> QED BY <1>1, <1>3, <1>4, <1>6, <1>7 DEF MInv

(* A new message has a number of its own, above all others.                *)
LEMMA MessageComes ==
  ASSUME TypeOK, MInv, TypeOK', NEW kind \in QueuedKinds,
         sent' = Append(sent, Message(kind, 0, Len(sent) + 1, <<>>)),
         \/ /\ kind \in {"observation", "userInput"} /\ followUp' = followUp
            /\ steering' = Append(steering, Message(kind, 0, Len(sent) + 1, <<>>))
         \/ /\ kind = "followUp" /\ steering' = steering
            /\ followUp' = Append(followUp, Message(kind, 0, Len(sent) + 1, <<>>)),
         UNCHANGED <<pc, todo, input, decision, held, queuedLog, dropped>>
  PROVE  MInv'
<1> DEFINE m == Message(kind, 0, Len(sent) + 1, <<>>)
           t == MessagesOf(todo)
<1>1. /\ queuedLog \in Seq(MessageSet) /\ t \in Seq(MessageSet)
      /\ held \in Seq(MessageSet) /\ followUp \in Seq(MessageSet)
      /\ steering \in Seq(MessageSet) /\ sent \in Seq(MessageSet) /\ Len(sent) \in Nat
  BY LineTypes, Elements
<1>2. m \in MessageSet /\ m.kind = kind /\ m.n = Len(sent) + 1
  <2>1. 0 \in 0..MaxRuns /\ Len(sent) + 1 \in Nat
    BY <1>1, LoopAssumption
  <2> QED BY <2>1, MessageType, NoneType DEF MessageKinds, Message
<1>3. /\ sent' = Append(sent, m)
      /\ \/ /\ kind \in {"observation", "userInput"} /\ followUp' = followUp
            /\ steering' = Append(steering, m)
         \/ /\ kind = "followUp" /\ steering' = steering /\ followUp' = Append(followUp, m)
  OBVIOUS
<1> HIDE DEF m, t
<1>4. Line(queuedLog, t, held, followUp, steering) /\ Kinds /\ Between
      /\ Places(queuedLog, t, held, followUp, steering) \subseteq ToSet(sent)
      /\ (~dropped => ToSet(sent) \subseteq Places(queuedLog, t, held, followUp, steering))
  BY DEF MInv, Placed, t
<1>5. \A k \in ToSet(sent) : Precedes(k, m)
  <2>1. \A k \in ToSet(sent) : k.n < m.n
    BY <1>1, <1>2, <1>4, KindsOf
  <2> QED BY <1>1, <1>2, <2>1 DEF Precedes
<1>6. /\ Ahead(ToSet(queuedLog), {m}) /\ Ahead(ToSet(held), {m})
      /\ Ahead(ToSet(followUp), {m}) /\ Ahead(ToSet(steering), {m})
  BY <1>4, <1>5 DEF Places, Ahead
<1>7. Ahead(ToSet(t), {m})
  <2> SUFFICES ASSUME NEW k \in ToSet(t) PROVE Precedes(k, m)
    BY DEF Ahead
  <2>1. CASE k.kind \in QueuedKinds
    BY <1>4, <1>5, <2>1 DEF Places, Queued
  <2>2. CASE k.kind \notin QueuedKinds
    BY <2>2 DEF Precedes
  <2> QED BY <2>1, <2>2
<1>8. /\ Sorted(steering) => Sorted(Append(steering, m))
      /\ Sorted(followUp) => Sorted(Append(followUp, m))
      /\ ToSet(Append(steering, m)) = ToSet(steering) \cup {m}
      /\ ToSet(Append(followUp, m)) = ToSet(followUp) \cup {m}
      /\ ToSet(sent') = ToSet(sent) \cup {m}
  BY <1>1, <1>2, <1>3, <1>6, Added
<1>9. kind = "followUp" => Ahead({m}, ToSet(steering))
  BY <1>2, <1>4 DEF Kinds, Ahead, Precedes
<1>10. Line(queuedLog, t, held, followUp', steering')
  <2>1. CASE steering' = Append(steering, m) /\ followUp' = followUp
    BY <1>4, <1>6, <1>7, <1>8, <2>1 DEF Line, Ahead
  <2>2. CASE kind = "followUp" /\ steering' = steering /\ followUp' = Append(followUp, m)
    BY <1>4, <1>6, <1>7, <1>8, <1>9, <2>2 DEF Line, Ahead
  <2> QED BY <1>3, <2>1, <2>2
<1>11. Kinds'
  <2>1. ASSUME NEW i \in 1..Len(sent') PROVE sent'[i].kind \in QueuedKinds /\ sent'[i].n = i
    <3>1. /\ Len(sent') = Len(sent) + 1 /\ sent'[Len(sent) + 1] = m
          /\ \A j \in 1..Len(sent) : sent'[j] = sent[j]
      BY <1>1, <1>2, <1>3, Added
    <3>2. i \in 1..Len(sent) \/ i = Len(sent) + 1
      BY <1>1, <3>1
    <3> QED BY <1>2, <1>4, <3>1, <3>2 DEF Kinds
  <2>2. /\ \A k \in ToSet(followUp') : k.kind \in {"userInput", "followUp"}
        /\ \A k \in ToSet(steering') : k.kind \in {"userInput", "observation"}
    BY <1>2, <1>3, <1>4, <1>8 DEF Kinds
  <2> QED BY <1>4, <2>1, <2>2 DEF Kinds
<1>12. Places(queuedLog, t, held, followUp', steering')
         = Places(queuedLog, t, held, followUp, steering) \cup {m}
  BY <1>3, <1>8 DEF Places
<1>13. Placed'
  <2>1. /\ Places(queuedLog, t, held, followUp', steering') \subseteq ToSet(sent')
        /\ ~dropped => ToSet(sent') \subseteq Places(queuedLog, t, held, followUp', steering')
    BY <1>4, <1>8, <1>12
  <2> QED BY <2>1 DEF Placed, t
<1>14. Between'
  <2>1. ASSUME NEW i \in 1..Len(followUp'), followUp'[i].kind = "userInput"
        PROVE  i \in 1..Len(followUp) /\ followUp[i].kind = "userInput"
    <3>1. CASE followUp' = followUp
      BY <2>1, <3>1
    <3>2. CASE kind = "followUp" /\ followUp' = Append(followUp, m)
      <4>1. /\ Len(followUp') = Len(followUp) + 1 /\ followUp'[Len(followUp) + 1] = m
            /\ Len(followUp) \in Nat /\ \A j \in 1..Len(followUp) : followUp'[j] = followUp[j]
        BY <1>1, <1>2, <3>2, Added, Elements
      <4>2. i \in 1..Len(followUp) \/ i = Len(followUp) + 1
        BY <4>1
      <4> QED BY <1>2, <2>1, <3>2, <4>1, <4>2
    <3> QED BY <1>3, <3>1, <3>2
  <2> QED BY <1>4, <2>1 DEF Between, ModesKeepOrder, Quiet
<1> QED BY <1>10, <1>11, <1>13, <1>14 DEF MInv, t

-----------------------------------------------------------------------------
(* What each action leaves to record.                                      *)
LEMMA OneUnqueued ==
  ASSUME NEW e \in Events, e.kind = "EffectCommitted" => e.message.kind \notin QueuedKinds
  PROVE  Unqueued(<<e>>)
BY OneEvent DEF Unqueued

LEMMA NoneUnqueued == Unqueued(<<>>)
BY NoEvents, EmptySeq DEF Unqueued

LEMMA MarkUnqueued == ASSUME NEW kind, kind # "EffectCommitted" PROVE Unqueued(<<Event(kind)>>)
<1>1. Len(<<Event(kind)>>) = 1 /\ <<Event(kind)>>[1].kind = kind
  BY DEF Event
<1> QED BY <1>1 DEF Unqueued

LEMMA UnqueuedEnds ==
  ASSUME NEW events \in Seq(Events), Unqueued(events), NEW e \in Events, e.kind # "EffectCommitted"
  PROVE  Unqueued(Append(events, e))
<1>1. /\ Len(events) \in Nat /\ Len(Append(events, e)) = Len(events) + 1
      /\ Append(events, e)[Len(events) + 1] = e
      /\ \A i \in 1..Len(events) : Append(events, e)[i] = events[i]
  BY AppendProperties, LenProperties
<1>2. \A i \in 1..(Len(events) + 1) : i \in 1..Len(events) \/ i = Len(events) + 1
  BY <1>1
<1> QED BY <1>1, <1>2 DEF Unqueued

LEMMA ResultsUnqueued ==
  ASSUME run \in 0..MaxRuns, NEW cs \in Seq(1..MaxCalls)
  PROVE  Unqueued(Results(cs))
<1>1. DOMAIN cs = 1..Len(cs) /\ Len(Results(cs)) = Len(cs)
  BY ResultsType, LenProperties
<1>2. \A i \in 1..Len(cs) : Results(cs)[i] = Committed(Message("toolResult", run, cs[i], <<>>))
  BY <1>1 DEF Results
<1>3. \A i \in 1..Len(Results(cs)) : Results(cs)[i].message.kind = "toolResult"
  <2> TAKE i \in 1..Len(Results(cs))
  <2>1. Results(cs)[i] = Committed(Message("toolResult", run, cs[i], <<>>))
    BY <1>1, <1>2
  <2> QED BY <2>1 DEF Committed, Message
<1> QED BY <1>3 DEF Unqueued, QueuedKinds

(* A phase that completes, fails or pauses.                                *)
LEMMA PhaseGoesOn ==
  ASSUME TypeOK, MInv, TypeOK', NEW id, InPhase(id),
         \/ \E events \in Seq(Events) : Unqueued(events) /\ CompletePhase(events)
         \/ \E why \in ProviderErrors : FailPhase(why)
         \/ Unqueued(todo') /\ pc' = "paused",
         UNCHANGED <<queuedLog, held, followUp, steering, sent, dropped, input>>
  PROVE  MInv'
<1>1. Quiet /\ pc = "phase" /\ input.kind \notin QueuedKinds
  BY DEF InPhase, MInv, Kinds
<1>2. Unqueued(todo') /\ pc' \in {"phase", "error", "paused"}
  <2>1. ASSUME NEW events \in Seq(Events), Unqueued(events), CompletePhase(events)
        PROVE  Unqueued(todo') /\ pc' = "phase"
    <3>1. Event("PhaseCompleted") \in Events /\ Event("PhaseCompleted").kind # "EffectCommitted"
      BY DEF Event, Events, MarkerKinds
    <3> QED BY <1>1, <2>1, <3>1, UnqueuedEnds DEF CompletePhase
  <2>2. ASSUME NEW why \in ProviderErrors, FailPhase(why)
        PROVE  Unqueued(todo') /\ pc' = "error"
    BY <2>2, MarkUnqueued DEF FailPhase, Fail
  <2> QED BY <2>1, <2>2
<1> QED BY <1>1, <1>2, GoesOn

LEMMA PhasesMove ==
  ASSUME TypeOK, MInv, TypeOK',
         \/ InputIngest \/ PreparePhase \/ ContextCompact \/ ModelStream
         \/ AssistantCommit \/ ToolCallResolve \/ TurnDecision
  PROVE  MInv'
<1>1. UNCHANGED <<queuedLog, held, followUp, steering, sent, dropped, input>>
  BY DEF InputIngest, PreparePhase, ContextCompact, ModelStream, AssistantCommit,
         ToolCallResolve, TurnDecision, queues, history
<1>2. <<>> \in Seq(Events) /\ Unqueued(<<>>)
  BY NoEvents, NoneUnqueued
<1>3. CASE InputIngest
  <2> DEFINE events == IF turn = 1 /\ input # NoInput THEN <<Committed(input)>> ELSE <<>>
  <2>1. Committed(input) \in Events /\ Committed(input).message.kind \notin QueuedKinds
    BY DEF TypeOK, Committed, Events, MInv, Kinds
  <2>2. events \in Seq(Events) /\ Unqueued(events)
    BY <1>2, <2>1, OneEvent, OneUnqueued
  <2>3. InPhase("input.ingest") /\ CompletePhase(events)
    BY <1>3 DEF InputIngest
  <2> HIDE DEF events
  <2> QED BY <1>1, <2>2, <2>3, PhaseGoesOn
<1>4. CASE PreparePhase
  BY <1>1, <1>2, <1>4, PhaseGoesOn DEF PreparePhase
<1>5. CASE ContextCompact
  <2>1. ASSUME NEW cut \in Cuts(local.msgs)
        PROVE  <<CompactAt(local.msgs, cut)>> \in Seq(Events) /\ Unqueued(<<CompactAt(local.msgs, cut)>>)
    <3> DEFINE e == CompactAt(local.msgs, cut)
    <3>1. e \in Events /\ e.kind # "EffectCommitted"
      BY CompactType DEF CompactAt, Compacted
    <3> HIDE DEF e
    <3>2. <<e>> \in Seq(Events) /\ Unqueued(<<e>>)
      BY <3>1, OneEvent, OneUnqueued
    <3> QED BY <3>2 DEF e
  <2>2. InPhase("context.compact")
    BY <1>5 DEF ContextCompact
  <2>3. \/ CompletePhase(<<>>)
        \/ \E cut \in Cuts(local.msgs) : CompletePhase(<<CompactAt(local.msgs, cut)>>)
        \/ \E why \in ProviderErrors : FailPhase(why)
    BY <1>5 DEF ContextCompact
  <2>4. \/ \E events \in Seq(Events) : Unqueued(events) /\ CompletePhase(events)
        \/ \E why \in ProviderErrors : FailPhase(why)
    BY <1>2, <2>1, <2>3
  <2> QED BY <1>1, <2>2, <2>4, PhaseGoesOn
<1>6. CASE ModelStream
  BY <1>1, <1>2, <1>6, PhaseGoesOn DEF ModelStream
<1>7. CASE AssistantCommit
  <2> DEFINE e == Committed(Message("assistant", run, turn, reply))
  <2>1. e \in Events /\ e.message.kind \notin QueuedKinds
    <3>1. Message("assistant", run, turn, reply) \in MessageSet
      BY MessageType DEF TypeOK, MessageKinds
    <3> QED BY <3>1 DEF Committed, Events, Message, QueuedKinds
  <2>2. InPhase("assistant.commit")
    BY <1>7 DEF AssistantCommit
  <2>3. CompletePhase(<<e>>) \/ \E why \in ProviderErrors : FailPhase(why)
    BY <1>7 DEF AssistantCommit
  <2> HIDE DEF e
  <2>4. <<e>> \in Seq(Events) /\ Unqueued(<<e>>)
    BY <2>1, OneEvent, OneUnqueued
  <2> QED BY <1>1, <2>2, <2>3, <2>4, PhaseGoesOn
<1>8. CASE ToolCallResolve \/ TurnDecision
  BY <1>1, <1>2, <1>8, PhaseGoesOn DEF ToolCallResolve, TurnDecision
<1> QED BY <1>3, <1>4, <1>5, <1>6, <1>7, <1>8

LEMMA PausesMove == ASSUME Pauses PROVE Unqueued(todo') /\ pc' = "paused"
<1>1. PICK c \in Conts : PausesFor(c)
  BY DEF Pauses
<1>2. \A i \in 1..Len(todo') : todo'[i].kind \in {"RunPaused", "ToolApprovalRequested"}
  BY <1>1 DEF PausesFor, RunPaused
<1> QED BY <1>2 DEF Unqueued, Pauses

LEMMA ToolPhaseMoves == ASSUME TypeOK, MInv, TypeOK', ToolPhase PROVE MInv'
<1>1. /\ InPhase("tool.execute")
      /\ UNCHANGED <<queuedLog, held, followUp, steering, sent, dropped, input>>
  BY DEF ToolPhase, queues, history
<1>2. CASE Works
  <2>1. pc' # "paused"
    BY <1>2 DEF Works, Working
  <2>2. \/ CompletePhase(<<>>) \/ CompletePhase(Results(calls))
        \/ \E why \in ProviderErrors : FailPhase(why)
    BY <2>1 DEF ToolPhase, PauseFor
  <2>3. /\ <<>> \in Seq(Events) /\ Unqueued(<<>>)
        /\ Results(calls) \in Seq(Events) /\ Unqueued(Results(calls))
    BY NoEvents, NoneUnqueued, ResultsType, ResultsUnqueued DEF TypeOK
  <2> QED BY <1>1, <2>2, <2>3, PhaseGoesOn
<1>3. CASE Pauses
  BY <1>1, <1>3, PausesMove, PhaseGoesOn
<1> QED BY <1>2, <1>3, ToolPhaseStep

LEMMA ResumePhaseMoves == ASSUME TypeOK, MInv, TypeOK', ResumePhase PROVE MInv'
<1>1. /\ pc = "resuming" /\ Quiet /\ input.kind \notin QueuedKinds
      /\ UNCHANGED <<queuedLog, held, followUp, steering, sent, dropped, input>>
  BY DEF ResumePhase, queues, history, MInv, Kinds
<1>2. Unqueued(todo') /\ pc' # "prepend"
  <2>1. CASE Pauses
    BY <2>1, PausesMove
  <2>2. CASE Works
    <3>1. pc' # "paused"
      BY <2>2 DEF Works, Working
    <3>2. \/ todo' = Append(ResumedResults, Event("PhaseCompleted")) /\ pc' = "loop"
          \/ todo' = <<Event("PhaseFailed")>> /\ pc' = "error"
      BY <3>1 DEF ResumePhase, PauseFor, Fail
    <3>3. Event("PhaseCompleted") \in Events /\ Event("PhaseCompleted").kind # "EffectCommitted"
      BY DEF Event, Events, MarkerKinds
    <3>4. cont.calls \in Seq(1..MaxCalls) /\ run \in 0..MaxRuns
      BY DEF TypeOK, Conts
    <3>5. Unqueued(Append(ResumedResults, Event("PhaseCompleted")))
      BY <3>3, <3>4, ResultsType, ResultsUnqueued, UnqueuedEnds DEF ResumedResults
    <3> QED BY <3>2, <3>5, MarkUnqueued
  <2> QED BY <2>1, <2>2, ResumePhaseStep
<1> QED BY <1>1, <1>2, GoesOn

(* Between turns, and where a run begins and ends.                         *)
LEMMA TurnsMove ==
  ASSUME TypeOK, MInv, TypeOK',
         BeginTurn \/ TurnCompleted \/ SteeringEmpty \/ NextTurn \/ CompleteRun
  PROVE  MInv'
<1>1. /\ Quiet /\ input.kind \notin QueuedKinds
      /\ UNCHANGED <<queuedLog, held, followUp, steering, sent, dropped>>
  BY DEF BeginTurn, TurnCompleted, SteeringEmpty, NextTurn, CompleteRun, AnotherTurn, queues,
         history, MInv, Kinds
<1>2. Unqueued(<<>>) /\ (Quiet => todo = <<>>)
  BY NoneUnqueued DEF Quiet
<1>3. CASE BeginTurn
  <2>1. Unqueued(todo') /\ pc' \in {"error", "phase"} /\ input' = input
    BY <1>1, <1>2, <1>3, MarkUnqueued DEF BeginTurn, Fail
  <2> QED BY <1>1, <1>3, <2>1, GoesOn DEF BeginTurn
<1>4. CASE TurnCompleted
  <2>1. Unqueued(todo') /\ pc' = "steer" /\ pc = "phase" /\ input' = input
    BY <1>4, MarkUnqueued DEF TurnCompleted
  <2> QED BY <1>1, <2>1, GoesOn
<1>5. CASE SteeringEmpty
  <2>1. Unqueued(todo') /\ pc' = "follow" /\ pc = "steer" /\ input' = input
    BY <1>1, <1>2, <1>5 DEF SteeringEmpty, cursor
  <2> QED BY <1>1, <2>1, GoesOn
<1>6. CASE NextTurn
  <2>1. Unqueued(todo') /\ pc' = "loop" /\ pc = "follow" /\ decision = "Continue" /\ input' = NoInput
    BY <1>1, <1>2, <1>6 DEF NextTurn, AnotherTurn
  <2>2. input'.kind \notin QueuedKinds
    BY <2>1 DEF NoInput, Message, QueuedKinds
  <2> QED BY <1>1, <2>1, <2>2, GoesOn
<1>7. CASE CompleteRun
  <2>1. Unqueued(todo') /\ pc' = "ending" /\ pc = "follow" /\ followUp = <<>> /\ input' = input
    BY <1>7, MarkUnqueued DEF CompleteRun, cursor
  <2> QED BY <1>1, <2>1, GoesOn
<1> QED BY <1>3, <1>4, <1>5, <1>6, <1>7

LEMMA ErrorMoves == ASSUME TypeOK, MInv, TypeOK', RecordRunError PROVE MInv'
<1>1. /\ pc = "error" /\ Quiet /\ pc' \in {"ending", "finish"}
      /\ UNCHANGED <<queuedLog, held, followUp, steering, sent, dropped, input>>
  BY DEF RecordRunError, queues, cursor, history
<1>2. Unqueued(todo')
  BY <1>1, NoneUnqueued, MarkUnqueued DEF RecordRunError, Quiet
<1>3. Between' /\ input.kind \notin QueuedKinds
  BY <1>1 DEF MInv, Between, Kinds, ModesKeepOrder
<1> QED BY <1>1, <1>2, <1>3, NothingMoves

LEMMA StartMoves ==
  ASSUME TypeOK, MInv, TypeOK', NEW message, message.kind \notin QueuedKinds, StartRun(message),
         Quiet
  PROVE  MInv'
<1>1. /\ pc = "idle" /\ pc' = "begin" /\ todo' = <<RunStarted(run + 1)>> /\ input' = message
      /\ UNCHANGED <<queuedLog, held, followUp, steering, sent, dropped>>
  BY DEF StartRun, Idle, queues
<1>2. Unqueued(todo')
  <2>1. Len(todo') = 1 /\ todo'[1].kind = "RunStarted"
    BY <1>1 DEF RunStarted
  <2> QED BY <2>1 DEF Unqueued
<1> QED BY <1>1, <1>2, GoesOn

LEMMA ResumeMoves == ASSUME IInv, MInv, IInv', ResumeRun PROVE MInv'
<1>1. /\ pc = "idle" /\ Quiet /\ pc' = "resuming" /\ input' = input /\ input.kind \notin QueuedKinds
      /\ TypeOK /\ TypeOK'
      /\ UNCHANGED <<queuedLog, held, followUp, steering, sent, dropped>>
  BY DEF ResumeRun, Idle, queues, cursor, history, MInv, Kinds, IInv, Shapes
<1>2. \A i \in 1..Len(todo') : todo'[i].kind \in {"ToolApprovalResolved", "RunResumed"}
  BY <1>1 DEF IInv, Shapes
<1>3. Unqueued(todo')
  BY <1>2 DEF Unqueued
<1> QED BY <1>1, <1>3, GoesOn

(* What an abort does moves no message.                                    *)
LEMMA Unmoved ==
  ASSUME MInv, UNCHANGED <<pc, todo, decision, input, queuedLog, held, followUp, steering, sent, dropped>>
  PROVE  MInv'
BY DEF MInv, Line, Kinds, Between, Placed, Places, Queued, Sorted, Ahead, ModesKeepOrder, Quiet

LEMMA DriverMoves == ASSUME IInv, MInv, IInv', Driver PROVE MInv'
<1>1. TypeOK /\ TypeOK'
  BY DEF IInv
<1>2. CASE ProposalFails \/ StoreFails
  <2>1. /\ ~Quiet /\ todo' = <<>> /\ dropped' = TRUE /\ pc' \in {"error", "finish"}
        /\ UNCHANGED <<queuedLog, held, followUp, steering, sent, input>>
    BY <1>2 DEF ProposalFails, SinkFailure, StoreFails, queues, cursor
  <2> QED BY <1>1, <2>1, FailsOn
<1>3. CASE Record
  BY <1>3, RecordMoves
<1>4. CASE BeginSteering
  <2>1. input' = input /\ input.kind \notin QueuedKinds
    BY <1>4 DEF BeginSteering, cursor, MInv, Kinds
  <2> QED BY <1>1, <1>4, <2>1, SteeringGoes DEF BeginSteering, history
<1>5. CASE SteeringAtContinue
  <2>1. input'.kind \notin QueuedKinds /\ pc' = "loop"
    BY <1>5 DEF SteeringAtContinue, AnotherTurn, NoInput, Message, QueuedKinds
  <2> QED BY <1>1, <1>5, <2>1, SteeringGoes DEF SteeringAtContinue
<1>6. CASE BeginTurn \/ TurnCompleted \/ SteeringEmpty \/ NextTurn \/ CompleteRun
  BY <1>1, <1>6, TurnsMove
<1>7. CASE \/ InputIngest \/ PreparePhase \/ ContextCompact \/ ModelStream
           \/ AssistantCommit \/ ToolCallResolve \/ TurnDecision
  BY <1>1, <1>7, PhasesMove
<1>8. CASE ToolPhase \/ ResumePhase
  BY <1>1, <1>8, ToolPhaseMoves, ResumePhaseMoves
<1>9. CASE SteeringAtStop \/ PrependHeld \/ TurnAfterStop
  BY <1>1, <1>9, SteeringStops, HeldIsPrepended, FollowUpsGo
<1>10. CASE RecordRunError \/ FinishRun
  BY <1>1, <1>10, ErrorMoves, FinishDrops
<1> QED BY <1>2, <1>3, <1>4, <1>5, <1>6, <1>7, <1>8, <1>9, <1>10 DEF Driver

LEMMA CallersMove == ASSUME IInv, MInv, IInv', Callers PROVE MInv'
<1>1. TypeOK /\ TypeOK' /\ (Idle => Quiet)
  BY DEF IInv, Shapes, Idle
<1>2. CASE Prompt \/ ContinueRun
  <2>1. PICK message \in {Message("prompt", run + 1, 1, <<>>), NoInput} : StartRun(message)
    BY <1>2 DEF Prompt, ContinueRun
  <2>2. message.kind \notin QueuedKinds
    BY DEF NoInput, Message, QueuedKinds
  <2>3. Idle
    BY <2>1 DEF StartRun
  <2> QED BY <1>1, <2>1, <2>2, <2>3, StartMoves
<1>3. CASE ResumeRun
  BY <1>3, ResumeMoves
<1>4. CASE AbortActive \/ AbortPaused \/ AbortLoad \/ AbortFails \/ AbortRecord
  <2>1. UNCHANGED <<pc, todo, decision, input, queuedLog, held, followUp, steering, sent, dropped>>
    BY <1>4 DEF AbortActive, AbortPaused, AbortLoad, AbortFails, AbortRecord, control, cursor,
                queues, history
  <2> QED BY <2>1, Unmoved
<1>5. CASE Reset
  BY <1>1, <1>5, ResetDrops
<1>6. CASE Steer \/ SteerUserInput
  <2>1. PICK kind \in {"observation", "userInput"} : Enqueue(steering, kind) /\ followUp' = followUp
    BY <1>6 DEF Steer, SteerUserInput
  <2>2. kind \in QueuedKinds
    BY DEF QueuedKinds
  <2> QED BY <1>1, <2>1, <2>2, MessageComes DEF Enqueue, control, cursor
<1>7. CASE FollowUp
  <2>1. Enqueue(followUp, "followUp") /\ steering' = steering /\ "followUp" \in QueuedKinds
    BY <1>7 DEF FollowUp, QueuedKinds
  <2> QED BY <1>1, <2>1, MessageComes DEF Enqueue, control, cursor
<1> QED BY <1>2, <1>3, <1>4, <1>5, <1>6, <1>7 DEF Callers

LEMMA QueuesBegin == Init => MInv
<1> SUFFICES ASSUME Init PROVE MInv
  OBVIOUS
<1>1. /\ pc = "idle" /\ todo = <<>> /\ input = NoInput /\ decision = "None"
      /\ steering = <<>> /\ followUp = <<>> /\ held = <<>> /\ sent = <<>> /\ queuedLog = <<>>
  BY DEF Init
<1>2. Len(<<>>) = 0 /\ ToSet(<<>>) = {} /\ MessagesOf(todo) = <<>>
  BY <1>1, EmptySeq, NothingSorted, NoMessages
<1>3. Line(queuedLog, MessagesOf(todo), held, followUp, steering)
  BY <1>1, <1>2, NothingSorted DEF Line
<1>4. Kinds
  BY <1>1, <1>2 DEF Kinds, NoInput, Message, QueuedKinds
<1>5. Between
  BY <1>1, <1>2 DEF Between
<1>6. Placed
  BY <1>1, <1>2 DEF Placed, Places, Queued
<1> QED BY <1>3, <1>4, <1>5, <1>6 DEF MInv

LEMMA QueuesStay == Spec => []MInv
<1>1. IInv /\ MInv /\ IInv' /\ [Next]_vars => MInv'
  <2>1. UNCHANGED vars =>
          UNCHANGED <<pc, todo, decision, input, queuedLog, held, followUp, steering, sent, dropped>>
    BY DEF vars, control, cursor, queues, history
  <2> QED BY <2>1, DriverMoves, CallersMove, Unmoved DEF Next
<1> QED BY <1>1, Inductive, QueuesBegin, PTL DEF Spec

(* No queued message is duplicated, none is lost while no listener fails   *)
(* and nobody resets the agent, and those sent the same way reach the      *)
(* transcript in the order they were sent (PendingMessageQueue::drain,     *)
(* prepend_follow_up_messages, run_turns_from).                            *)
THEOREM QueuedMessagesKept == Spec => []QueuedOnceInOrder
<1>1. IInv /\ MInv => QueuedOnceInOrder
  <2> SUFFICES ASSUME IInv, MInv PROVE QueuedOnceInOrder
    OBVIOUS
  <2> DEFINE t == MessagesOf(todo)
             k == QueuedOf(t)
             a == queuedLog \o k
             b == a \o held
             c == b \o followUp
             d == c \o steering
  <2>1. /\ queuedLog \in Seq(MessageSet) /\ t \in Seq(MessageSet)
        /\ held \in Seq(MessageSet) /\ followUp \in Seq(MessageSet) /\ steering \in Seq(MessageSet)
        /\ Line(queuedLog, t, held, followUp, steering) /\ Kinds /\ Placed /\ TypeOK
    BY LineTypes DEF IInv, MInv
  <2>2. k \in Seq(MessageSet) /\ ToSet(k) = Queued(ToSet(t)) /\ (Sorted(t) => Sorted(k))
    <3>1. ToSet(t) \cap {m \in ToSet(t) : m.kind \in QueuedKinds} = Queued(ToSet(t))
      BY DEF Queued
    <3>2. k = Kept(t, {m \in ToSet(t) : m.kind \in QueuedKinds})
      BY DEF QueuedOf
    <3> HIDE DEF t, k
    <3> QED BY <2>1, <3>1, <3>2, KeptOf
  <2>3. InPlay = d
    BY DEF InPlay
  <2> HIDE DEF t, k
  <2>4. /\ a \in Seq(MessageSet) /\ ToSet(a) = ToSet(queuedLog) \cup ToSet(k)
        /\ Sorted(queuedLog) /\ Sorted(k) /\ Ahead(ToSet(queuedLog), ToSet(k)) => Sorted(a)
    BY <2>1, <2>2, Joined
  <2> HIDE DEF a
  <2>5. /\ b \in Seq(MessageSet) /\ ToSet(b) = ToSet(a) \cup ToSet(held)
        /\ Sorted(a) /\ Sorted(held) /\ Ahead(ToSet(a), ToSet(held)) => Sorted(b)
    BY <2>1, <2>4, Joined
  <2> HIDE DEF b
  <2>6. /\ c \in Seq(MessageSet) /\ ToSet(c) = ToSet(b) \cup ToSet(followUp)
        /\ Sorted(b) /\ Sorted(followUp) /\ Ahead(ToSet(b), ToSet(followUp)) => Sorted(c)
    BY <2>1, <2>5, Joined
  <2> HIDE DEF c
  <2>7. /\ d \in Seq(MessageSet) /\ ToSet(d) = ToSet(c) \cup ToSet(steering)
        /\ Sorted(c) /\ Sorted(steering) /\ Ahead(ToSet(c), ToSet(steering)) => Sorted(d)
    BY <2>1, <2>6, Joined
  <2> HIDE DEF d
  <2>8. Queued(ToSet(t)) \subseteq ToSet(t)
    BY DEF Queued
  <2>9. Sorted(queuedLog) /\ Sorted(d)
    BY <2>1, <2>2, <2>4, <2>5, <2>6, <2>7, <2>8 DEF Line, Ahead
  <2>10. ToSet(d) = Places(queuedLog, t, held, followUp, steering)
    BY <2>2, <2>4, <2>5, <2>6, <2>7 DEF Places
  <2>11. \A m \in ToSet(d) : m.kind \in QueuedKinds
    BY <2>1, <2>10, KindsOf DEF Placed, t
  <2>12. ~dropped => ToSet(d) = ToSet(sent)
    BY <2>1, <2>10 DEF Placed, t
  <2>13. IsInjective(d)
    <3>1. DOMAIN d = 1..Len(d) /\ Len(d) \in Nat /\ \A i \in 1..Len(d) : d[i] \in ToSet(d)
      BY <2>7, LenProperties, Elements
    <3>2. \A i, j \in 1..Len(d) : i < j => d[i] # d[j]
      BY <2>9, <2>11, <3>1 DEF Sorted, Precedes
    <3>3. \A i, j \in 1..Len(d) : i < j \/ j < i \/ i = j
      BY <3>1
    <3> QED BY <3>1, <3>2, <3>3 DEF IsInjective
  <2>14. ASSUME ModesKeepOrder, NEW i \in DOMAIN queuedLog, NEW j \in DOMAIN queuedLog, i < j,
                queuedLog[i].kind = queuedLog[j].kind
         PROVE  queuedLog[i].n < queuedLog[j].n
    <3>1. i \in 1..Len(queuedLog) /\ j \in 1..Len(queuedLog)
      BY <2>1, LenProperties
    <3>2. queuedLog[i].kind \in QueuedKinds /\ queuedLog[j].kind \in QueuedKinds
      BY <2>1, <3>1, Elements DEF Kinds
    <3> QED BY <2>9, <2>14, <3>1, <3>2 DEF Sorted, Precedes
  <2> QED BY <2>3, <2>12, <2>13, <2>14 DEF QueuedOnceInOrder
<1> QED BY <1>1, QueuesStay, Inductive, PTL
-----------------------------------------------------------------------------
(* The results of tool calls.  Messages are told apart by what they are;   *)
(* results already by the call they belong to.                             *)
Clash(m, k) ==
  m = k \/ (m.kind = "toolResult" /\ k.kind = "toolResult" /\ m.n = k.n)

Distinct(s) == \A i, j \in 1..Len(s) : i < j => ~Clash(s[i], s[j])

(* A transcript that is the end of another.                                *)
EndOf(s, t) == Len(s) <= Len(t) /\ \A i \in 1..Len(s) : s[i] = t[Len(t) - Len(s) + i]

(* The results of the calls cs.                                            *)
Answers(cs) == [i \in 1..Len(cs) |-> Message("toolResult", run, cs[i], <<>>)]

(* What a list of events says next.                                        *)
LEMMA AnswersType ==
  ASSUME run \in 0..MaxRuns, NEW cs \in Seq(1..MaxCalls)
  PROVE  /\ Answers(cs) \in Seq(MessageSet) /\ Len(Answers(cs)) = Len(cs)
         /\ \A i \in 1..Len(cs) :
              Answers(cs)[i] = Message("toolResult", run, cs[i], <<>>) /\ cs[i] \in Nat
<1>1. Len(cs) \in Nat /\ MaxCalls \in Nat /\ \A i \in 1..Len(cs) : cs[i] \in 1..MaxCalls
  BY LenProperties, ElementOfSeq, LoopAssumption
<1>2. \A i \in 1..Len(cs) : Message("toolResult", run, cs[i], <<>>) \in MessageSet /\ cs[i] \in Nat
  <2> TAKE i \in 1..Len(cs)
  <2>1. cs[i] \in Nat
    BY <1>1
  <2> QED BY <2>1, MessageType, EmptySeq DEF MessageKinds
<1>3. Answers(cs) \in [1..Len(cs) -> MessageSet]
  BY <1>2 DEF Answers
<1>4. Answers(cs) \in Seq(MessageSet)
  BY SMTT(30), <1>1, <1>3, SeqDef
<1>5. Len(Answers(cs)) = Len(cs)
  BY <1>1, <1>3, <1>4, LenProperties
<1> QED BY <1>2, <1>4, <1>5 DEF Answers

LEMMA NoAnswers == Answers(<<>>) = <<>>
<1>1. Len(<<>>) = 0
  BY EmptySeq
<1> QED BY <1>1 DEF Answers

(* Paired, by position.                                                    *)
LEMMA PairedMeans ==
  ASSUME NEW s \in Seq(MessageSet)
  PROVE  Paired(s) <=>
    /\ \A i \in 1..Len(s) : \A j \in 1..Len(s[i].calls) :
         i + j <= Len(s) /\ s[i + j].kind = "toolResult" /\ s[i + j].n = s[i].calls[j]
    /\ \A i \in 1..Len(s) : s[i].kind = "toolResult" =>
         \E k \in 1..(i - 1) : i - k <= Len(s[k].calls)
<1>1. DOMAIN s = 1..Len(s) /\ Len(s) \in Nat /\ \A i \in 1..Len(s) : s[i] \in MessageSet
  BY LenProperties, ElementOfSeq
<1>2. \A i \in 1..Len(s) : DOMAIN s[i].calls = 1..Len(s[i].calls) /\ Len(s[i].calls) \in Nat
  <2> TAKE i \in 1..Len(s)
  <2>1. s[i].calls \in Seq(1..MaxCalls)
    BY <1>1 DEF MessageSet
  <2> QED BY <2>1, LenProperties
<1>3. \A i \in 1..Len(s), j \in Nat \ {0} : i + j \in 1..Len(s) <=> i + j <= Len(s)
  BY <1>1
<1>4. ASSUME NEW i \in 1..Len(s), NEW k \in 1..(i - 1)
      PROVE  i - k \in DOMAIN s[k].calls <=> i - k <= Len(s[k].calls)
  <2>1. k \in 1..Len(s) /\ i - k \in Nat \ {0}
    BY <1>1
  <2>2. DOMAIN s[k].calls = 1..Len(s[k].calls) /\ Len(s[k].calls) \in Nat
    BY <1>2, <2>1
  <2> QED BY <2>1, <2>2
<1>5. ASSUME NEW i \in 1..Len(s), NEW j \in 1..Len(s[i].calls)
      PROVE  i + j \in DOMAIN s <=> i + j <= Len(s)
  <2>1. Len(s[i].calls) \in Nat
    BY <1>2
  <2>2. j \in Nat \ {0}
    BY <2>1
  <2> QED BY <1>1, <1>3, <2>2
<1>6. ASSUME NEW i \in 1..Len(s)
      PROVE  (\E k \in 1..(i - 1) : i - k \in DOMAIN s[k].calls)
               <=> \E k \in 1..(i - 1) : i - k <= Len(s[k].calls)
  BY <1>4
<1> QED BY <1>1, <1>2, <1>5, <1>6 DEF Paired

(* An assistant message goes before the results of its calls, ...          *)
LEMMA PairedAsk ==
  ASSUME run \in 0..MaxRuns, NEW s \in Seq(MessageSet), Paired(s),
         NEW m \in MessageSet, m.kind # "toolResult"
  PROVE  Paired(Append(s, m) \o Answers(m.calls))
<1> DEFINE a == Answers(m.calls)
           b == Append(s, m)
           t == b \o a
           n == Len(s)
           c == Len(m.calls)
<1>1. m.calls \in Seq(1..MaxCalls) /\ c \in Nat /\ n \in Nat
  BY LenProperties DEF MessageSet
<1>2. /\ a \in Seq(MessageSet) /\ Len(a) = c
      /\ \A i \in 1..c : a[i].kind = "toolResult" /\ a[i].n = m.calls[i] /\ a[i].calls = <<>>
  <2>1. /\ a \in Seq(MessageSet) /\ Len(a) = c
        /\ \A i \in 1..c : a[i] = Message("toolResult", run, m.calls[i], <<>>)
    BY <1>1, AnswersType
  <2> HIDE DEF a, c
  <2> QED BY <2>1 DEF Message
<1> HIDE DEF a, c, n
<1>3. b \in Seq(MessageSet) /\ Len(b) = n + 1 /\ b[n + 1] = m /\ \A i \in 1..n : b[i] = s[i]
  BY AppendProperties DEF n
<1> HIDE DEF b
<1>4. /\ t \in Seq(MessageSet) /\ Len(t) = n + 1 + c
      /\ \A i \in 1..(n + 1 + c) : t[i] = IF i <= n + 1 THEN b[i] ELSE a[i - (n + 1)]
  <2>1. /\ t \in Seq(MessageSet) /\ Len(t) = Len(b) + Len(a)
        /\ \A i \in 1..(Len(b) + Len(a)) : t[i] = IF i <= Len(b) THEN b[i] ELSE a[i - Len(b)]
    BY ZenonT(60), <1>2, <1>3, ConcatProperties
  <2> HIDE DEF t
  <2> QED BY <1>2, <1>3, <2>1
<1>5. /\ \A i \in 1..n : t[i] = s[i]
      /\ t[n + 1] = m
      /\ \A i \in 1..c : t[n + 1 + i] = a[i]
  <2>1. \A i \in 1..n : i \in 1..(n + 1 + c) /\ i <= n + 1
    BY <1>1
  <2>2. n + 1 \in 1..(n + 1 + c) /\ n + 1 <= n + 1
    BY <1>1
  <2>3. \A i \in 1..c : n + 1 + i \in 1..(n + 1 + c) /\ ~(n + 1 + i <= n + 1) /\ n + 1 + i - (n + 1) = i
    BY <1>1
  <2> HIDE DEF t
  <2>4. \A i \in 1..n : t[i] = s[i]
    BY <1>3, <1>4, <2>1
  <2>5. t[n + 1] = m
    BY <1>3, <1>4, <2>2
  <2>6. \A i \in 1..c : t[n + 1 + i] = a[i]
    <3> TAKE i \in 1..c
    <3>1. ASSUME NEW k, k = n + 1 + i
          PROVE  t[k] = a[i]
      <4>1. k \in 1..(n + 1 + c) /\ ~(k <= n + 1) /\ k - (n + 1) = i
        BY <1>1, <3>1
      <4>2. t[k] = IF k <= n + 1 THEN b[k] ELSE a[k - (n + 1)]
        BY <1>4, <4>1
      <4> QED BY <4>1, <4>2
    <3> QED BY <3>1
  <2> QED BY <2>4, <2>5, <2>6
<1> HIDE DEF t
<1>6. \A i \in 1..Len(t) : i \in 1..n \/ i = n + 1 \/ (i - (n + 1) \in 1..c /\ i = n + 1 + (i - (n + 1)))
  BY <1>1, <1>4
<1>7. /\ \A i \in 1..n : \A j \in 1..Len(s[i].calls) :
           i + j <= n /\ s[i + j].kind = "toolResult" /\ s[i + j].n = s[i].calls[j]
      /\ \A i \in 1..n : s[i].kind = "toolResult" => \E k \in 1..(i - 1) : i - k <= Len(s[k].calls)
  BY PairedMeans DEF n
<1>8. ASSUME NEW i \in 1..Len(t), NEW j \in 1..Len(t[i].calls)
      PROVE  i + j <= Len(t) /\ t[i + j].kind = "toolResult" /\ t[i + j].n = t[i].calls[j]
  <2>1. CASE i \in 1..n
    <3>1. s[i].calls \in Seq(1..MaxCalls)
      <4>1. s[i] \in MessageSet
        BY <2>1, ElementOfSeq DEF n
      <4> QED BY <4>1 DEF MessageSet
    <3>2. Len(s[i].calls) \in Nat
      BY <3>1, LenProperties
    <3>3. i + j <= n /\ s[i + j].kind = "toolResult" /\ s[i + j].n = s[i].calls[j]
      BY <1>5, <1>7, <2>1
    <3>4. i + j \in 1..n
      BY <1>5, <2>1, <3>2, <3>3
    <3>5. t[i] = s[i] /\ t[i + j] = s[i + j]
      BY <1>5, <2>1, <3>4
    <3>6. i + j <= Len(t)
      BY <1>1, <1>4, <3>4
    <3> QED BY <3>3, <3>5, <3>6
  <2>2. CASE i = n + 1
    <3>1. j \in 1..c
      BY <1>5, <2>2 DEF c
    <3> QED BY <1>1, <1>2, <1>4, <1>5, <2>2, <3>1
  <2>3. CASE i - (n + 1) \in 1..c /\ i = n + 1 + (i - (n + 1))
    <3>1. t[i].calls = <<>>
      BY <1>2, <1>5, <2>3
    <3> QED BY <3>1, EmptySeq
  <2> QED BY <1>6, <2>1, <2>2, <2>3
<1>9. ASSUME NEW i \in 1..Len(t), t[i].kind = "toolResult"
      PROVE  \E k \in 1..(i - 1) : i - k <= Len(t[k].calls)
  <2>1. CASE i \in 1..n
    <3>1. PICK k \in 1..(i - 1) : i - k <= Len(s[k].calls)
      BY <1>5, <1>7, <1>9, <2>1
    <3>2. k \in 1..n
      BY <1>1, <2>1
    <3> QED BY <1>5, <3>1, <3>2
  <2>2. CASE i = n + 1
    BY <1>5, <1>9, <2>2
  <2>3. CASE i - (n + 1) \in 1..c /\ i = n + 1 + (i - (n + 1))
    <3>1. n + 1 \in 1..(i - 1) /\ i - (n + 1) <= Len(t[n + 1].calls)
      BY <1>1, <1>5, <2>3 DEF c
    <3> QED BY <3>1
  <2> QED BY <1>6, <2>1, <2>2, <2>3
<1>10. Paired(t)
  BY <1>4, <1>8, <1>9, PairedMeans
<1> QED BY <1>10 DEF t, b, a

(* ... any other needs none, ...                                           *)
LEMMA PairedPlain ==
  ASSUME run \in 0..MaxRuns, NEW s \in Seq(MessageSet), Paired(s),
         NEW m \in MessageSet, m.kind # "toolResult", m.calls = <<>>
  PROVE  Paired(Append(s, m))
<1>1. Append(s, m) \in Seq(MessageSet)
  BY AppendProperties
<1>2. Append(s, m) \o <<>> = Append(s, m)
  BY <1>1, ConcatEmptySeq
<1>3. Paired(Append(s, m) \o Answers(<<>>))
  BY PairedAsk
<1> QED BY <1>2, <1>3, NoAnswers

(* ... and what begins where no result is keeps its pairs.                 *)
LEMMA PairedCut ==
  ASSUME NEW s \in Seq(MessageSet), Paired(s), NEW cut \in 2..Len(s), s[cut].kind # "toolResult",
         NEW m \in MessageSet, m.kind # "toolResult", m.calls = <<>>
  PROVE  /\ <<m>> \o SubSeq(s, cut, Len(s)) \in Seq(MessageSet)
         /\ Paired(<<m>> \o SubSeq(s, cut, Len(s)))
<1> DEFINE n == Len(s)
           q == SubSeq(s, cut, n)
           t == <<m>> \o q
<1>1. n \in Nat /\ \A i \in 1..n : s[i] \in MessageSet
  BY LenProperties, ElementOfSeq
<1>2. q \in Seq(MessageSet) /\ Len(q) = n - cut + 1 /\ \A i \in 1..(n - cut + 1) : q[i] = s[cut + i - 1]
  <2>1. \A i \in cut..n : s[i] \in MessageSet
    BY <1>1
  <2> QED BY <1>1, <2>1, SubSeqProperties
<1> HIDE DEF q
<1>3. <<m>> \in Seq(MessageSet) /\ Len(<<m>>) = 1 /\ <<m>>[1] = m
  OBVIOUS
<1>4. /\ t \in Seq(MessageSet) /\ Len(t) = n - cut + 2
      /\ \A i \in 1..(n - cut + 2) : t[i] = IF i <= 1 THEN <<m>>[i] ELSE q[i - 1]
  <2>1. Len(<<m>>) + Len(q) = n - cut + 2
    BY <1>1, <1>2, <1>3
  <2>2. /\ t \in Seq(MessageSet) /\ Len(t) = Len(<<m>>) + Len(q)
        /\ \A i \in 1..(Len(<<m>>) + Len(q)) :
             t[i] = IF i <= Len(<<m>>) THEN <<m>>[i] ELSE q[i - Len(<<m>>)]
    BY <1>2, <1>3, ConcatProperties
  <2> HIDE DEF t, n
  <2> QED BY <1>3, <2>1, <2>2
<1>5. t[1] = m /\ \A i \in 2..Len(t) : t[i] = s[cut + i - 2] /\ cut + i - 2 \in 1..n
  <2>1. 1 \in 1..(n - cut + 2) /\ 1 <= 1
    BY <1>1
  <2>2. ASSUME NEW i \in 2..Len(t)
        PROVE  t[i] = s[cut + i - 2] /\ cut + i - 2 \in 1..n
    <3>1. i \in 1..(n - cut + 2) /\ ~(i <= 1) /\ i - 1 \in 1..(n - cut + 1)
          /\ cut + (i - 1) - 1 = cut + i - 2 /\ cut + i - 2 \in 1..n
      BY SMTT(30), <1>1, <1>4
    <3>2. q[i - 1] = s[cut + (i - 1) - 1]
      BY <1>2, <3>1
    <3> QED BY <1>4, <3>1, <3>2
  <2> QED BY <1>3, <1>4, <2>1, <2>2
<1> HIDE DEF t
<1>6. /\ \A i \in 1..n : \A j \in 1..Len(s[i].calls) :
           i + j <= n /\ s[i + j].kind = "toolResult" /\ s[i + j].n = s[i].calls[j]
      /\ \A i \in 1..n : s[i].kind = "toolResult" => \E k \in 1..(i - 1) : i - k <= Len(s[k].calls)
  BY PairedMeans
<1>7. \A i \in 1..n : Len(s[i].calls) \in Nat
  <2> TAKE i \in 1..n
  <2>1. s[i].calls \in Seq(1..MaxCalls)
    BY <1>1 DEF MessageSet
  <2> QED BY <2>1, LenProperties
<1>8. ASSUME NEW i \in 1..Len(t), NEW j \in 1..Len(t[i].calls)
      PROVE  i + j <= Len(t) /\ t[i + j].kind = "toolResult" /\ t[i + j].n = t[i].calls[j]
  <2>1. i # 1
    BY <1>5, EmptySeq
  <2>2. i \in 2..Len(t) /\ t[i] = s[cut + i - 2] /\ cut + i - 2 \in 1..n /\ j \in Nat \ {0}
    <3>1. i \in 2..Len(t)
      BY <1>1, <1>4, <2>1
    <3> QED BY <1>5, <1>7, <3>1
  <2>3. cut + i - 2 + j <= n /\ s[cut + i - 2 + j].kind = "toolResult"
        /\ s[cut + i - 2 + j].n = s[cut + i - 2].calls[j]
    BY <1>6, <2>2
  <2>4. i + j <= Len(t) /\ i + j \in 2..Len(t) /\ cut + (i + j) - 2 = cut + i - 2 + j
    BY <1>1, <1>4, <2>2, <2>3
  <2>5. t[i + j] = s[cut + (i + j) - 2]
    BY <1>5, <2>4
  <2> QED BY <2>2, <2>3, <2>4, <2>5
<1>9. ASSUME NEW i \in 1..Len(t), t[i].kind = "toolResult"
      PROVE  \E k \in 1..(i - 1) : i - k <= Len(t[k].calls)
  <2>1. i \in 2..Len(t) /\ t[i] = s[cut + i - 2] /\ cut + i - 2 \in 1..n
    <3>1. i # 1
      BY <1>5, <1>9
    <3>2. i \in 2..Len(t)
      BY <1>1, <1>4, <3>1
    <3> QED BY <1>5, <3>2
  <2> DEFINE p == cut + i - 2
  <2>2. PICK k \in 1..(p - 1) : p - k <= Len(s[k].calls)
    BY <1>6, <1>9, <2>1
  <2>3. p \in 1..n /\ p # cut /\ k \in 1..n
    BY <1>1, <1>9, <2>1
  <2>4. ~(k < cut)
    <3>1. SUFFICES ASSUME k < cut PROVE FALSE
      OBVIOUS
    <3>2. cut - k \in 1..Len(s[k].calls) /\ k + (cut - k) = cut
      BY <1>7, <2>1, <2>2, <2>3, <3>1
    <3>3. s[k + (cut - k)].kind = "toolResult"
      BY <1>6, <2>3, <3>2
    <3> QED BY <3>2, <3>3
  <2>5. k - cut + 2 \in 1..(i - 1) /\ k - cut + 2 \in 2..Len(t) /\ cut + (k - cut + 2) - 2 = k
        /\ i - (k - cut + 2) = p - k
    BY <1>1, <1>4, <2>1, <2>2, <2>3, <2>4
  <2>6. t[k - cut + 2] = s[cut + (k - cut + 2) - 2]
    BY <1>5, <2>5
  <2>7. i - (k - cut + 2) <= Len(t[k - cut + 2].calls)
    BY <2>2, <2>5, <2>6
  <2> QED BY <2>5, <2>7
<1>10. Paired(t)
  BY <1>4, <1>8, <1>9, PairedMeans
<1> QED BY <1>4, <1>10 DEF t, q

(* Messages that do not clash, ...                                         *)
LEMMA DistinctAdded ==
  ASSUME NEW s \in Seq(MessageSet), NEW m \in MessageSet, Distinct(s),
         \A k \in ToSet(s) : ~Clash(k, m)
  PROVE  /\ Append(s, m) \in Seq(MessageSet) /\ Distinct(Append(s, m))
         /\ ToSet(Append(s, m)) = ToSet(s) \cup {m}
<1> DEFINE t == Append(s, m)
<1>1. /\ t \in Seq(MessageSet) /\ Len(t) = Len(s) + 1 /\ t[Len(s) + 1] = m
      /\ \A i \in 1..Len(s) : t[i] = s[i]
  BY AppendProperties
<1>2. Len(s) \in Nat /\ \A i \in 1..Len(s) : s[i] \in ToSet(s)
  BY Elements
<1> HIDE DEF t
<1>3. ASSUME NEW i \in 1..Len(t), NEW j \in 1..Len(t), i < j
      PROVE  ~Clash(t[i], t[j])
  <2>1. i \in 1..Len(s) /\ t[i] = s[i]
    BY <1>1, <1>2, <1>3
  <2>2. CASE j = Len(s) + 1
    BY <1>1, <1>2, <2>1, <2>2
  <2>3. CASE j # Len(s) + 1
    <3>1. j \in 1..Len(s) /\ t[j] = s[j]
      BY <1>1, <1>2, <2>3
    <3> QED BY <1>3, <2>1, <3>1 DEF Distinct
  <2> QED BY <2>2, <2>3
<1>4. Distinct(t)
  BY <1>3 DEF Distinct
<1>5. ToSet(t) = ToSet(s) \cup {m}
  BY Added DEF t
<1> QED BY <1>1, <1>4, <1>5 DEF t

(* ... also in front of others, ...                                        *)
LEMMA DistinctJoined ==
  ASSUME NEW s \in Seq(MessageSet), NEW m \in MessageSet, Distinct(s),
         \A k \in ToSet(s) : ~Clash(k, m)
  PROVE  /\ <<m>> \o s \in Seq(MessageSet) /\ Distinct(<<m>> \o s)
         /\ ToSet(<<m>> \o s) = ToSet(s) \cup {m}
<1> DEFINE t == <<m>> \o s
<1>1. <<m>> \in Seq(MessageSet) /\ Len(<<m>>) = 1 /\ <<m>>[1] = m
  OBVIOUS
<1>2. Len(s) \in Nat /\ \A i \in 1..Len(s) : s[i] \in ToSet(s)
  BY Elements
<1>3. /\ t \in Seq(MessageSet) /\ Len(t) = Len(s) + 1 /\ t[1] = m
      /\ \A i \in 1..Len(t) : i # 1 => t[i] = s[i - 1]
  <2>1. /\ t \in Seq(MessageSet) /\ Len(t) = Len(<<m>>) + Len(s)
        /\ \A i \in 1..(Len(<<m>>) + Len(s)) :
             t[i] = IF i <= Len(<<m>>) THEN <<m>>[i] ELSE s[i - Len(<<m>>)]
    BY <1>1, ConcatProperties
  <2> HIDE DEF t
  <2> QED BY <1>1, <1>2, <2>1
<1> HIDE DEF t
<1>4. ASSUME NEW i \in 1..Len(t), NEW j \in 1..Len(t), i < j
      PROVE  ~Clash(t[i], t[j])
  <2>1. j # 1 /\ j - 1 \in 1..Len(s) /\ t[j] = s[j - 1]
    BY <1>2, <1>3, <1>4
  <2>2. CASE i = 1
    <3>1. ~Clash(s[j - 1], m)
      BY <1>2, <2>1
    <3> QED BY <1>3, <2>1, <2>2, <3>1 DEF Clash
  <2>3. CASE i # 1
    <3>1. i - 1 \in 1..Len(s) /\ t[i] = s[i - 1] /\ i - 1 < j - 1
      BY <1>2, <1>3, <1>4, <2>3
    <3> QED BY <2>1, <3>1 DEF Distinct
  <2> QED BY <2>2, <2>3
<1>5. Distinct(t)
  BY <1>4 DEF Distinct
<1>6. ToSet(t) = ToSet(s) \cup {m}
  <2>1. ToSet(<<>>) = {} /\ <<>> \in Seq(MessageSet) /\ Append(<<>>, m) = <<m>>
    BY EmptySeq, NothingSorted
  <2>2. ToSet(Append(<<>>, m)) = ToSet(<<>>) \cup {m}
    BY <2>1, Added
  <2>3. ToSet(<<m>>) = {m}
    BY <2>1, <2>2
  <2>4. ToSet(<<m>> \o s) = ToSet(<<m>>) \cup ToSet(s)
    BY <1>1, Joined
  <2> QED BY <2>3, <2>4 DEF t
<1> QED BY <1>3, <1>5, <1>6 DEF t

(* ... and when some are left out.                                         *)
LEMMA KeptDistinct ==
  ASSUME NEW s \in Seq(MessageSet), NEW stays, Distinct(s)
  PROVE  Distinct(Kept(s, stays))
<1> DEFINE kept == CHOOSE f : KeptTo(f, s, stays, Len(s))
           Part(i) == {s[j] : j \in 1..i}
           Good(i) == /\ kept[i] \in Seq(MessageSet) /\ ToSet(kept[i]) \subseteq Part(i)
                      /\ Distinct(kept[i])
           T == {i \in 0..Len(s) : ~Good(i)}
<1>1. KeptTo(kept, s, stays, Len(s))
  <2>1. Len(s) \in 0..Len(s)
    BY LenProperties
  <2> QED BY <2>1, KeptExists
<1>2. Kept(s, stays) = kept[Len(s)]
  BY DEF Kept, KeptTo
<1> HIDE DEF kept
<1>3. Len(s) \in Nat
  BY Elements
<1>4. SUFFICES ASSUME NEW n \in T PROVE FALSE
  <2>1. Good(Len(s)) => Distinct(Kept(s, stays))
    BY <1>2
  <2> HIDE DEF Good
  <2>2. Good(Len(s)) \/ Len(s) \in T
    BY <1>3
  <2> QED BY <2>1, <2>2
<1>5. PICK m \in T : \A k \in T : m <= k
  <2>1. T \in SUBSET Nat
    BY <1>3
  <2> HIDE DEF T
  <2> QED BY <2>1, Least
<1>6. kept[m] = IF m = 0 THEN <<>>
                ELSE IF s[m] \in stays THEN Append(kept[m - 1], s[m]) ELSE kept[m - 1]
  BY <1>1 DEF KeptTo
<1>7. m # 0
  <2>1. ASSUME m = 0 PROVE Good(0)
    <3>1. kept[0] = <<>>
      BY <1>6, <2>1
    <3>2. ToSet(<<>>) = {} /\ Len(<<>>) = 0 /\ <<>> \in Seq(MessageSet)
      BY EmptySeq, NothingSorted
    <3>3. Distinct(<<>>)
      BY <3>2 DEF Distinct
    <3> QED BY <3>1, <3>2, <3>3
  <2> HIDE DEF Good
  <2> QED BY <2>1
<1>8. m \in 1..Len(s) /\ m - 1 \in 0..Len(s) /\ Good(m - 1)
  <2> HIDE DEF Good
  <2>1. m \in 0..Len(s)
    OBVIOUS
  <2>2. m - 1 \in 0..Len(s) /\ ~(m <= m - 1)
    BY <1>3, <1>7, <2>1
  <2>3. m - 1 \notin T
    BY <1>5, <2>2
  <2> QED BY <1>3, <1>7, <2>1, <2>2, <2>3
<1> DEFINE before == kept[m - 1]
<1>9. before \in Seq(MessageSet) /\ ToSet(before) \subseteq Part(m - 1) /\ Distinct(before)
  BY <1>8
<1>10. Part(m) = Part(m - 1) \cup {s[m]}
  <2>1. \A j \in 1..m : j = m \/ j \in 1..(m - 1)
    BY <1>8
  <2>2. m \in 1..m /\ \A j \in 1..(m - 1) : j \in 1..m
    BY <1>8
  <2> QED BY <2>1, <2>2
<1>11. s[m] \in MessageSet
  BY <1>8, ElementOfSeq
<1> HIDE DEF before
<1>12. CASE s[m] \notin stays
  <2>1. kept[m] = before
    BY <1>6, <1>7, <1>12 DEF before
  <2> HIDE DEF Part
  <2> QED BY <1>9, <1>10, <2>1
<1>13. CASE s[m] \in stays
  <2>1. kept[m] = Append(before, s[m])
    BY <1>6, <1>7, <1>13 DEF before
  <2>2. \A k \in ToSet(before) : ~Clash(k, s[m])
    <3>1. \A k \in ToSet(before) : \E j \in 1..(m - 1) : k = s[j]
      BY <1>9
    <3>2. \A j \in 1..(m - 1) : j \in 1..Len(s) /\ j < m
      BY <1>8
    <3> QED BY ZenonT(60), <1>8, <3>1, <3>2 DEF Distinct
  <2>3. /\ Append(before, s[m]) \in Seq(MessageSet) /\ Distinct(Append(before, s[m]))
        /\ ToSet(Append(before, s[m])) = ToSet(before) \cup {s[m]}
    BY <1>9, <1>11, <2>2, DistinctAdded
  <2> HIDE DEF Part
  <2> QED BY <1>9, <1>10, <2>1, <2>3
<1> QED BY <1>12, <1>13

(* What is kept of a transcript from a cut on is the transcript from there.*)
LEMMA KeptFrom ==
  ASSUME NEW s \in Seq(MessageSet), Distinct(s), NEW cut \in 1..Len(s)
  PROVE  Kept(s, ToSet(SubSeq(s, cut, Len(s)))) = SubSeq(s, cut, Len(s))
<1> DEFINE stays == ToSet(SubSeq(s, cut, Len(s)))
           kept == CHOOSE f : KeptTo(f, s, stays, Len(s))
           Good(i) == kept[i] = SubSeq(s, cut, i)
           T == {i \in 0..Len(s) : ~Good(i)}
<1>1. Len(s) \in Nat /\ \A i \in 1..Len(s) : s[i] \in MessageSet
  BY LenProperties, ElementOfSeq
<1>2. ASSUME NEW n \in 0..Len(s)
      PROVE  /\ SubSeq(s, cut, n) \in Seq(MessageSet)
             /\ Len(SubSeq(s, cut, n)) = IF cut <= n THEN n - cut + 1 ELSE 0
             /\ \A i \in 1..(n - cut + 1) : SubSeq(s, cut, n)[i] = s[cut + i - 1]
  <2>1. \A i \in cut..n : s[i] \in MessageSet
    BY <1>1
  <2> QED BY <1>1, <2>1, SubSeqProperties
<1>3. \A j \in 1..Len(s) : s[j] \in stays <=> cut <= j
  <2> TAKE j \in 1..Len(s)
  <2> DEFINE q == SubSeq(s, cut, Len(s))
  <2>1. /\ q \in Seq(MessageSet) /\ Len(q) = Len(s) - cut + 1
        /\ \A i \in 1..(Len(s) - cut + 1) : q[i] = s[cut + i - 1]
    BY <1>1, <1>2
  <2> HIDE DEF q
  <2>2. s[j] \in ToSet(q) <=> \E i \in 1..Len(q) : q[i] = s[j]
    BY <2>1, Elements
  <2>3. ASSUME cut <= j PROVE \E i \in 1..Len(q) : q[i] = s[j]
    <3>1. j - cut + 1 \in 1..Len(q) /\ cut + (j - cut + 1) - 1 = j
      BY <1>1, <2>1, <2>3
    <3> QED BY <2>1, <3>1
  <2>4. ASSUME NEW i \in 1..Len(q), q[i] = s[j] PROVE cut <= j
    <3>1. cut + i - 1 \in 1..Len(s) /\ cut <= cut + i - 1 /\ q[i] = s[cut + i - 1]
      BY <1>1, <2>1
    <3>2. ~(j < cut + i - 1)
      BY <2>4, <3>1 DEF Distinct, Clash
    <3> QED BY <3>1, <3>2
  <2> QED BY <2>2, <2>3, <2>4 DEF q
<1> HIDE DEF stays
<1>4. KeptTo(kept, s, stays, Len(s))
  <2>1. Len(s) \in 0..Len(s)
    BY LenProperties
  <2> QED BY <2>1, KeptExists
<1>5. Kept(s, stays) = kept[Len(s)]
  BY DEF Kept, KeptTo
<1> HIDE DEF kept
<1>6. SUFFICES ASSUME NEW n \in T PROVE FALSE
  BY <1>1, <1>5 DEF stays
<1>7. PICK m \in T : \A k \in T : m <= k
  <2>1. T \in SUBSET Nat
    BY <1>1
  <2> HIDE DEF T
  <2> QED BY <2>1, Least
<1>8. kept[m] = IF m = 0 THEN <<>>
                ELSE IF s[m] \in stays THEN Append(kept[m - 1], s[m]) ELSE kept[m - 1]
  BY <1>4 DEF KeptTo
<1>9. m # 0
  <2>1. ASSUME m = 0 PROVE Good(0)
    <3>1. kept[0] = <<>>
      BY <1>8, <2>1
    <3>2. SubSeq(s, cut, 0) = <<>>
      BY SubSeqEmpty
    <3> QED BY <3>1, <3>2
  <2> HIDE DEF Good
  <2> QED BY <2>1
<1>10. m \in 1..Len(s) /\ m - 1 \in 0..Len(s) /\ kept[m - 1] = SubSeq(s, cut, m - 1)
  <2>1. m \in 0..Len(s)
    OBVIOUS
  <2>2. m - 1 \in 0..Len(s) /\ ~(m <= m - 1)
    BY <1>1, <1>9, <2>1
  <2>3. m - 1 \notin T
    BY <1>7, <2>2
  <2> QED BY <1>1, <1>9, <2>1, <2>2, <2>3
<1>11. CASE m < cut
  <2>1. kept[m] = SubSeq(s, cut, m - 1)
    BY <1>3, <1>8, <1>9, <1>10, <1>11
  <2>2. SubSeq(s, cut, m - 1) = <<>> /\ SubSeq(s, cut, m) = <<>>
    BY <1>10, <1>11, SubSeqEmpty
  <2> QED BY <2>1, <2>2
<1>12. CASE cut <= m
  <2>1. kept[m] = Append(SubSeq(s, cut, m - 1), s[m])
    BY <1>3, <1>8, <1>9, <1>10, <1>12
  <2> DEFINE a == SubSeq(s, cut, m - 1)
             b == SubSeq(s, cut, m)
  <2>2. /\ a \in Seq(MessageSet) /\ Len(a) = m - cut
        /\ \A i \in 1..(m - cut) : a[i] = s[cut + i - 1]
    <3>1. m - 1 - cut + 1 = m - cut /\ (~(cut <= m - 1) => m - cut = 0)
      BY <1>10, <1>12
    <3> QED BY <1>2, <1>10, <3>1
  <2>3. /\ b \in Seq(MessageSet) /\ Len(b) = m - cut + 1
        /\ \A i \in 1..(m - cut + 1) : b[i] = s[cut + i - 1]
    BY <1>2, <1>10, <1>12
  <2> HIDE DEF a, b
  <2>4. /\ Append(a, s[m]) \in Seq(MessageSet) /\ Len(Append(a, s[m])) = m - cut + 1
        /\ Append(a, s[m])[m - cut + 1] = s[m] /\ \A i \in 1..(m - cut) : Append(a, s[m])[i] = a[i]
    <3>1. s[m] \in MessageSet
      BY <1>1, <1>10
    <3> DEFINE x == s[m]
    <3> HIDE DEF x
    <3>2. x \in MessageSet
      BY <3>1 DEF x
    <3>3. /\ Append(a, x) \in Seq(MessageSet) /\ Len(Append(a, x)) = Len(a) + 1
          /\ Append(a, x)[Len(a) + 1] = x /\ \A i \in 1..Len(a) : Append(a, x)[i] = a[i]
      <4>1. a \in Seq(MessageSet)
        BY <2>2
      <4> QED BY <3>2, <4>1, AppendProperties
    <3> QED BY <2>2, <3>3 DEF x
  <2>5. ASSUME NEW i \in 1..(m - cut + 1) PROVE Append(a, s[m])[i] = b[i]
    <3>1. CASE i = m - cut + 1
      <4>1. cut + i - 1 = m
        BY <1>10, <3>1
      <4> QED BY <2>3, <2>4, <3>1, <4>1
    <3>2. CASE i # m - cut + 1
      <4>1. i \in 1..(m - cut)
        BY <1>10, <3>2
      <4> QED BY <2>2, <2>3, <2>4, <4>1
    <3> QED BY <3>1, <3>2
  <2>6. Append(a, s[m]) = b
    BY <2>3, <2>4, <2>5, SeqEqual
  <2> QED BY <2>1, <2>6 DEF a, b
<1> QED BY <1>10, <1>11, <1>12

(* The end of a transcript.                                                *)
LEMMA EndGrows ==
  ASSUME NEW s \in Seq(MessageSet), NEW t \in Seq(MessageSet), EndOf(s, t), NEW m \in MessageSet
  PROVE  EndOf(Append(s, m), Append(t, m))
<1>1. Len(s) \in Nat /\ Len(t) \in Nat /\ Len(s) <= Len(t)
      /\ \A i \in 1..Len(s) : s[i] = t[Len(t) - Len(s) + i]
  BY LenProperties DEF EndOf
<1> DEFINE a == Append(s, m)
           b == Append(t, m)
<1>2. Len(a) = Len(s) + 1 /\ a[Len(s) + 1] = m /\ \A i \in 1..Len(s) : a[i] = s[i]
  BY AppendProperties
<1>3. Len(b) = Len(t) + 1 /\ b[Len(t) + 1] = m /\ \A i \in 1..Len(t) : b[i] = t[i]
  BY AppendProperties
<1> HIDE DEF a, b
<1>4. ASSUME NEW i \in 1..Len(a) PROVE a[i] = b[Len(b) - Len(a) + i]
  <2>1. CASE i = Len(s) + 1
    <3>1. Len(b) - Len(a) + i = Len(t) + 1
      BY <1>1, <1>2, <1>3, <2>1
    <3> QED BY <1>2, <1>3, <2>1, <3>1
  <2>2. CASE i # Len(s) + 1
    <3>1. i \in 1..Len(s) /\ Len(b) - Len(a) + i = Len(t) - Len(s) + i /\ Len(t) - Len(s) + i \in 1..Len(t)
      BY <1>1, <1>2, <1>3, <2>2
    <3> QED BY <1>1, <1>2, <1>3, <3>1
  <2> QED BY <2>1, <2>2
<1>5. Len(a) <= Len(b)
  BY <1>1, <1>2, <1>3
<1> QED BY <1>4, <1>5 DEF EndOf, a, b

LEMMA EndIsAll ==
  ASSUME NEW s \in Seq(MessageSet), NEW t \in Seq(MessageSet), EndOf(s, t), Distinct(t),
         ToSet(s) = ToSet(t)
  PROVE  s = t
<1>1. Len(s) \in Nat /\ Len(t) \in Nat /\ Len(s) <= Len(t)
      /\ \A i \in 1..Len(s) : s[i] = t[Len(t) - Len(s) + i]
  BY LenProperties DEF EndOf
<1>2. ~(Len(s) < Len(t))
  <2> SUFFICES ASSUME Len(s) < Len(t) PROVE FALSE
    OBVIOUS
  <2>1. 1 \in 1..Len(t) /\ t[1] \in ToSet(t)
    BY <1>1, Elements
  <2>2. PICK i \in 1..Len(s) : s[i] = t[1]
    BY <2>1, Elements
  <2>3. Len(t) - Len(s) + i \in 1..Len(t) /\ 1 < Len(t) - Len(s) + i
    BY <1>1
  <2> QED BY <1>1, <2>1, <2>2, <2>3 DEF Distinct, Clash
<1>3. Len(s) = Len(t) /\ \A i \in 1..Len(s) : s[i] = t[i]
  BY <1>1, <1>2
<1> QED BY <1>3, SeqEqual

LEMMA EndDistinct ==
  ASSUME NEW s \in Seq(MessageSet), NEW t \in Seq(MessageSet), EndOf(s, t), Distinct(t)
  PROVE  Distinct(s) /\ ToSet(s) \subseteq ToSet(t)
<1>1. Len(s) \in Nat /\ Len(t) \in Nat /\ Len(s) <= Len(t)
      /\ \A i \in 1..Len(s) : s[i] = t[Len(t) - Len(s) + i]
  BY LenProperties DEF EndOf
<1>2. \A i \in 1..Len(s) : Len(t) - Len(s) + i \in 1..Len(t)
  BY <1>1
<1>3. Distinct(s)
  <2> SUFFICES ASSUME NEW i \in 1..Len(s), NEW j \in 1..Len(s), i < j PROVE ~Clash(s[i], s[j])
    BY DEF Distinct
  <2>1. Len(t) - Len(s) + i < Len(t) - Len(s) + j
    BY <1>1
  <2> QED BY <1>1, <1>2, <2>1 DEF Distinct
<1>4. \A m \in ToSet(s) : m \in ToSet(t)
  <2> TAKE m \in ToSet(s)
  <2>1. PICK i \in 1..Len(s) : s[i] = m
    BY Elements
  <2> QED BY <1>1, <1>2, <2>1, Elements
<1> QED BY <1>3, <1>4

LEMMA EndsOf ==
  ASSUME NEW t \in Seq(MessageSet)
  PROVE  EndOf(t, t) /\ EndOf(<<>>, t)
<1>1. Len(t) \in Nat /\ Len(<<>>) = 0
  BY LenProperties, EmptySeq
<1>2. \A i \in 1..Len(t) : Len(t) - Len(t) + i = i
  BY <1>1
<1> QED BY <1>1, <1>2 DEF EndOf

(* A transcript and what is due to come are the same when it comes.        *)
LEMMA DueComes ==
  ASSUME NEW s \in Seq(MessageSet), NEW due \in Seq(MessageSet), due # <<>>
  PROVE  /\ Append(s, due[1]) \in Seq(MessageSet) /\ Tail(due) \in Seq(MessageSet)
         /\ s \o due = Append(s, due[1]) \o Tail(due)
<1> DEFINE a == Append(s, due[1])
           r == Tail(due)
<1>1. /\ Len(s) \in Nat /\ Len(due) \in Nat \ {0} /\ due[1] \in MessageSet
      /\ r \in Seq(MessageSet) /\ Len(r) = Len(due) - 1 /\ \A i \in 1..Len(r) : r[i] = due[i + 1]
  <2>1. Len(s) \in Nat /\ Len(due) \in Nat /\ (due = <<>> <=> Len(due) = 0)
    BY Elements
  <2>2. 1 \in 1..Len(due)
    BY <2>1
  <2> QED BY <2>1, <2>2, HeadTailProperties, ElementOfSeq
<1>2. a \in Seq(MessageSet) /\ Len(a) = Len(s) + 1 /\ a[Len(s) + 1] = due[1] /\ \A i \in 1..Len(s) : a[i] = s[i]
  BY <1>1, AppendProperties
<1> HIDE DEF a, r
<1> DEFINE x == s \o due
           y == a \o r
<1>3. /\ x \in Seq(MessageSet) /\ Len(x) = Len(s) + Len(due)
      /\ \A i \in 1..(Len(s) + Len(due)) : x[i] = IF i <= Len(s) THEN s[i] ELSE due[i - Len(s)]
  BY ConcatProperties
<1>4. /\ y \in Seq(MessageSet) /\ Len(y) = Len(a) + Len(r)
      /\ \A i \in 1..(Len(a) + Len(r)) : y[i] = IF i <= Len(a) THEN a[i] ELSE r[i - Len(a)]
  BY <1>1, <1>2, ConcatProperties
<1> HIDE DEF x, y
<1>5. Len(x) = Len(y) /\ Len(x) = Len(s) + Len(due)
  BY <1>1, <1>2, <1>3, <1>4
<1>6. ASSUME NEW i \in 1..Len(x) PROVE x[i] = y[i]
  <2> DEFINE n == Len(s)
  <2> HIDE DEF n
  <2>1. CASE i \in 1..n
    <3>1. i \in 1..(n + Len(due)) /\ i <= n /\ i \in 1..(Len(a) + Len(r)) /\ i <= Len(a)
      BY <1>1, <1>2, <1>3, <1>4, <1>5, <2>1 DEF n
    <3>2. x[i] = s[i]
      BY <1>3, <3>1 DEF n
    <3>3. y[i] = a[i]
      BY <1>4, <3>1
    <3> QED BY <1>2, <2>1, <3>2, <3>3 DEF n
  <2>2. CASE i = n + 1
    <3>1. i \in 1..(n + Len(due)) /\ ~(i <= n) /\ i - n = 1 /\ i \in 1..(Len(a) + Len(r)) /\ i <= Len(a)
      BY <1>1, <1>2, <1>3, <1>4, <1>5, <2>2 DEF n
    <3>2. x[i] = due[1]
      BY <1>3, <3>1 DEF n
    <3>3. y[i] = a[i]
      BY <1>4, <3>1
    <3> QED BY <1>2, <2>2, <3>2, <3>3 DEF n
  <2>3. CASE i > n + 1
    <3>1. i - Len(a) \in 1..Len(r) /\ (i - Len(a)) + 1 = i - Len(s) /\ ~(i <= Len(s)) /\ ~(i <= Len(a))
      BY <1>1, <1>2, <1>3, <1>5, <2>3 DEF n
    <3>2. r[i - Len(a)] = due[i - Len(s)]
      BY <1>1, <3>1
    <3> QED BY <1>3, <1>4, <1>5, <3>1, <3>2
  <2>4. i \in 1..n \/ i = n + 1 \/ i > n + 1
    BY <1>1, <1>5 DEF n
  <2> QED BY <2>1, <2>2, <2>3, <2>4
<1>7. x = y
  BY <1>3, <1>4, <1>5, <1>6, SeqEqual
<1> QED BY <1>1, <1>2, <1>7 DEF a, r, x, y

-----------------------------------------------------------------------------
(* The invariant.  Where the turn is: the next phase, or past all of them. *)
Moving == {"begin", "beginSteer", "loop"}
At == IF pc \in Moving THEN startPhase ELSE IF pc = "phase" THEN phase ELSE 10

(* The calls whose results the run has still to get.                       *)
Resumable == replayable /\ stored.status = "Paused" /\ pc \in {"error", "finish", "idle"}
Owing == pc \in {"paused", "resuming"} \/ (pc = "phase" /\ phase \in 6..8) \/ Resumable
Owed == IF Owing THEN ToSet(reply) ELSE {}

(* What may be in a transcript by now.                                     *)
Before(m, p) == m.run < run \/ (m.run = run /\ (m.n < turn \/ (m.n = turn /\ At > p)))
Past ==
  {m \in MessageSet :
     /\ m.kind # "none"
     /\ m.kind = "toolResult" => m.n < nextCall /\ m.n \notin Owed
     /\ m.kind \in QueuedKinds => m \in ToSet(queuedLog)
     /\ m.kind = "prompt" => m.run < run \/ (m.run = run /\ (turn > 1 \/ At > 1))
     /\ m.kind = "assistant" => Before(m, 6)
     /\ m.kind = "summary" => Before(m, 3)}

Told(s) == Distinct(s) /\ ToSet(s) \subseteq Past

(* What an effect adds to a transcript; what of a run's own messages the   *)
(* driver has still to add.                                                *)
Brings(e) == IF e.kind = "MessagesCompacted" THEN e.summary ELSE e.message
New(e) == e.kind \in Effects /\ Brings(e).kind \notin QueuedKinds

Apart(events) ==
  \A i, j \in 1..Len(events) :
    i < j /\ New(events[i]) /\ New(events[j]) => ~Clash(Brings(events[i]), Brings(events[j]))
Comes ==
  /\ \A i \in 1..Len(todo) : New(todo[i]) =>
       /\ Brings(todo[i]) \in Past
       /\ \A m \in ToSet(local.msgs) \cup ToSet(agent.msgs) : ~Clash(m, Brings(todo[i]))
  /\ Apart(todo)

(* The calls of the turn, and what asks for them.                          *)
Asked ==
  /\ run > 0 => turn > 0
  /\ \A i, j \in 1..Len(reply) : i < j => reply[i] # reply[j]
  /\ \A i \in 1..Len(reply) : reply[i] < nextCall
  /\ At <= 7 => calls = <<>>
  /\ At = 8 => calls = reply
  /\ input \in {NoInput, Message("prompt", run, 1, <<>>)}
  /\ \A i \in 1..Len(sent) : sent[i].calls = <<>>

(* A pause, and the log it leaves, are of the turn's calls.                *)
OfTurn(c) == c.calls = reply /\ c.turn = turn /\ phase = 8
Pausing ==
  /\ pc = "paused" => OfTurn(IF Quiet THEN cont ELSE todo[Len(todo)].cont)
  /\ pc = "resuming" => OfTurn(cont) /\ (~Quiet => todo[Len(todo)].kind = "RunResumed")
  /\ replayable /\ stored.status = "Paused" =>
       \/ pc = "paused" /\ Quiet
       \/ pc = "resuming" /\ ~Quiet
       \/ Resumable /\ OfTurn(cont) /\ (pc = "error" => cause = "sink" /\ Quiet)

(* What of a transcript the driver has in hand: messages that are not      *)
(* about calls, the results of the turn, the assistant message or a        *)
(* summary; ...                                                            *)
PlainMessage(m) == m.kind # "toolResult" /\ m.calls = <<>>
Result(n) == Committed(Message("toolResult", run, n, <<>>))
PlainInHand ==
  \A i \in 1..Len(todo) : todo[i].kind \in Effects =>
    todo[i].kind = "EffectCommitted" /\ PlainMessage(todo[i].message) /\ ~Owing
ResultsInHand ==
  /\ At = 9 /\ ~Owing
  /\ \A i \in 1..Len(todo) :
       IF i = Len(todo) THEN todo[i].kind \notin Effects
       ELSE todo[i].kind = "EffectCommitted" /\ todo[i] = Result(todo[i].message.n)
AssistantInHand ==
  /\ pc = "phase" /\ phase = 7 /\ Len(todo) = 2 /\ todo[2].kind \notin Effects
  /\ todo[1] = Committed(Message("assistant", run, turn, reply))
SummaryInHand ==
  /\ pc = "phase" /\ phase = 4 /\ Len(todo) = 2 /\ todo[2].kind \notin Effects
  /\ \E cut \in Cuts(local.msgs) : todo[1] = CompactAt(local.msgs, cut)
InHand == PlainInHand \/ ResultsInHand \/ AssistantInHand \/ SummaryInHand

(* ... the results that come next.                                         *)
Due ==
  IF ~Quiet /\ todo[1].kind = "EffectCommitted" THEN
    IF todo[1].message.kind = "toolResult" THEN [i \in 1..(Len(todo) - 1) |-> todo[i].message]
    ELSE <<>>
  ELSE IF Owing /\ phase # 6 THEN Answers(reply) ELSE <<>>

Live == pc \notin {"error", "ending", "finish", "idle"}

(* The transcripts of the run, of the agent and of the log.                *)
Transcripts ==
  /\ Told(local.msgs) /\ Told(agent.msgs)
  /\ Live /\ whole => Paired(local.msgs \o Due)
  /\ replayable =>
       /\ EndOf(stored.msgs, local.msgs)
       /\ Live \/ Resumable => Paired(stored.msgs \o Due)

FirstRun ==
  /\ run <= 1 => /\ replayable /\ stored.msgs = local.msgs
                 /\ ~dropped => agent.msgs = local.msgs
  /\ run = 0 => agent.msgs = <<>> /\ local.msgs = <<>>

RInv == Transcripts /\ Comes /\ Asked /\ Pausing /\ InHand /\ FirstRun

(* The run goes on: what may be in a transcript still may.                 *)
Later ==
  /\ nextCall <= nextCall'
  /\ \A n \in Owed' : n < nextCall => n \in Owed
  /\ ToSet(queuedLog) \subseteq ToSet(queuedLog')
  /\ \/ run < run'
     \/ run' = run /\ turn < turn' /\ turn > 0
     \/ run' = run /\ turn' = turn /\ (At <= At' \/ 6 < At')

LEMMA ClockType ==
  ASSUME TypeOK
  PROVE  /\ At \in 1..10 /\ turn \in Nat /\ run \in Nat /\ phase \in 1..10
         /\ nextCall \in Nat /\ run \in 0..MaxRuns /\ MaxRuns \in Nat
<1>1. startPhase \in 1..10 /\ phase \in 1..10
  BY PhaseCount DEF TypeOK, AfterToolExecute
<1>2. run \in Nat /\ nextCall \in Nat /\ MaxRuns \in Nat
  BY LoopAssumption DEF TypeOK
<1> QED BY <1>1, <1>2 DEF At, TypeOK

LEMMA PastOn ==
  ASSUME TypeOK, TypeOK', Later
  PROVE  Past \subseteq Past'
<1>1. /\ At \in 1..10 /\ turn \in Nat /\ run \in Nat /\ nextCall \in Nat
      /\ At' \in 1..10 /\ turn' \in Nat /\ run' \in Nat /\ nextCall' \in Nat
  <2>1. At' \in 1..10
    <3>1. startPhase' \in 1..10 /\ phase' \in 1..10
      BY PhaseCount DEF TypeOK, AfterToolExecute
    <3> QED BY <3>1 DEF At
  <2>2. run' \in Nat /\ nextCall' \in Nat /\ turn' \in Nat
    BY LoopAssumption DEF TypeOK
  <2> QED BY <2>1, <2>2, ClockType
<1>2. \/ run < run'
      \/ run' = run /\ turn < turn' /\ turn > 0
      \/ run' = run /\ turn' = turn /\ (At <= At' \/ 6 < At')
  BY DEF Later
<1> SUFFICES ASSUME NEW m \in Past PROVE m \in Past'
  OBVIOUS
<1>3. m \in MessageSet /\ m.run \in Nat /\ m.n \in Nat
  BY LoopAssumption DEF Past, MessageSet
<1>4. m.kind = "toolResult" => m.n < nextCall' /\ m.n \notin Owed'
  BY <1>1, <1>3 DEF Past, Later
<1>5. m.kind \in QueuedKinds => m \in ToSet(queuedLog')
  BY DEF Past, Later
<1> HIDE DEF At
<1>6. m.kind = "prompt" => m.run < run' \/ (m.run = run' /\ (turn' > 1 \/ At' > 1))
  BY <1>1, <1>2, <1>3 DEF Past
<1>7. m.kind = "assistant" => m.run < run' \/ (m.run = run' /\ (m.n < turn' \/ (m.n = turn' /\ At' > 6)))
  BY <1>1, <1>2, <1>3 DEF Past, Before
<1>8. m.kind = "summary" => m.run < run' \/ (m.run = run' /\ (m.n < turn' \/ (m.n = turn' /\ At' > 3)))
  BY <1>1, <1>2, <1>3 DEF Past, Before
<1> QED BY <1>3, <1>4, <1>5, <1>6, <1>7, <1>8 DEF Past, Before

LEMMA PastApart ==
  ASSUME NEW m \in Past, NEW k \in MessageSet, k \notin Past
  PROVE  ~Clash(m, k)
<1> SUFFICES ASSUME m.kind = "toolResult", k.kind = "toolResult", m.n = k.n PROVE FALSE
  BY DEF Clash
<1> QED BY DEF Past, QueuedKinds

(* The log is of a paused run only where the run is paused.                *)
LEMMA NotPaused ==
  ASSUME Pausing, Quiet, pc \notin {"paused", "error", "idle", "finish"}
  PROVE  ~(replayable /\ stored.status = "Paused") /\ ~Resumable
BY DEF Pausing, Resumable

(* A step that leaves the transcripts alone, or shows the driver's to the  *)
(* agent.                                                                  *)
LEMMA TranscriptsStay ==
  ASSUME TypeOK, TypeOK', RInv, Later,
         local'.msgs = local.msgs, stored'.msgs = stored.msgs,
         agent'.msgs \in {agent.msgs, local.msgs}, dropped' \in {dropped, TRUE},
         UNCHANGED <<replayable, run, whole>>,
         \A i \in 1..Len(todo') : New(todo'[i]) =>
           Brings(todo'[i]) \notin Past /\ Brings(todo'[i]) \in Past',
         Apart(todo'), Asked', Pausing', InHand',
         Live' => Live, Resumable' => Live \/ Resumable, Live' \/ Resumable' => Due' = Due
  PROVE  RInv'
<1>1. Past \subseteq Past'
  BY PastOn
<1>2. Transcripts /\ Comes /\ FirstRun
  BY DEF RInv
<1>3. Told(local.msgs)' /\ Told(agent.msgs)'
  BY <1>1, <1>2 DEF Transcripts, Told
<1>4. Live' /\ whole' => Paired(local'.msgs \o Due')
  BY <1>2 DEF Transcripts
<1>5. replayable' =>
        /\ EndOf(stored'.msgs, local'.msgs)
        /\ Live' \/ Resumable' => Paired(stored'.msgs \o Due')
  BY <1>2 DEF Transcripts
<1>6. Transcripts'
  BY <1>3, <1>4, <1>5 DEF Transcripts
<1>7. Comes'
  <2>1. ASSUME NEW i \in 1..Len(todo'), New(todo'[i]),
               NEW m \in ToSet(local'.msgs) \cup ToSet(agent'.msgs)
        PROVE  ~Clash(m, Brings(todo'[i]))
    <3>1. m \in Past
      BY <1>2 DEF Transcripts, Told
    <3>2. Brings(todo'[i]) \notin Past /\ Brings(todo'[i]) \in MessageSet
      BY <2>1 DEF Past
    <3> QED BY <3>1, <3>2, PastApart
  <2> QED BY <2>1 DEF Comes
<1>8. FirstRun'
  BY <1>2 DEF FirstRun
<1> QED BY <1>6, <1>7, <1>8 DEF RInv

LEMMA QuietMoves ==
  ASSUME TypeOK, TypeOK', RInv, Quiet, Later,
         UNCHANGED <<local, agent, stored, replayable, run, whole, dropped>>,
         \A i \in 1..Len(todo') : New(todo'[i]) =>
           Brings(todo'[i]) \notin Past /\ Brings(todo'[i]) \in Past',
         Apart(todo'), Asked', Pausing', InHand',
         Live' => Live, Resumable' => Live \/ Resumable, Live' \/ Resumable' => Due' = Due
  PROVE  RInv'
BY TranscriptsStay

(* A step of the driver in a run that goes on, or ends.                    *)
Ready == Working \cup {"begin", "resuming"}
LEMMA WorkMoves ==
  ASSUME TypeOK, TypeOK', RInv, Quiet, Later, pc \in Ready, pc' \in Working \cup {"error", "ending"},
         UNCHANGED <<local, agent, stored, replayable, queuedLog, run, whole, dropped>>,
         \A i \in 1..Len(todo') : New(todo'[i]) =>
           Brings(todo'[i]) \notin Past /\ Brings(todo'[i]) \in Past',
         Apart(todo'), Asked', InHand', pc' \in Working => Due' = Due
  PROVE  RInv'
<1>1. ~(replayable /\ stored.status = "Paused")
  BY NotPaused DEF RInv, Ready, Working
<1>2. Pausing'
  BY <1>1 DEF Pausing, Working
<1>3. ~Resumable' /\ Live /\ (Live' => pc' \in Working)
  BY <1>1 DEF Resumable, Live, Ready, Working
<1> QED BY <1>2, <1>3, QuietMoves

LEMMA MarksMove ==
  ASSUME TypeOK, TypeOK', RInv, Quiet, Later, pc \in Ready, pc' \in Working \cup {"error", "ending"},
         UNCHANGED <<local, agent, stored, replayable, queuedLog, run, whole, dropped>>,
         \A i \in 1..Len(todo') : todo'[i].kind \notin Effects,
         Asked', pc' \in Working => Due' = Due
  PROVE  RInv'
<1>1. InHand'
  BY DEF InHand, PlainInHand
<1>2. \A i \in 1..Len(todo') : ~New(todo'[i])
  BY DEF New
<1>3. Apart(todo')
  BY <1>2 DEF Apart
<1> QED BY <1>1, <1>2, <1>3, WorkMoves

(* Nothing is due, or the results of the turn are.                         *)
LEMMA DueNone ==
  ASSUME ~Owing, Quiet
  PROVE  Due = <<>>
BY DEF Due

LEMMA DueNext ==
  ASSUME ~Owing',
         todo' = <<>> \/ todo'[1].kind # "EffectCommitted" \/ todo'[1].message.kind # "toolResult"
  PROVE  Due' = <<>>
BY DEF Due

LEMMA Unowing ==
  ASSUME TypeOK, RInv, Quiet, pc \in Working \cup {"begin"}, ~(pc = "phase" /\ phase \in 6..8)
  PROVE  ~Owing /\ Owed = {} /\ Due = <<>>
<1>1. ~Owing
  <2>1. ~Resumable
    BY DEF Resumable, Working
  <2> QED BY <2>1 DEF Owing, Working
<1> QED BY <1>1, DueNone DEF Owed

LEMMA UnowingNext ==
  ASSUME pc' \in Working \cup {"begin", "ending"}, ~(pc' = "phase" /\ phase' \in 6..8)
  PROVE  ~Owing' /\ Owed' = {}
<1>1. ~Resumable'
  BY DEF Resumable, Working
<1>2. ~Owing'
  BY <1>1 DEF Owing, Working
<1> QED BY <1>2 DEF Owed

(* What a phase leaves to record.                                          *)
LEMMA OneMark ==
  ASSUME NEW kind, kind \notin Effects
  PROVE  \A i \in 1..Len(<<Event(kind)>>) : <<Event(kind)>>[i].kind \notin Effects
<1>1. Len(<<Event(kind)>>) = 1 /\ <<Event(kind)>>[1].kind = kind
  BY DEF Event
<1> QED BY <1>1

LEMMA NoMark == \A i \in 1..Len(<<>>) : <<>>[i].kind \notin Effects
<1>1. Len(<<>>) = 0
  BY EmptySeq
<1> QED BY <1>1

LEMMA Marked ==
  /\ Append(<<>>, Event("PhaseCompleted")) = <<Event("PhaseCompleted")>>
  /\ {"PhaseCompleted", "PhaseFailed", "TurnStarted", "TurnCompleted", "RunCompleted",
      "RunAborted", "RunFailed"} \cap Effects = {}
<1>1. Append(<<>>, Event("PhaseCompleted")) = <<Event("PhaseCompleted")>>
  BY EmptySeq
<1> QED BY <1>1 DEF Effects

LEMMA FailMoves ==
  ASSUME TypeOK, TypeOK', RInv, Quiet, pc \in Ready, pc' = "error",
         \A i \in 1..Len(todo') : todo'[i].kind \notin Effects,
         UNCHANGED <<local, agent, stored, replayable, queuedLog, run, whole, dropped,
                     nextCall, reply, input, sent, turn>>
  PROVE  RInv'
<1>1. Owed' = {}
  <2>1. ~(replayable /\ stored.status = "Paused")
    BY NotPaused DEF RInv, Ready, Working
  <2> QED BY <2>1 DEF Owed, Owing, Resumable
<1>2. At' = 10 /\ At \in 1..10 /\ nextCall \in Nat
  BY ClockType DEF At, Moving
<1>3. Later
  BY <1>1, <1>2 DEF Later
<1>4. Asked'
  BY <1>2 DEF RInv, Asked
<1> QED BY <1>3, <1>4, MarksMove DEF Working

(* A step without calls in sight: it may leave queued messages to commit.  *)
QueuedCommit(e) ==
  /\ e.kind = "EffectCommitted" /\ PlainMessage(e.message) /\ e.message.kind \in QueuedKinds
LEMMA PlainMoves ==
  ASSUME TypeOK, TypeOK', RInv, Quiet, pc \in Working \cup {"begin"},
         pc' \in Working \cup {"ending"},
         ~(pc = "phase" /\ phase \in 6..8), ~(pc' = "phase" /\ phase' \in 6..8),
         \A i \in 1..Len(todo') : todo'[i].kind \in Effects => QueuedCommit(todo'[i]),
         UNCHANGED <<local, agent, stored, replayable, queuedLog, run, whole, dropped,
                     nextCall, sent>>,
         \/ turn' = turn /\ At <= At' /\ UNCHANGED <<input, reply, calls>>
         \/ turn' = turn + 1 /\ turn > 0 /\ input' = NoInput /\ reply' = <<>> /\ calls' = <<>>
  PROVE  RInv'
<1>1. ~Owing /\ Owed = {} /\ Due = <<>>
  BY Unowing
<1>2. ~Owing' /\ Owed' = {}
  BY UnowingNext
<1>3. Due' = <<>>
  <2>1. 1 \in 1..Len(todo') \/ todo' = <<>>
    <3>1. todo' \in Seq(Events) /\ Len(todo') \in Nat
      BY LenProperties DEF TypeOK
    <3> QED BY <3>1, EmptySeq
  <2>2. todo' = <<>> \/ todo'[1].kind # "EffectCommitted" \/ todo'[1].message.kind # "toolResult"
    BY <2>1 DEF Effects, QueuedCommit, PlainMessage
  <2> QED BY <1>2, <2>2, DueNext
<1>4. At \in 1..10 /\ At' \in 1..10 /\ turn \in Nat /\ nextCall \in Nat
  <2>1. At' \in 1..10
    <3>1. startPhase' \in 1..10 /\ phase' \in 1..10
      BY PhaseCount DEF TypeOK, AfterToolExecute
    <3> QED BY <3>1 DEF At
  <2> QED BY <2>1, ClockType
<1>5. Later
  BY <1>2, <1>4 DEF Later
<1>6. Asked'
  <2>1. At' # 8
    <3>1. startPhase' # 8
      BY DEF TypeOK, AfterToolExecute
    <3> QED BY <3>1 DEF At
  <2>2. Asked
    BY DEF RInv
  <2>3. CASE turn' = turn /\ At <= At' /\ UNCHANGED <<input, reply, calls>>
    <3> HIDE DEF At
    <3>1. At' <= 7 => At <= 7
      BY <1>4, <2>3
    <3> QED BY <2>1, <2>2, <2>3, <3>1 DEF Asked
  <2>4. CASE turn' = turn + 1 /\ turn > 0 /\ input' = NoInput /\ reply' = <<>> /\ calls' = <<>>
    <3>1. Len(<<>>) = 0 /\ turn' > 0
      BY <1>4, <2>4, EmptySeq
    <3> QED BY <2>1, <2>2, <2>4, <3>1 DEF Asked
  <2> QED BY <2>3, <2>4
<1>7. pc \in Ready
  BY DEF Ready
<1>8. InHand'
  BY <1>2 DEF InHand, PlainInHand, QueuedCommit
<1>9. \A i \in 1..Len(todo') : ~New(todo'[i])
  BY DEF New, Brings, QueuedCommit
<1>10. Apart(todo')
  BY <1>9 DEF Apart
<1> QED BY <1>1, <1>3, <1>5, <1>6, <1>7, <1>8, <1>9, <1>10, WorkMoves

LEMMA RBeginTurn == ASSUME IInv, IInv', RInv, BeginTurn PROVE RInv'
<1>1. /\ TypeOK /\ TypeOK' /\ Quiet /\ pc \in {"beginSteer", "loop"}
      /\ UNCHANGED <<run, turn, startPhase, input, reply, calls, local, agent, stored, replayable,
                     whole, sent, queuedLog, nextCall, dropped>>
  BY DEF BeginTurn, IInv, log, history
<1>2. CASE cancelled
  <2>1. pc' = "error" /\ todo' = <<>>
    BY <1>1, <1>2 DEF BeginTurn, Fail, Quiet
  <2> QED BY <1>1, <2>1, NoMark, FailMoves DEF Ready, Working
<1>3. CASE ~cancelled
  <2>1. /\ pc' = "phase" /\ phase' = startPhase
        /\ todo' = <<Event("TurnStarted")>> \/ todo' = <<>>
    BY <1>3 DEF BeginTurn, FirstPhase
  <2>2. \A i \in 1..Len(todo') : todo'[i].kind \notin Effects
    BY <2>1, NoMark, OneMark, Marked
  <2>3. At' = At /\ At \in Nat /\ phase' \notin 6..8
    <3>1. At' = At
      BY <1>1, <2>1 DEF At, Moving
    <3>2. startPhase \in {1, 9}
      BY <1>1 DEF TypeOK, AfterToolExecute
    <3>3. At \in Nat
      BY <1>1, ClockType
    <3> QED BY <2>1, <3>1, <3>2, <3>3
  <2> HIDE DEF At
  <2> QED BY <1>1, <2>1, <2>2, <2>3, PlainMoves DEF Working
<1> QED BY <1>2, <1>3

(* Phases that leave no message.                                           *)
LEMMA CompletesAs ==
  ASSUME TypeOK, NEW k \in 1..9, pc = "phase", phase = k,
         NEW events, CompletePhase(events)
  PROVE  /\ pc' = "phase" /\ phase' = k + 1 /\ At = k /\ At' = k + 1
         /\ todo' = Append(events, Event("PhaseCompleted"))
         /\ events = <<>> => \A i \in 1..Len(todo') : todo'[i].kind \notin Effects
<1>1. pc' = "phase" /\ phase' = k + 1 /\ todo' = Append(events, Event("PhaseCompleted"))
  BY DEF CompletePhase
<1>2. At = k /\ At' = k + 1
  BY <1>1 DEF At, Moving
<1> QED BY <1>1, <1>2, OneMark, Marked

LEMMA RFailPhase ==
  ASSUME TypeOK, TypeOK', RInv, Quiet, pc = "phase", NEW why, FailPhase(why),
         UNCHANGED <<local, agent, stored, replayable, queuedLog, run, whole, dropped,
                     nextCall, reply, input, sent, turn>>
  PROVE  RInv'
<1>1. pc' = "error" /\ todo' = <<Event("PhaseFailed")>>
  BY DEF FailPhase, Fail
<1> QED BY <1>1, OneMark, Marked, FailMoves DEF Ready, Working

LEMMA RPreparePhase == ASSUME IInv, IInv', RInv, PreparePhase PROVE RInv'
<1>1. /\ TypeOK /\ TypeOK' /\ Quiet /\ pc = "phase" /\ phase \in {2, 4}
      /\ UNCHANGED <<run, turn, startPhase, input, reply, calls, local, agent, stored, replayable,
                     whole, sent, queuedLog, nextCall, dropped>>
  BY PhaseCount DEF PreparePhase, InPhase, Phases, IInv, log, history
<1>2. CASE CompletePhase(<<>>)
  <2>1. /\ pc' = "phase" /\ phase' = phase + 1 /\ At = phase /\ At' = phase + 1
        /\ \A i \in 1..Len(todo') : todo'[i].kind \notin Effects
    BY <1>1, <1>2, CompletesAs
  <2> HIDE DEF At
  <2> QED BY <1>1, <2>1, PlainMoves DEF Working
<1>3. CASE \E why \in ProviderErrors : FailPhase(why)
  BY <1>1, <1>3, RFailPhase
<1> QED BY <1>2, <1>3 DEF PreparePhase

LEMMA RTurnDecision == ASSUME IInv, IInv', RInv, TurnDecision PROVE RInv'
<1>1. /\ TypeOK /\ TypeOK' /\ Quiet /\ pc = "phase" /\ phase = 9 /\ CompletePhase(<<>>)
      /\ UNCHANGED <<run, turn, startPhase, input, reply, calls, local, agent, stored, replayable,
                     whole, sent, queuedLog, nextCall, dropped>>
  BY PhaseCount DEF TurnDecision, InPhase, Phases, IInv, log, history
<1>2. /\ pc' = "phase" /\ phase' = phase + 1 /\ At = phase /\ At' = phase + 1
      /\ \A i \in 1..Len(todo') : todo'[i].kind \notin Effects
  BY <1>1, CompletesAs
<1> HIDE DEF At
<1> QED BY <1>1, <1>2, PlainMoves DEF Working

(* Between two turns.                                                      *)
LEMMA RBetween ==
  ASSUME IInv, IInv', RInv, TurnCompleted \/ SteeringEmpty \/ PrependHeld \/ NextTurn \/ CompleteRun
  PROVE  RInv'
<1>1. /\ TypeOK /\ TypeOK' /\ Quiet
      /\ UNCHANGED <<run, local, agent, stored, replayable, whole, sent, queuedLog, nextCall, dropped>>
  BY DEF TurnCompleted, SteeringEmpty, PrependHeld, NextTurn, CompleteRun, IInv, log, history
<1>2. CASE TurnCompleted \/ SteeringEmpty \/ PrependHeld \/ CompleteRun
  <2>1. /\ pc \in {"phase", "steer", "prepend", "follow"} /\ pc' \in {"steer", "follow", "ending"}
        /\ pc = "phase" => phase \notin 6..8
        /\ UNCHANGED <<turn, input, reply, calls>>
        /\ todo' \in {<<>>, <<Event("TurnCompleted")>>, <<Event("RunCompleted")>>}
    BY <1>2, PhaseCount DEF TurnCompleted, SteeringEmpty, PrependHeld, CompleteRun, cursor, Quiet
  <2>2. \A i \in 1..Len(todo') : todo'[i].kind \notin Effects
    BY <2>1, NoMark, OneMark, Marked
  <2>3. At' = 10 /\ At \in 1..10
    BY <1>1, <2>1, ClockType DEF At, Moving
  <2> HIDE DEF At
  <2>4. At <= At'
    BY <2>3
  <2> QED BY <1>1, <2>1, <2>2, <2>4, PlainMoves DEF Working
<1>3. CASE NextTurn
  <2>1. /\ pc = "follow" /\ pc' = "loop" /\ todo' = <<>> /\ turn' = turn + 1 /\ input' = NoInput
        /\ reply' = <<>> /\ calls' = <<>>
    BY <1>1, <1>3 DEF NextTurn, AnotherTurn, Quiet
  <2>2. turn > 0
    <3>1. run > 0
      BY <2>1 DEF IInv, Numbers, Idle
    <3> QED BY <3>1 DEF RInv, Asked
  <2> QED BY <1>1, <2>1, <2>2, NoMark, PlainMoves DEF Working
<1> QED BY <1>2, <1>3

(* An effect and the end of the phase.                                     *)
LEMMA TwoEvents ==
  ASSUME NEW e \in Events
  PROVE  LET es == Append(<<e>>, Event("PhaseCompleted"))
         IN  /\ es \in Seq(Events) /\ Len(es) = 2 /\ es[1] = e /\ es[2].kind \notin Effects
             /\ \A i \in 1..Len(es) : i = 1 \/ i = 2
<1>1. <<e>> \in Seq(Events) /\ Len(<<e>>) = 1 /\ <<e>>[1] = e
  OBVIOUS
<1>2. Event("PhaseCompleted") \in Events /\ Event("PhaseCompleted").kind \notin Effects
  BY DEF Event, Events, MarkerKinds, Effects
<1> DEFINE s == <<e>>
           m == Event("PhaseCompleted")
<1> HIDE DEF s, m
<1>3. s \in Seq(Events) /\ m \in Events /\ Len(s) = 1 /\ s[1] = e /\ m.kind \notin Effects
  BY <1>1, <1>2 DEF s, m
<1>4. /\ Append(s, m) \in Seq(Events) /\ Len(Append(s, m)) = Len(s) + 1
      /\ Append(s, m)[Len(s) + 1] = m /\ \A i \in 1..Len(s) : Append(s, m)[i] = s[i]
  BY SMTT(30), <1>3, AppendProperties
<1>5. Len(Append(s, m)) = 2 /\ Append(s, m)[2] = m /\ Append(s, m)[1] = e
  BY <1>3, <1>4
<1>6. \A i \in 1..2 : i = 1 \/ i = 2
  OBVIOUS
<1> QED BY <1>3, <1>4, <1>5, <1>6 DEF s, m

(* One new message.                                                        *)
LEMMA OneComes ==
  ASSUME TypeOK, TypeOK', RInv, Quiet, pc = "phase", pc' = "phase",
         UNCHANGED <<local, agent, stored, replayable, queuedLog, run, whole, dropped, turn,
                     nextCall, reply, calls, input, sent>>,
         At < At', Owed' \subseteq Owed, At' <= 7,
         NEW e \in Events, todo' = Append(<<e>>, Event("PhaseCompleted")),
         New(e), Brings(e) \notin Past, Brings(e) \in Past', InHand', Due' = Due
  PROVE  RInv'
<1>1. /\ Len(todo') = 2 /\ todo'[1] = e /\ todo'[2].kind \notin Effects
      /\ \A i \in 1..Len(todo') : i = 1 \/ i = 2
  BY TwoEvents
<1>2. \A i \in 1..Len(todo') : New(todo'[i]) => i = 1
  BY <1>1 DEF New
<1>3. Apart(todo')
  BY <1>2 DEF Apart
<1>4. At \in Nat /\ At' \in Nat /\ nextCall \in Nat
  <2>1. startPhase' \in 1..10 /\ phase' \in 1..10
    BY PhaseCount DEF TypeOK, AfterToolExecute
  <2>2. At' \in Nat
    BY <2>1 DEF At
  <2> QED BY <2>2, ClockType
<1> HIDE DEF At
<1>5. Later
  BY <1>4 DEF Later
<1>6. Asked'
  <2>1. At <= 7 /\ At' # 8
    BY <1>4
  <2> QED BY <2>1 DEF RInv, Asked
<1> QED BY <1>1, <1>2, <1>3, <1>5, <1>6, WorkMoves DEF Ready, Working

LEMMA RInputIngest == ASSUME IInv, IInv', RInv, InputIngest PROVE RInv'
<1>1. /\ TypeOK /\ TypeOK' /\ Quiet /\ pc = "phase" /\ phase = 1
      /\ UNCHANGED <<run, turn, startPhase, input, reply, calls, local, agent, stored, replayable,
                     whole, sent, queuedLog, nextCall, dropped>>
  BY PhaseCount DEF InputIngest, InPhase, Phases, IInv, log, history
<1> DEFINE events == IF turn = 1 /\ input # NoInput THEN <<Committed(input)>> ELSE <<>>
<1>2. CompletePhase(events)
  BY DEF InputIngest
<1>3. pc' = "phase" /\ phase' = 2 /\ At = 1 /\ At' = 2
  BY <1>1, <1>2, CompletesAs
<1>4. CASE ~(turn = 1 /\ input # NoInput)
  <2>1. CompletePhase(<<>>)
    BY <1>2, <1>4
  <2>2. \A i \in 1..Len(todo') : todo'[i].kind \notin Effects
    BY <1>1, <2>1, CompletesAs
  <2> HIDE DEF At
  <2> QED BY <1>1, <1>3, <2>2, PlainMoves DEF Working
<1>5. CASE turn = 1 /\ input # NoInput
  <2> DEFINE e == Committed(input)
  <2>1. e \in Events /\ input \in MessageSet /\ todo' = Append(<<e>>, Event("PhaseCompleted"))
    BY <1>1, <1>2, <1>5 DEF CompletePhase, TypeOK, Committed, Events
  <2>2. input = Message("prompt", run, 1, <<>>)
    BY <1>5 DEF RInv, Asked
  <2>3. input.kind = "prompt" /\ input.run = run /\ input.calls = <<>>
    BY <2>2 DEF Message
  <2>4. e.kind = "EffectCommitted" /\ e.message = input
    BY DEF Committed
  <2> HIDE DEF e, At
  <2>5. New(e) /\ Brings(e) = input
    BY <2>3, <2>4 DEF New, Brings, Effects, QueuedKinds
  <2>6. input \notin Past
    <3>1. run \in Nat
      BY <1>1, ClockType
    <3> QED BY <1>3, <1>5, <2>3, <3>1 DEF Past
  <2>7. input \in Past'
    BY <1>1, <1>3, <2>1, <2>3 DEF Past, QueuedKinds
  <2>8. Owed' = {} /\ ~Owing' /\ Due = <<>>
    BY <1>1, <1>3, Unowing, UnowingNext DEF Working
  <2>9. /\ todo'[1] = e /\ \A i \in 1..Len(todo') : todo'[i].kind \in Effects => i = 1
    BY <2>1, TwoEvents
  <2>10. InHand'
    <3>1. PlainMessage(input)
      BY <2>3 DEF PlainMessage
    <3>2. PlainInHand'
      BY <2>4, <2>8, <2>9, <3>1 DEF PlainInHand
    <3> QED BY <3>2 DEF InHand
  <2>11. Due' = <<>>
    BY <2>3, <2>4, <2>8, <2>9, DueNext
  <2>12. At < At' /\ At' <= 7 /\ Owed' \subseteq Owed /\ Due' = Due
    BY <1>3, <2>8, <2>11
  <2> QED BY <1>1, <1>3, <2>1, <2>5, <2>6, <2>7, <2>10, <2>12, OneComes
<1> QED BY <1>4, <1>5

LEMMA RContextCompact == ASSUME IInv, IInv', RInv, ContextCompact PROVE RInv'
<1>1. /\ TypeOK /\ TypeOK' /\ Quiet /\ pc = "phase" /\ phase = 3
      /\ UNCHANGED <<run, turn, startPhase, input, reply, calls, local, agent, stored, replayable,
                     whole, sent, queuedLog, nextCall, dropped>>
  BY PhaseCount DEF ContextCompact, InPhase, Phases, IInv, log, history
<1>2. CASE CompletePhase(<<>>)
  <2>1. /\ pc' = "phase" /\ phase' = 4 /\ At = 3 /\ At' = 4
        /\ \A i \in 1..Len(todo') : todo'[i].kind \notin Effects
    BY <1>1, <1>2, CompletesAs
  <2> HIDE DEF At
  <2> QED BY <1>1, <2>1, PlainMoves DEF Working
<1>3. CASE \E why \in ProviderErrors : FailPhase(why)
  BY <1>1, <1>3, RFailPhase
<1>4. ASSUME NEW cut \in Cuts(local.msgs), CompletePhase(<<CompactAt(local.msgs, cut)>>)
      PROVE  RInv'
  <2> DEFINE e == CompactAt(local.msgs, cut)
             m == Message("summary", run, turn, <<>>)
  <2>1. /\ pc' = "phase" /\ phase' = 4 /\ At = 3 /\ At' = 4
        /\ todo' = Append(<<e>>, Event("PhaseCompleted"))
    <3> DEFINE es == <<e>>
    <3>1. CompletePhase(es)
      BY <1>4
    <3>2. todo' = Append(es, Event("PhaseCompleted"))
      BY <3>1 DEF CompletePhase
    <3> HIDE DEF es, At
    <3>3. pc' = "phase" /\ phase' = 4 /\ At = 3 /\ At' = 4
      BY <1>1, <3>1, CompletesAs
    <3> QED BY <3>2, <3>3 DEF es
  <2>2. e \in Events /\ e.kind = "MessagesCompacted" /\ e.summary = m
    <3>1. e \in Events
      BY <1>1, CompactType
    <3> QED BY <3>1 DEF CompactAt, Compacted
  <2>3. m \in MessageSet /\ m.kind = "summary" /\ m.run = run /\ m.n = turn
    <3>1. m \in MessageSet
      BY <1>1, MessageType, EmptySeq DEF TypeOK, MessageKinds
    <3> QED BY <3>1 DEF Message
  <2>4. InHand'
    <3>1. Len(todo') = 2 /\ todo'[1] = e /\ todo'[2].kind \notin Effects
      BY <2>1, <2>2, TwoEvents
    <3>2. local'.msgs = local.msgs /\ run' = run /\ turn' = turn
      BY <1>1
    <3>3. \E c \in Cuts(local'.msgs) : todo'[1] = CompactAt(local.msgs, c)
      BY <3>1, <3>2
    <3>4. SummaryInHand'
      BY <2>1, <3>1, <3>2, <3>3 DEF SummaryInHand, CompactAt
    <3> QED BY <3>4 DEF InHand
  <2>5. todo'[1] = e
    BY <2>1, <2>2, TwoEvents
  <2> HIDE DEF e, m, At
  <2>6. New(e) /\ Brings(e) = m
    BY <2>2, <2>3 DEF New, Brings, Effects, QueuedKinds
  <2>7. m \notin Past
    <3>1. run \in Nat /\ turn \in Nat
      BY <1>1, ClockType
    <3> QED BY <2>1, <2>3, <3>1 DEF Past, Before
  <2>8. m \in Past'
    BY <1>1, <2>1, <2>3 DEF Past, Before, QueuedKinds
  <2>9. Owed' = {} /\ ~Owing' /\ Due = <<>>
    BY <1>1, <2>1, Unowing, UnowingNext DEF Working
  <2>10. Due' = <<>>
    BY <2>2, <2>5, <2>9, DueNext
  <2>11. At < At' /\ At' <= 7 /\ Owed' \subseteq Owed /\ Due' = Due
    BY <2>1, <2>9, <2>10
  <2> QED BY <1>1, <2>1, <2>2, <2>4, <2>6, <2>7, <2>8, <2>11, OneComes
<1> QED BY <1>2, <1>3, <1>4 DEF ContextCompact

LEMMA RAssistantCommit == ASSUME IInv, IInv', RInv, AssistantCommit PROVE RInv'
<1>1. /\ TypeOK /\ TypeOK' /\ Quiet /\ pc = "phase" /\ phase = 6
      /\ UNCHANGED <<run, turn, startPhase, input, reply, calls, local, agent, stored, replayable,
                     whole, sent, queuedLog, nextCall, dropped>>
  BY PhaseCount DEF AssistantCommit, InPhase, Phases, IInv, log, history
<1> DEFINE m == Message("assistant", run, turn, reply)
           e == Committed(m)
<1>2. CASE \E why \in ProviderErrors : FailPhase(why)
  BY <1>1, <1>2, RFailPhase
<1>3. CASE CompletePhase(<<e>>)
  <2>1. /\ pc' = "phase" /\ phase' = 7 /\ At = 6 /\ At' = 7
        /\ todo' = Append(<<e>>, Event("PhaseCompleted"))
    <3> DEFINE es == <<e>>
    <3>1. CompletePhase(es)
      BY <1>3
    <3>2. todo' = Append(es, Event("PhaseCompleted"))
      BY <3>1 DEF CompletePhase
    <3> HIDE DEF es, At
    <3>3. pc' = "phase" /\ phase' = 7 /\ At = 6 /\ At' = 7
      BY <1>1, <3>1, CompletesAs
    <3> QED BY <3>2, <3>3 DEF es
  <2>2. m \in MessageSet /\ m.kind = "assistant" /\ m.run = run /\ m.n = turn
    <3>1. m \in MessageSet
      BY <1>1, MessageType DEF TypeOK, MessageKinds
    <3> QED BY <3>1 DEF Message
  <2>3. e \in Events /\ e.kind = "EffectCommitted" /\ e.message = m
    BY <2>2 DEF Committed, Events
  <2>4. Len(todo') = 2 /\ todo'[1] = e /\ todo'[2].kind \notin Effects
    BY <2>1, <2>3, TwoEvents
  <2>5. InHand'
    <3>1. todo'[1] = Committed(Message("assistant", run', turn', reply'))
      BY <1>1, <2>4
    <3>2. AssistantInHand'
      BY <2>1, <2>4, <3>1 DEF AssistantInHand
    <3> QED BY <3>2 DEF InHand
  <2> HIDE DEF e, m, At
  <2>6. New(e) /\ Brings(e) = m
    BY <2>2, <2>3 DEF New, Brings, Effects, QueuedKinds
  <2>7. m \notin Past
    <3>1. run \in Nat /\ turn \in Nat
      BY <1>1, ClockType
    <3> QED BY <2>1, <2>2, <3>1 DEF Past, Before
  <2>8. m \in Past'
    BY <1>1, <2>1, <2>2 DEF Past, Before, QueuedKinds
  <2>9. Owed' = Owed
    BY <1>1, <2>1 DEF Owed, Owing
  <2>10. Due = <<>> /\ Due' = <<>>
    <3>1. Due = <<>>
      BY <1>1 DEF Due
    <3>2. ~Quiet'
      BY <2>4, EmptySeq DEF Quiet
    <3> QED BY <2>2, <2>3, <2>4, <3>1, <3>2 DEF Due
  <2>11. At < At' /\ At' <= 7 /\ Owed' \subseteq Owed /\ Due' = Due
    BY <2>1, <2>9, <2>10
  <2> QED BY <1>1, <2>1, <2>3, <2>5, <2>6, <2>7, <2>8, <2>11, OneComes
<1> QED BY <1>2, <1>3 DEF AssistantCommit

LEMMA RModelStream == ASSUME IInv, IInv', RInv, ModelStream PROVE RInv'
<1>1. /\ TypeOK /\ TypeOK' /\ Quiet /\ pc = "phase" /\ phase = 5
      /\ UNCHANGED <<run, turn, startPhase, input, calls, local, agent, stored, replayable,
                     whole, sent, queuedLog, dropped>>
  BY PhaseCount DEF ModelStream, InPhase, Phases, IInv, log
<1>2. CASE \E why \in ProviderErrors : FailPhase(why) /\ UNCHANGED <<reply, nextCall, asked>>
  BY <1>1, <1>2, RFailPhase
<1>3. ASSUME NEW n \in 0..(MaxCalls + 1 - nextCall),
             reply' = [i \in 1..n |-> nextCall + i - 1], nextCall' = nextCall + n,
             CompletePhase(<<>>)
      PROVE  RInv'
  <2>1. /\ pc' = "phase" /\ phase' = 6 /\ At = 5 /\ At' = 6
        /\ todo' = Append(<<>>, Event("PhaseCompleted"))
        /\ \A i \in 1..Len(todo') : todo'[i].kind \notin Effects
    <3>1. todo' = Append(<<>>, Event("PhaseCompleted"))
      BY <1>3 DEF CompletePhase
    <3>2. /\ pc' = "phase" /\ phase' = 6 /\ At = 5 /\ At' = 6
          /\ \A i \in 1..Len(todo') : todo'[i].kind \notin Effects
      BY <1>1, <1>3, CompletesAs
    <3> QED BY <3>1, <3>2
  <2>2. n \in Nat /\ nextCall \in Nat /\ MaxCalls \in Nat
    BY <1>1, ClockType, LoopAssumption
  <2>3. Len(reply') = n /\ \A i \in 1..n : reply'[i] = nextCall + i - 1
    <3>1. reply' \in Seq(1..MaxCalls) /\ DOMAIN reply' = 1..n
      BY <1>1, <1>3 DEF TypeOK
    <3>2. DOMAIN reply' = 1..Len(reply') /\ Len(reply') \in Nat
      BY <3>1, LenProperties
    <3>3. Len(reply') = n
      BY <2>2, <3>1, <3>2
    <3> QED BY <1>3, <3>3
  <2> HIDE DEF At
  <2>4. \A k \in ToSet(reply') : nextCall <= k
    <3>1. reply' \in Seq(1..MaxCalls)
      BY <1>1 DEF TypeOK
    <3>2. \A k \in ToSet(reply') : \E i \in 1..n : k = nextCall + i - 1
      BY <2>3, <3>1, Elements
    <3> QED BY <2>2, <3>2
  <2>5. Later
    <3>1. \A k \in Owed' : k \in ToSet(reply')
      BY DEF Owed
    <3>2. \A k \in Owed' : ~(k < nextCall)
      <4>1. \A k \in ToSet(reply') : k \in 1..MaxCalls
        BY <1>1, Elements DEF TypeOK
      <4>2. \A k \in ToSet(reply') : k \in Nat /\ nextCall <= k
        BY <2>2, <2>4, <4>1
      <4> QED BY <2>2, <3>1, <4>2
    <3>3. nextCall <= nextCall'
      BY <1>3, <2>2
    <3> QED BY <1>1, <2>1, <3>2, <3>3 DEF Later
  <2>6. Asked'
    <3>1. \A i, j \in 1..n : i < j => reply'[i] # reply'[j]
      BY <2>2, <2>3
    <3>2. \A i \in 1..n : reply'[i] < nextCall'
      BY <1>3, <2>2, <2>3
    <3> QED BY <1>1, <2>1, <2>3, <3>1, <3>2 DEF RInv, Asked
  <2>7. Due = <<>> /\ Due' = <<>>
    <3>1. Due = <<>>
      BY <1>1, Unowing DEF Working
    <3>2. todo' = <<Event("PhaseCompleted")>>
      BY <2>1, Marked
    <3>3. todo'[1].kind # "EffectCommitted"
      BY <3>2 DEF Event
    <3> QED BY <2>1, <3>1, <3>3 DEF Due
  <2> QED BY <1>1, <2>1, <2>5, <2>6, <2>7, MarksMove DEF Ready, Working
<1> QED BY <1>2, <1>3 DEF ModelStream

LEMMA RToolCallResolve == ASSUME IInv, IInv', RInv, ToolCallResolve PROVE RInv'
<1>1. /\ TypeOK /\ TypeOK' /\ Quiet /\ pc = "phase" /\ phase = 7 /\ CompletePhase(<<>>)
      /\ UNCHANGED <<run, turn, startPhase, input, reply, local, agent, stored, replayable,
                     whole, sent, queuedLog, nextCall, dropped>>
      /\ calls' = calls \o reply
  BY PhaseCount DEF ToolCallResolve, InPhase, Phases, IInv, log, history
<1>2. /\ pc' = "phase" /\ phase' = 8 /\ At = 7 /\ At' = 8
      /\ todo' = Append(<<>>, Event("PhaseCompleted"))
      /\ \A i \in 1..Len(todo') : todo'[i].kind \notin Effects
  <2>1. todo' = Append(<<>>, Event("PhaseCompleted"))
    BY <1>1 DEF CompletePhase
  <2>2. /\ pc' = "phase" /\ phase' = 8 /\ At = 7 /\ At' = 8
        /\ \A i \in 1..Len(todo') : todo'[i].kind \notin Effects
    BY <1>1, CompletesAs
  <2> QED BY <2>1, <2>2
<1>3. calls' = reply'
  <2>1. calls = <<>>
    BY <1>2 DEF RInv, Asked
  <2>2. reply \in Seq(1..MaxCalls)
    BY <1>1 DEF TypeOK
  <2>3. <<>> \o reply = reply
    BY <2>2, ConcatEmptySeq
  <2> QED BY <1>1, <2>1, <2>3
<1>4. Owed' = Owed
  BY <1>1, <1>2 DEF Owed, Owing
<1>5. Due' = Due
  <2>1. todo' = <<Event("PhaseCompleted")>>
    BY <1>2, Marked
  <2>2. todo'[1].kind # "EffectCommitted"
    BY <2>1 DEF Event
  <2>3. Due = Answers(reply)
    BY <1>1 DEF Due, Owing
  <2>4. Due' = Answers(reply)
    BY <1>1, <1>2, <2>2 DEF Due, Owing, Answers
  <2> QED BY <2>3, <2>4
<1> HIDE DEF At
<1>6. nextCall \in Nat
  BY <1>1, ClockType
<1>7. Later
  BY <1>1, <1>2, <1>4, <1>6 DEF Later
<1>8. Asked'
  BY <1>1, <1>2, <1>3 DEF RInv, Asked
<1> QED BY <1>1, <1>2, <1>5, <1>7, <1>8, MarksMove DEF Ready, Working

(* The results of the calls of a turn.                                     *)
LEMMA CommittedIs ==
  \A m : Committed(m).kind = "EffectCommitted" /\ Committed(m).message = m
BY DEF Committed

LEMMA ResultsDue ==
  ASSUME run \in 0..MaxRuns, NEW cs \in Seq(1..MaxCalls),
         todo' = Append(Results(cs), Event("PhaseCompleted"))
  PROVE  /\ todo' \in Seq(Events) /\ Len(todo') = Len(cs) + 1 /\ Len(cs) \in Nat
         /\ \A i \in 1..Len(cs) :
              /\ todo'[i] = Committed(Message("toolResult", run, cs[i], <<>>))
              /\ todo'[i].kind = "EffectCommitted"
              /\ todo'[i].message = Message("toolResult", run, cs[i], <<>>)
         /\ todo'[Len(cs) + 1].kind \notin Effects
         /\ [i \in 1..(Len(todo') - 1) |-> todo'[i].message] = Answers(cs)
<1> DEFINE rs == Results(cs)
           m == Event("PhaseCompleted")
           es == todo'
<1>1. rs \in Seq(Events) /\ Len(rs) = Len(cs)
  BY ResultsType
<1>2. DOMAIN cs = 1..Len(cs) /\ Len(cs) \in Nat
  BY LenProperties
<1>3. \A i \in 1..Len(cs) : rs[i] = Committed(Message("toolResult", run, cs[i], <<>>))
  BY <1>2 DEF Results
<1>4. m \in Events /\ m.kind \notin Effects
  BY DEF Event, Events, MarkerKinds, Effects
<1>5. es = Append(rs, m)
  OBVIOUS
<1> HIDE DEF rs, m, es
<1>6. /\ Append(rs, m) \in Seq(Events) /\ Len(Append(rs, m)) = Len(rs) + 1
      /\ Append(rs, m)[Len(rs) + 1] = m /\ \A i \in 1..Len(rs) : Append(rs, m)[i] = rs[i]
  BY <1>1, <1>4, AppendProperties
<1>7. /\ es \in Seq(Events) /\ Len(es) = Len(cs) + 1 /\ es[Len(cs) + 1] = m
      /\ \A i \in 1..Len(cs) : es[i] = Committed(Message("toolResult", run, cs[i], <<>>))
  BY <1>1, <1>3, <1>5, <1>6
<1>8. Len(es) - 1 = Len(cs)
  BY <1>2, <1>7
<1>9. \A i \in 1..Len(cs) : es[i].kind = "EffectCommitted"
                            /\ es[i].message = Message("toolResult", run, cs[i], <<>>)
  BY <1>7, CommittedIs
<1>10. [i \in 1..(Len(es) - 1) |-> es[i].message] = Answers(cs)
  BY <1>8, <1>9 DEF Answers
<1> QED BY <1>2, <1>4, <1>7, <1>9, <1>10 DEF es

LEMMA ResultsCome ==
  ASSUME TypeOK, TypeOK', RInv, Quiet,
         UNCHANGED <<local, agent, stored, replayable, queuedLog, run, whole, dropped, turn,
                     nextCall, reply, input, sent>>,
         pc \in Ready, Owing, phase # 6, At \in 6..10,
         pc' \in Working, ~(pc' = "phase" /\ phase' \in 6..8), At' = 9,
         todo' = Append(Results(reply), Event("PhaseCompleted"))
  PROVE  RInv'
<1>1. /\ run \in 0..MaxRuns /\ reply \in Seq(1..MaxCalls) /\ nextCall \in Nat
      /\ \A i \in 1..Len(reply) : reply[i] \in 1..MaxCalls /\ reply[i] \in ToSet(reply)
  <2>1. nextCall \in Nat
    BY ClockType
  <2>2. reply \in Seq(1..MaxCalls)
    BY DEF TypeOK
  <2>3. \A i \in 1..Len(reply) : reply[i] \in 1..MaxCalls /\ reply[i] \in ToSet(reply)
    BY <2>2, Elements, ElementOfSeq
  <2> QED BY <2>1, <2>2, <2>3 DEF TypeOK
<1> DEFINE c == Len(reply)
           a(i) == Message("toolResult", run, reply[i], <<>>)
<1>2. /\ todo' \in Seq(Events) /\ Len(todo') = c + 1 /\ c \in Nat
      /\ \A i \in 1..c : todo'[i] = Committed(a(i)) /\ todo'[i].kind = "EffectCommitted"
                         /\ todo'[i].message = a(i)
      /\ todo'[c + 1].kind \notin Effects
      /\ [i \in 1..(Len(todo') - 1) |-> todo'[i].message] = Answers(reply)
  <2>1. /\ Len(todo') = Len(reply) + 1 /\ Len(reply) \in Nat /\ todo' \in Seq(Events)
        /\ \A i \in 1..Len(reply) :
              /\ todo'[i] = Committed(Message("toolResult", run, reply[i], <<>>))
              /\ todo'[i].kind = "EffectCommitted"
              /\ todo'[i].message = Message("toolResult", run, reply[i], <<>>)
        /\ todo'[Len(reply) + 1].kind \notin Effects
        /\ [i \in 1..(Len(todo') - 1) |-> todo'[i].message] = Answers(reply)
    BY <1>1, ResultsDue
  <2> QED BY <2>1
<1>3. \A i \in 1..c : a(i) \in MessageSet /\ Answers(reply)[i] = a(i)
  <2>1. /\ Answers(reply) \in Seq(MessageSet) /\ Len(Answers(reply)) = c
        /\ \A i \in 1..c : Answers(reply)[i] = a(i)
    BY <1>1, AnswersType
  <2> HIDE DEF c, a
  <2>2. \A i \in 1..c : Answers(reply)[i] \in MessageSet
    BY <2>1, ElementOfSeq
  <2> QED BY <2>1, <2>2
<1>4. \A i \in 1..c : a(i).kind = "toolResult" /\ a(i).n = reply[i]
  BY DEF Message
<1>5. \A i \in 1..c :
        todo'[i].kind = "EffectCommitted" /\ todo'[i].message = a(i) /\ Brings(todo'[i]) = a(i)
  <2> TAKE i \in 1..c
  <2>1. todo'[i].kind = "EffectCommitted" /\ todo'[i].message = a(i)
    BY <1>2
  <2> QED BY <2>1 DEF Brings
<1>6. ~Owing' /\ Owed' = {} /\ Owed = ToSet(reply)
  BY UnowingNext DEF Owed
<1> HIDE DEF At
<1>7. Asked
  BY DEF RInv
<1>8. \A i \in 1..c : a(i) \notin Past /\ a(i) \in Past'
  <2> TAKE i \in 1..c
  <2>1. a(i).n \in Owed /\ a(i).n < nextCall
    BY <1>1, <1>4, <1>6, <1>7 DEF Asked
  <2>2. a(i) \in MessageSet /\ a(i).kind = "toolResult"
    BY <1>3, <1>4
  <2> HIDE DEF a
  <2>3. a(i) \notin Past
    BY <2>1, <2>2 DEF Past
  <2>4. a(i) \in Past'
    BY <1>6, <2>1, <2>2 DEF Past, QueuedKinds
  <2> QED BY <2>3, <2>4
<1>9. \A i \in 1..Len(todo') : (i \in 1..c \/ i = c + 1) /\ (i = Len(todo') <=> i = c + 1)
  BY <1>2
<1> HIDE DEF c
<1>10. \A i \in 1..Len(todo') : New(todo'[i]) => i \in 1..c
  BY <1>2, <1>9 DEF New
<1>11. Apart(todo')
  <2> SUFFICES ASSUME NEW i \in 1..Len(todo'), NEW j \in 1..Len(todo'),
                      i < j, New(todo'[i]), New(todo'[j])
               PROVE  ~Clash(Brings(todo'[i]), Brings(todo'[j]))
    BY DEF Apart
  <2>1. i \in 1..c /\ j \in 1..c
    BY <1>10
  <2>2. reply[i] # reply[j]
    BY <1>7, <2>1 DEF Asked, c
  <2>3. Brings(todo'[i]).n # Brings(todo'[j]).n
    BY <1>4, <1>5, <2>1, <2>2
  <2> QED BY <2>3 DEF Clash
<1>12. Later
  BY <1>1, <1>6 DEF Later
<1>13. Asked'
  BY <1>7 DEF Asked
<1>14. InHand'
  <2>1. ResultsInHand'
    <3>1. \A i \in 1..c : todo'[i] = Committed(Message("toolResult", run', todo'[i].message.n, <<>>))
      BY <1>2, <1>4, <1>5
    <3> QED BY <1>2, <1>5, <1>6, <1>9, <3>1 DEF ResultsInHand, Result
  <2> QED BY <2>1 DEF InHand
<1>15. Due = Answers(reply)
  BY DEF Due
<1>16. Due' = Answers(reply)
  <2>1. CASE c = 0
    <3>1. todo'[1].kind # "EffectCommitted"
      BY <1>2, <2>1 DEF Effects
    <3>2. Due' = <<>>
      BY <1>6, <3>1, DueNext
    <3>3. reply = <<>>
      BY <1>1, <2>1, Elements DEF c
    <3> QED BY <3>2, <3>3, NoAnswers
  <2>2. CASE c # 0
    <3>1. 1 \in 1..c
      BY <1>2, <2>2
    <3>2. todo' # <<>> /\ todo'[1].kind = "EffectCommitted" /\ todo'[1].message.kind = "toolResult"
      <4>1. todo' # <<>>
        BY <1>2, EmptySeq
      <4> QED BY <1>4, <1>5, <3>1, <4>1
    <3> QED BY <1>2, <3>2 DEF Due, Quiet
  <2> QED BY <2>1, <2>2
<1>17. \A i \in 1..Len(todo') : New(todo'[i]) =>
         Brings(todo'[i]) \notin Past /\ Brings(todo'[i]) \in Past'
  BY <1>5, <1>8, <1>10
<1> QED BY <1>11, <1>12, <1>13, <1>14, <1>15, <1>16, <1>17, WorkMoves

(* A pause.                                                                *)
LEMMA RPauses ==
  ASSUME TypeOK, TypeOK', RInv, Quiet,
         UNCHANGED <<local, agent, stored, replayable, queuedLog, run, whole, dropped, turn,
                     nextCall, reply, input, sent, phase>>,
         pc = "resuming" \/ pc = "phase", Owing, phase = 8, pc' = "paused",
         NEW c \in Conts, PausesFor(c), c.turn = turn, c.calls = reply
  PROVE  RInv'
<1>1. /\ todo' \in Seq(Events) /\ todo' # <<>> /\ todo'[Len(todo')] = RunPaused(c)
      /\ \A i \in 1..Len(todo') : todo'[i].kind \notin Effects
      /\ todo'[1].kind # "EffectCommitted"
  <2>1. todo' \in Seq(Events) /\ todo' # <<>> /\ Len(todo') \in Nat /\ Len(todo') # 0
    BY Elements DEF PausesFor
  <2>2. 1 \in 1..Len(todo') /\ Len(todo') \in 1..Len(todo')
    BY <2>1
  <2>3. \A i \in 1..Len(todo') : todo'[i].kind \notin Effects
    BY DEF PausesFor, RunPaused, Effects
  <2> QED BY <2>1, <2>2, <2>3 DEF PausesFor, Effects
<1>2. ~(replayable /\ stored.status = "Paused")
  BY NotPaused DEF RInv
<1>3. Pausing'
  <2>1. todo'[Len(todo')].cont = c /\ ~Quiet'
    BY <1>1 DEF RunPaused, Quiet
  <2> QED BY <1>2, <2>1 DEF Pausing, OfTurn
<1>4. At \in 1..10 /\ At' = 10 /\ nextCall \in Nat
  BY ClockType DEF At, Moving
<1>5. Owed' = Owed
  BY DEF Owed, Owing
<1> HIDE DEF At
<1>6. Later
  BY <1>4, <1>5 DEF Later
<1>7. Asked'
  BY <1>4 DEF RInv, Asked
<1>8. InHand'
  BY <1>1 DEF InHand, PlainInHand
<1>9. \A i \in 1..Len(todo') : ~New(todo'[i])
  BY <1>1 DEF New
<1>10. Apart(todo')
  BY <1>9 DEF Apart
<1>11. Due' = Due
  BY <1>1 DEF Due, Owing, Answers, Quiet
<1>12. Live /\ ~Resumable'
  BY <1>2 DEF Live, Resumable
<1> QED BY <1>3, <1>6, <1>7, <1>8, <1>9, <1>10, <1>11, <1>12, QuietMoves

LEMMA RToolPhase == ASSUME IInv, IInv', RInv, ToolPhase PROVE RInv'
<1>1. /\ TypeOK /\ TypeOK' /\ Quiet /\ pc = "phase" /\ phase = 8
      /\ UNCHANGED <<run, turn, startPhase, input, reply, calls, local, agent, stored, replayable,
                     whole, sent, queuedLog, nextCall, dropped>>
      /\ UNCHANGED <<cancelled, log, aborter>>
  BY PhaseCount DEF ToolPhase, InPhase, Phases, IInv, log, history
<1>2. At = 8 /\ Owing /\ pc \in Ready
  BY <1>1 DEF At, Moving, Owing, Ready, Working
<1>3. calls = reply
  BY <1>2 DEF RInv, Asked
<1>4. reply \in Seq(1..MaxCalls) /\ turn \in Nat
  BY <1>1 DEF TypeOK
<1>5. CASE CompletePhase(Results(calls))
  <2>1. pc' = "phase" /\ phase' = 9 /\ At' = 9 /\ todo' = Append(Results(calls), Event("PhaseCompleted"))
    BY <1>1, <1>5, CompletesAs
  <2> HIDE DEF At
  <2> QED BY <1>1, <1>2, <1>3, <2>1, ResultsCome DEF Working
<1>6. CASE calls = <<>> /\ CompletePhase(<<>>)
  <2>1. Results(calls) = <<>>
    <3>1. run \in 0..MaxRuns
      BY <1>1 DEF TypeOK
    <3>2. Results(calls) \in Seq(Events) /\ Len(Results(calls)) = Len(calls)
      BY <1>3, <1>4, <3>1, ResultsType
    <3> QED BY <1>6, <3>2, EmptySeq
  <2> QED BY <1>5, <1>6, <2>1
<1>7. CASE \E why \in ProviderErrors : FailPhase(why)
  BY <1>1, <1>7, RFailPhase
<1>8. ASSUME NEW ask \in SUBSET ToSet(calls) \ {{}}, NEW hook \in [ask -> 1..NHooks],
             PauseFor(turn, calls, {<<c, hook[c]>> : c \in ask}), UNCHANGED phase
      PROVE  RInv'
  <2> DEFINE pending == {<<c, hook[c]>> : c \in ask}
             k == [turn |-> turn, calls |-> calls, pending |-> pending]
  <2>1. ToSet(calls) \subseteq 1..MaxCalls
    BY <1>3, <1>4, ToSetType
  <2>2. \A c \in ask : c \in 1..MaxCalls /\ hook[c] \in 1..NHooks
    BY <2>1
  <2>3. pending \in SUBSET ApprovalIds
    BY <2>2 DEF ApprovalIds
  <2>4. PauseFor(turn, calls, pending)
    BY <1>8
  <2>5. pc' = "paused"
    BY <1>8 DEF PauseFor
  <2> HIDE DEF pending
  <2>6. PausesFor(k)
    BY <1>1, <1>3, <1>4, <2>3, <2>4, PauseType
  <2>7. k \in Conts /\ k.turn = turn /\ k.calls = reply
    BY <1>3, <1>4, <2>3 DEF Conts
  <2> HIDE DEF k
  <2> QED BY <1>1, <1>2, <1>8, <2>5, <2>6, <2>7, RPauses
<1> QED BY <1>5, <1>6, <1>7, <1>8 DEF ToolPhase

LEMMA RResumePhase == ASSUME IInv, IInv', RInv, ResumePhase PROVE RInv'
<1>1. /\ TypeOK /\ TypeOK' /\ Quiet /\ pc = "resuming"
      /\ UNCHANGED <<run, input, reply, phase, local, agent, stored, replayable,
                     whole, sent, queuedLog, nextCall, dropped>>
      /\ UNCHANGED <<cancelled, log, aborter>>
      /\ turn' = cont.turn /\ startPhase' = 9
  BY DEF ResumePhase, IInv, log, history, AfterToolExecute
<1>2. cont.calls = reply /\ cont.turn = turn /\ phase = 8
  BY <1>1 DEF RInv, Pausing, OfTurn
<1>3. At = 10 /\ Owing /\ pc \in Ready
  BY <1>1 DEF At, Moving, Owing, Ready
<1>4. cont.calls \in Seq(1..MaxCalls) /\ cont.turn \in Nat /\ cont.pending \in SUBSET ApprovalIds
  BY <1>1 DEF TypeOK, Conts
<1>5. CASE todo' = Append(ResumedResults, Event("PhaseCompleted")) /\ pc' = "loop"
  <2>1. todo' = Append(Results(reply), Event("PhaseCompleted"))
    BY <1>2, <1>5 DEF ResumedResults
  <2>2. At' = 9
    BY <1>1, <1>5 DEF At, Moving
  <2> HIDE DEF At
  <2> QED BY <1>1, <1>2, <1>3, <1>5, <2>1, <2>2, ResultsCome DEF Working
<1>6. ASSUME NEW again \in SUBSET cont.pending \ {{}}, NEW hook \in [again -> 1..NHooks],
             PauseFor(cont.turn, cont.calls, {<<id[1], hook[id]>> : id \in again})
      PROVE  RInv'
  <2> DEFINE pending == {<<id[1], hook[id]>> : id \in again}
             k == [turn |-> cont.turn, calls |-> cont.calls, pending |-> pending]
  <2>1. \A id \in again : id[1] \in 1..MaxCalls /\ hook[id] \in 1..NHooks
    BY <1>4 DEF ApprovalIds
  <2>2. pending \in SUBSET ApprovalIds
    BY <2>1 DEF ApprovalIds
  <2>3. PauseFor(cont.turn, cont.calls, pending)
    BY <1>6
  <2>4. pc' = "paused"
    BY <1>6 DEF PauseFor
  <2> HIDE DEF pending
  <2>5. PausesFor(k)
    BY <1>1, <1>4, <2>2, <2>3, PauseType
  <2>6. k \in Conts /\ k.turn = turn /\ k.calls = reply
    BY <1>2, <1>4, <2>2 DEF Conts
  <2> HIDE DEF k
  <2> QED BY <1>1, <1>2, <1>3, <2>4, <2>5, <2>6, RPauses
<1>7. ASSUME NEW why \in ProviderErrors, todo' = <<Event("PhaseFailed")>>, Fail(why)
      PROVE  RInv'
  <2>1. pc' = "error" /\ \A i \in 1..Len(todo') : todo'[i].kind \notin Effects
    BY <1>7, OneMark, Marked DEF Fail
  <2> QED BY <1>1, <1>2, <1>3, <2>1, FailMoves
<1> QED BY <1>5, <1>6, <1>7 DEF ResumePhase

(* Queued messages on their way to the transcript.                         *)
LEMMA QueuedCome ==
  ASSUME IInv, IInv', RInv, Quiet, pc \in {"begin", "steer", "follow"},
         pc' \in {"beginSteer", "loop", "prepend"}, pc = "begin" <=> pc' = "beginSteer",
         NEW messages \in Seq(MessageSet), todo' = Commits(messages),
         \A m \in ToSet(messages) : m.kind \in QueuedKinds /\ m.calls = <<>>,
         UNCHANGED <<local, agent, stored, replayable, queuedLog, run, whole, dropped,
                     nextCall, sent, startPhase>>,
         \/ pc' # "loop" /\ UNCHANGED <<turn, input, reply, calls>>
         \/ turn' = turn + 1 /\ input' = NoInput /\ reply' = <<>> /\ calls' = <<>>
  PROVE  RInv'
<1>1. TypeOK /\ TypeOK'
  BY DEF IInv
<1>2. ASSUME NEW i \in 1..Len(todo') PROVE QueuedCommit(todo'[i])
  <2>1. /\ DOMAIN messages = 1..Len(messages) /\ Len(messages) \in Nat
        /\ \A k \in 1..Len(messages) : messages[k] \in ToSet(messages)
    BY LenProperties, Elements
  <2>2. MessagesOf(todo') = messages /\ todo' \in Seq(Events)
    BY <1>1, MessagesOfCommits DEF TypeOK
  <2>3. Len(todo') = Len(messages)
    BY <2>2, MessagesType
  <2>4. todo'[i] = Committed(messages[i])
    BY <2>1, <2>3 DEF Commits
  <2>5. messages[i] \in ToSet(messages)
    BY <2>1, <2>3
  <2> QED BY <2>4, <2>5, CommittedIs DEF QueuedCommit, PlainMessage, QueuedKinds
<1>3. turn > 0 /\ turn \in Nat
  <2>1. run > 0
    BY DEF IInv, Numbers, Idle
  <2> QED BY <1>1, <2>1, ClockType DEF RInv, Asked
<1>4. At \in 1..10 /\ (turn' = turn => At <= At')
  <2>1. pc' # "loop" => At' = At \/ At' = 10
    BY DEF At, Moving
  <2>2. At \in 1..10
    BY <1>1, ClockType
  <2> HIDE DEF At
  <2> QED BY <1>3, <2>1, <2>2
<1> HIDE DEF At
<1>5. \A i \in 1..Len(todo') : todo'[i].kind \in Effects => QueuedCommit(todo'[i])
  BY <1>2
<1> QED BY <1>1, <1>3, <1>4, <1>5, PlainMoves DEF Working

LEMMA InQueue ==
  ASSUME TypeOK, MInv, RInv
  PROVE  \A m \in ToSet(steering) \cup ToSet(followUp) : m.kind \in QueuedKinds /\ m.calls = <<>>
<1>1. \A m \in ToSet(steering) \cup ToSet(followUp) : m.kind \in QueuedKinds
  BY KindsOf DEF MInv
<1>2. ToSet(steering) \cup ToSet(followUp) \subseteq ToSet(sent)
  BY DEF MInv, Placed, Places
<1>3. sent \in Seq(MessageSet)
  BY DEF TypeOK
<1>4. \A m \in ToSet(sent) : m.calls = <<>>
  <2> TAKE m \in ToSet(sent)
  <2>1. PICK i \in 1..Len(sent) : sent[i] = m
    BY <1>3, Elements
  <2> QED BY <2>1 DEF RInv, Asked
<1> QED BY <1>1, <1>2, <1>4

LEMMA DrainOf ==
  ASSUME NEW queue \in Seq(MessageSet), NEW mode \in QueueModes
  PROVE  Drained(queue, mode) \in Seq(MessageSet) /\ ToSet(Drained(queue, mode)) \subseteq ToSet(queue)
<1>1. /\ Drained(queue, mode) \in Seq(MessageSet) /\ Remaining(queue, mode) \in Seq(MessageSet)
      /\ Drained(queue, mode) \o Remaining(queue, mode) = queue
  BY DrainSplits
<1>2. ToSet(Drained(queue, mode) \o Remaining(queue, mode)) =
        ToSet(Drained(queue, mode)) \cup ToSet(Remaining(queue, mode))
  BY <1>1, Joined
<1> QED BY <1>1, <1>2

LEMMA RQueues ==
  ASSUME IInv, MInv, IInv', RInv,
         BeginSteering \/ SteeringAtContinue \/ SteeringAtStop \/ TurnAfterStop
  PROVE  RInv'
<1>1. /\ TypeOK /\ steering \in Seq(MessageSet) /\ followUp \in Seq(MessageSet)
      /\ SteeringMode \in QueueModes /\ FollowUpMode \in QueueModes
  BY LineTypes DEF IInv, TypeOK
<1>2. \A m \in ToSet(steering) \cup ToSet(followUp) : m.kind \in QueuedKinds /\ m.calls = <<>>
  BY <1>1, InQueue
<1> DEFINE s == Drained(steering, SteeringMode)
           f == Drained(followUp, FollowUpMode)
           o == OfKind(s, "observation")
<1>3. /\ s \in Seq(MessageSet) /\ ToSet(s) \subseteq ToSet(steering)
      /\ f \in Seq(MessageSet) /\ ToSet(f) \subseteq ToSet(followUp)
  BY <1>1, DrainOf
<1>4. o \in Seq(MessageSet) /\ ToSet(o) \subseteq ToSet(steering)
  BY <1>3, KeptOf DEF OfKind
<1>5. CASE BeginSteering
  <2>1. todo' = Commits(s)
    BY <1>5 DEF BeginSteering
  <2>2. /\ Quiet /\ pc = "begin" /\ pc' = "beginSteer"
        /\ UNCHANGED <<local, agent, stored, replayable, queuedLog, run, whole, dropped,
                       nextCall, sent, startPhase, turn, input, reply, calls>>
    BY <1>5 DEF BeginSteering, log, cursor, history
  <2> HIDE DEF s
  <2> QED BY <1>2, <1>3, <2>1, <2>2, QueuedCome
<1>6. CASE SteeringAtContinue
  <2>1. todo' = Commits(s)
    BY <1>6 DEF SteeringAtContinue
  <2>2. /\ Quiet /\ pc = "steer" /\ pc' = "loop"
        /\ UNCHANGED <<local, agent, stored, replayable, queuedLog, run, whole, dropped,
                       nextCall, sent, startPhase>>
        /\ turn' = turn + 1 /\ input' = NoInput /\ reply' = <<>> /\ calls' = <<>>
    BY <1>6 DEF SteeringAtContinue, AnotherTurn, log
  <2> HIDE DEF s
  <2> QED BY <1>2, <1>3, <2>1, <2>2, QueuedCome
<1>7. CASE SteeringAtStop
  <2>1. todo' = Commits(o)
    BY <1>7 DEF SteeringAtStop
  <2>2. /\ Quiet /\ pc = "steer" /\ pc' = "prepend"
        /\ UNCHANGED <<local, agent, stored, replayable, queuedLog, run, whole, dropped,
                       nextCall, sent, startPhase, turn, input, reply, calls>>
    BY <1>7 DEF SteeringAtStop, log, cursor, history
  <2> HIDE DEF s, o
  <2> QED BY <1>2, <1>4, <2>1, <2>2, QueuedCome
<1>8. CASE TurnAfterStop
  <2>1. todo' = Commits(f)
    BY <1>8 DEF TurnAfterStop
  <2>2. /\ Quiet /\ pc = "follow" /\ pc' = "loop"
        /\ UNCHANGED <<local, agent, stored, replayable, queuedLog, run, whole, dropped,
                       nextCall, sent, startPhase>>
        /\ turn' = turn + 1 /\ input' = NoInput /\ reply' = <<>> /\ calls' = <<>>
    BY <1>8 DEF TurnAfterStop, AnotherTurn, log
  <2> HIDE DEF f
  <2> QED BY <1>2, <1>3, <2>1, <2>2, QueuedCome
<1> QED BY <1>5, <1>6, <1>7, <1>8

(* The end of a run.                                                       *)
LEMMA EndMoves ==
  ASSUME TypeOK, TypeOK', RInv, pc' \in {"error", "ending", "finish"},
         local'.msgs = local.msgs, stored'.msgs = stored.msgs,
         agent'.msgs \in {agent.msgs, local.msgs}, dropped' \in {dropped, TRUE},
         UNCHANGED <<replayable, run, whole, turn, nextCall, reply, input, sent, queuedLog>>,
         \A i \in 1..Len(todo') : todo'[i].kind \notin Effects,
         ~(replayable' /\ stored'.status = "Paused")
  PROVE  RInv'
<1>1. ~Resumable'
  BY DEF Resumable
<1>2. ~Owing' /\ Owed' = {}
  BY <1>1 DEF Owing, Owed
<1>3. At' = 10 /\ At \in 1..10 /\ nextCall \in Nat
  BY ClockType DEF At, Moving
<1> HIDE DEF At
<1>4. Later
  BY <1>2, <1>3 DEF Later
<1>5. Asked'
  BY <1>3 DEF RInv, Asked
<1>6. Pausing'
  BY DEF Pausing
<1>7. InHand'
  BY DEF InHand, PlainInHand
<1>8. \A i \in 1..Len(todo') : ~New(todo'[i])
  BY DEF New
<1>9. Apart(todo') /\ ~Live'
  BY <1>8 DEF Apart, Live
<1> QED BY <1>1, <1>4, <1>5, <1>6, <1>7, <1>8, <1>9, TranscriptsStay

(* A run that ends with its log paused keeps what it owes.                 *)
LEMMA LeftPaused ==
  ASSUME TypeOK, TypeOK', RInv, replayable, stored.status = "Paused", OfTurn(cont), Owing,
         pc \in {"resuming", "error"}, pc' = "finish", todo' = <<>>,
         todo = <<>> \/ todo[1].kind # "EffectCommitted",
         UNCHANGED <<local, agent, log, run, turn, phase, nextCall, reply, input, sent, queuedLog>>,
         dropped' \in {dropped, TRUE}
  PROVE  RInv'
<1>1. UNCHANGED <<stored, replayable, cont, whole>>
  BY DEF log
<1>2. At = 10 /\ At' = 10 /\ nextCall \in Nat
  BY ClockType DEF At, Moving
<1>3. Resumable' /\ Owing' /\ Owed' = Owed
  BY <1>1 DEF Resumable, Owing, Owed
<1>4. Due' = Due
  BY <1>3 DEF Due, OfTurn, Quiet, Answers
<1>5. Live \/ Resumable
  BY DEF Live, Resumable
<1>6. Pausing'
  BY <1>1, <1>3 DEF Pausing, OfTurn
<1> HIDE DEF At
<1>7. Later
  BY <1>2, <1>3 DEF Later
<1>8. Asked'
  BY <1>2 DEF RInv, Asked
<1>9. \A i \in 1..Len(todo') : todo'[i].kind \notin Effects
  BY NoMark
<1>10. InHand'
  BY <1>9 DEF InHand, PlainInHand
<1>11. \A i \in 1..Len(todo') : ~New(todo'[i])
  BY <1>9 DEF New
<1>12. Apart(todo') /\ ~Live'
  BY <1>11 DEF Apart, Live
<1> QED BY <1>1, <1>4, <1>5, <1>6, <1>7, <1>8, <1>10, <1>11, <1>12, TranscriptsStay

LEMMA FailedLog ==
  ASSUME NEW s \in States
  PROVE  /\ ApplyEvent(s, Event("RunFailed")).msgs = s.msgs
         /\ ApplyEvent(s, Event("RunFailed")).status = "Failed"
         /\ ApplyEvent(s, Event("RunAborted")).msgs = s.msgs
         /\ ApplyEvent(s, Event("RunAborted")).status = "Aborted"
BY DEF ApplyEvent, Event, States

LEMMA RRecordRunError == ASSUME IInv, IInv', RInv, RecordRunError PROVE RInv'
<1>1. /\ TypeOK /\ TypeOK' /\ Quiet /\ pc = "error"
      /\ UNCHANGED <<run, turn, phase, startPhase, input, reply, calls, agent,
                     sent, queuedLog, nextCall, dropped>>
  BY DEF RecordRunError, IInv, cursor, history
<1>2. CASE /\ ~Silent(cause) /\ UNCHANGED <<local, log>> /\ pc' = "ending"
           /\ todo' = <<Event(IF cause = "aborted" THEN "RunAborted" ELSE "RunFailed")>>
  <2>1. ~(replayable' /\ stored'.status = "Paused")
    BY <1>1, <1>2 DEF RInv, Pausing, Resumable, Silent, log
  <2>2. \A i \in 1..Len(todo') : todo'[i].kind \notin Effects
    BY <1>2, OneMark, Marked
  <2> QED BY <1>1, <1>2, <2>1, <2>2, EndMoves DEF log
<1>3. CASE /\ Silent(cause) /\ pc' = "finish"
           /\ stored' = IF replayable THEN ApplyEvent(stored, Event("RunFailed")) ELSE stored
           /\ local' = ApplyEvent(local, Event("RunFailed"))
           /\ UNCHANGED <<todo, replayable, cont, raced, whole>>
  <2>1. stored \in States /\ local \in States
    BY <1>1 DEF TypeOK
  <2>2. /\ local'.msgs = local.msgs /\ stored'.msgs = stored.msgs
        /\ ~(replayable' /\ stored'.status = "Paused")
    BY <1>3, <2>1, FailedLog
  <2>3. \A i \in 1..Len(todo') : todo'[i].kind \notin Effects
    BY <1>1, <1>3, NoMark DEF Quiet
  <2> QED BY <1>1, <1>3, <2>2, <2>3, EndMoves
<1>4. CASE Silent(cause) /\ pc' = "finish" /\ UNCHANGED <<todo, local, log>>
  <2>1. todo' = <<>> /\ \A i \in 1..Len(todo') : todo'[i].kind \notin Effects
    BY <1>1, <1>4, NoMark DEF Quiet
  <2>2. CASE ~(replayable /\ stored.status = "Paused")
    BY <1>1, <1>4, <2>1, <2>2, EndMoves DEF log
  <2>3. CASE replayable /\ stored.status = "Paused"
    <3>1. OfTurn(cont) /\ Owing
      BY <1>1, <2>3 DEF RInv, Pausing, Owing
    <3> QED BY <1>1, <1>4, <2>1, <2>3, <3>1, LeftPaused DEF Quiet
  <2> QED BY <2>2, <2>3
<1> QED BY <1>2, <1>3, <1>4 DEF RecordRunError

LEMMA RProposalFails == ASSUME IInv, IInv', RInv, ProposalFails PROVE RInv'
<1>1. /\ TypeOK /\ TypeOK' /\ todo # <<>> /\ Head(todo).kind \in Effects
      /\ todo' = <<>> /\ cause' = "sink" /\ dropped' = TRUE
      /\ pc' = IF pc \in Unguarded THEN "finish" ELSE "error"
      /\ UNCHANGED <<run, turn, input, reply, local, agent, stored, replayable, whole,
                     sent, queuedLog, nextCall>>
  BY DEF ProposalFails, SinkFailure, IInv, cursor, log, Quiet
<1>2. pc # "resuming" /\ pc \notin {"idle", "finish"}
  BY <1>1, NextEvent DEF Effects
<1>3. ~(replayable' /\ stored'.status = "Paused")
  BY <1>1, <1>2 DEF RInv, Pausing, Resumable, Quiet
<1>4. \A i \in 1..Len(todo') : todo'[i].kind \notin Effects
  BY <1>1, NoMark
<1> QED BY <1>1, <1>3, <1>4, EndMoves

LEMMA RStoreFails == ASSUME IInv, IInv', RInv, StoreFails PROVE RInv'
<1>1. /\ TypeOK /\ TypeOK' /\ todo # <<>> /\ todo' = <<>> /\ dropped' = TRUE
      /\ pc' = IF pc \in Unguarded THEN "finish" ELSE "error"
      /\ UNCHANGED <<run, turn, phase, input, reply, local, agent, log, sent, queuedLog, nextCall>>
  BY DEF StoreFails, IInv, cursor, Quiet
<1>2. \A i \in 1..Len(todo') : todo'[i].kind \notin Effects
  BY <1>1, NoMark
<1>3. CASE ~(replayable /\ stored.status = "Paused")
  BY <1>1, <1>2, <1>3, EndMoves DEF log
<1>4. CASE replayable /\ stored.status = "Paused"
  <2>1. pc \notin {"idle", "finish"}
    BY <1>1, NextEvent
  <2>2. pc = "resuming" /\ OfTurn(cont) /\ Owing
    BY <1>1, <1>4, <2>1 DEF RInv, Pausing, Resumable, Quiet, Owing
  <2>3. todo[1].kind # "EffectCommitted"
    <3>1. Head(todo).kind \in {"ToolApprovalResolved", "RunResumed"} /\ Head(todo) = todo[1]
      BY <1>1, <2>2, NextEvent, TailType DEF TypeOK
    <3> QED BY <3>1
  <2>4. pc' = "finish"
    BY <1>1, <2>2 DEF Unguarded
  <2> QED BY <1>1, <1>4, <2>2, <2>3, <2>4, LeftPaused
<1> QED BY <1>3, <1>4

LEMMA RFinishRun == ASSUME IInv, IInv', RInv, FinishRun PROVE RInv'
<1>1. /\ TypeOK /\ TypeOK' /\ Quiet /\ pc \in {"ending", "paused", "finish"} /\ pc' = "idle"
      /\ agent' \in {agent, local}
      /\ UNCHANGED <<todo, run, turn, phase, startPhase, input, reply, calls, local, stored, replayable,
                     cont, whole, sent, queuedLog, nextCall, dropped>>
  BY DEF FinishRun, Reported, IInv, cursor, log, history
<1>2. At = 10 /\ At' = 10 /\ nextCall \in Nat
  BY <1>1, ClockType DEF At, Moving
<1>3. replayable /\ stored.status = "Paused" => (pc = "paused" \/ Resumable) /\ OfTurn(cont) /\ Owing
  BY <1>1 DEF RInv, Pausing, Owing
<1>4. Resumable' <=> replayable /\ stored.status = "Paused"
  BY <1>1 DEF Resumable
<1>5. Owing' <=> Resumable'
  BY <1>1 DEF Owing
<1>6. Owed' \subseteq Owed
  BY <1>1, <1>3, <1>4, <1>5 DEF Owed
<1>7. Resumable' => Due' = Due
  BY <1>1, <1>3, <1>4, <1>5 DEF Due, OfTurn, Quiet, Answers
<1>8. Resumable' => Live \/ Resumable
  BY <1>1, <1>3, <1>4 DEF Live
<1>9. Pausing'
  BY <1>1, <1>3, <1>4 DEF Pausing, OfTurn
<1> HIDE DEF At
<1>10. Later
  BY <1>1, <1>2, <1>6 DEF Later
<1>11. Asked'
  BY <1>1, <1>2 DEF RInv, Asked
<1>12. \A i \in 1..Len(todo') : todo'[i].kind \notin Effects
  BY <1>1, NoMark DEF Quiet
<1>13. InHand'
  BY <1>12 DEF InHand, PlainInHand
<1>14. \A i \in 1..Len(todo') : ~New(todo'[i])
  BY <1>12 DEF New
<1>15. Apart(todo') /\ ~Live'
  BY <1>1, <1>14 DEF Apart, Live
<1> QED BY <1>1, <1>7, <1>8, <1>9, <1>10, <1>11, <1>13, <1>14, <1>15, TranscriptsStay

(* The beginning of a run, new or resumed.                                 *)
LEMMA PairedNone ==
  ASSUME NEW s \in Seq(MessageSet)
  PROVE  s \o <<>> = s /\ Paired(<<>> \o <<>>)
<1>1. s \o <<>> = s /\ <<>> \o <<>> = <<>>
  BY ConcatEmptySeq
<1>2. Len(<<>>) = 0 /\ <<>> \in Seq(MessageSet)
  BY EmptySeq
<1> DEFINE e == <<>>
<1> HIDE DEF e
<1>3. Paired(e)
  <2>1. e \in Seq(MessageSet) /\ Len(e) = 0
    BY <1>2 DEF e
  <2>2. \A i \in 1..Len(e) : FALSE
    BY <2>1
  <2> QED BY <2>1, <2>2, PairedMeans
<1>4. Paired(<<>>)
  BY <1>3 DEF e
<1> QED BY <1>1, <1>4

LEMMA RStartRun ==
  ASSUME IInv, IInv', RInv, NEW message, message \in {NoInput, Message("prompt", run + 1, 1, <<>>)},
         StartRun(message)
  PROVE  RInv'
<1>1. /\ TypeOK /\ TypeOK' /\ pc = "idle" /\ pc' = "begin" /\ run' = run + 1
      /\ local' = agent /\ stored' = DefaultState /\ replayable' /\ whole' = Paired(agent.msgs)
      /\ todo' = <<RunStarted(run + 1)>> /\ turn' = 1 /\ startPhase' = 1 /\ phase' = 1
      /\ input' = message /\ reply' = <<>> /\ calls' = <<>>
      /\ UNCHANGED <<agent, sent, queuedLog, nextCall, dropped>>
  BY DEF StartRun, IInv, Idle
<1>2. Transcripts /\ FirstRun /\ Asked
  BY DEF RInv
<1>3. run \in Nat /\ nextCall \in Nat /\ agent.msgs \in Seq(MessageSet)
  BY <1>1, ClockType DEF TypeOK, States
<1>4. ~Resumable' /\ ~Owing' /\ Owed' = {}
  BY <1>1 DEF Resumable, Owing, Owed
<1>5. Later
  BY <1>1, <1>3, <1>4 DEF Later
<1>6. Past \subseteq Past'
  BY <1>1, <1>5, PastOn
<1>7. /\ Len(todo') = 1 /\ todo'[1].kind = "RunStarted"
      /\ \A i \in 1..Len(todo') : todo'[i].kind \notin Effects
  BY <1>1 DEF RunStarted, Effects
<1>8. Due' = <<>>
  BY <1>4, <1>7, DueNext
<1>9. Transcripts'
  <2>1. Told(local.msgs)' /\ Told(agent.msgs)'
    BY <1>1, <1>2, <1>6 DEF Transcripts, Told
  <2>2. whole' => Paired(local'.msgs \o Due')
    BY <1>1, <1>3, <1>8, PairedNone
  <2>3. EndOf(stored'.msgs, local'.msgs) /\ Paired(stored'.msgs \o Due')
    <3>1. stored'.msgs = <<>>
      BY <1>1 DEF DefaultState
    <3> QED BY <1>1, <1>3, <1>8, <3>1, EndsOf, PairedNone
  <2> QED BY <2>1, <2>2, <2>3 DEF Transcripts
<1>10. \A i \in 1..Len(todo') : ~New(todo'[i])
  BY <1>7 DEF New
<1>11. Comes'
  BY <1>10 DEF Comes, Apart
<1>12. Asked'
  <2>1. Len(reply') = 0 /\ At' # 8
    BY <1>1, EmptySeq DEF At, Moving
  <2> HIDE DEF At
  <2> QED BY <1>1, <1>2, <2>1 DEF Asked
<1>13. Pausing'
  BY <1>1 DEF Pausing, DefaultState
<1>14. InHand'
  BY <1>7 DEF InHand, PlainInHand
<1>15. FirstRun'
  BY <1>1, <1>2, <1>3 DEF FirstRun, DefaultState
<1> QED BY <1>9, <1>11, <1>12, <1>13, <1>14, <1>15 DEF RInv

LEMMA RResumeRun == ASSUME IInv, IInv', RInv, ResumeRun PROVE RInv'
<1>1. /\ TypeOK /\ TypeOK' /\ pc = "idle" /\ pc' = "resuming" /\ local' = stored /\ whole' = TRUE
      /\ todo' = Append(SetToSeq({ApprovalResolved(id) : id \in cont.pending}), Event("RunResumed"))
      /\ stored.status = "Paused" /\ replayable
      /\ UNCHANGED <<run, turn, phase, startPhase, input, reply, calls, agent, stored, replayable,
                     cont, sent, queuedLog, nextCall, dropped>>
  BY DEF ResumeRun, IInv, Idle, cursor, history
<1>2. Transcripts /\ FirstRun /\ Asked /\ Resumable /\ OfTurn(cont)
  BY <1>1 DEF RInv, Pausing
<1>3. Quiet
  BY <1>1, NextEvent DEF Quiet
<1>4. /\ todo' \in Seq(Events) /\ todo' # <<>> /\ todo'[Len(todo')].kind = "RunResumed"
      /\ \A i \in 1..Len(todo') : todo'[i].kind \notin Effects
      /\ todo'[1].kind # "EffectCommitted"
  <2>1. cont.pending \in SUBSET ApprovalIds
    BY <1>1 DEF TypeOK, Conts
  <2>2. Event("RunResumed") \in Events /\ Event("RunResumed").kind = "RunResumed"
    BY DEF Events, Event
  <2>3. /\ todo' \in Seq(Events) /\ todo' # <<>>
        /\ \A i \in 1..Len(todo') : IF i = Len(todo') THEN todo'[i] = Event("RunResumed")
                                    ELSE todo'[i].kind = "ToolApprovalResolved"
    <3> DEFINE S == {[kind |-> "ToolApprovalResolved", id |-> id] : id \in cont.pending}
               last == Event("RunResumed")
               events == Append(SetToSeq(S), last)
    <3>1. todo' = events
      BY <1>1 DEF ApprovalResolved
    <3>2. /\ events \in Seq(Events) /\ events # <<>>
          /\ \A i \in 1..Len(events) : IF i = Len(events) THEN events[i] = last
                                       ELSE events[i].kind = "ToolApprovalResolved"
          /\ Ids(events, "ToolApprovalResolved") = cont.pending
      <4>1. last \in Events /\ last.kind = "RunResumed"
        BY <2>2
      <4> QED BY <2>1, <4>1, IdEvents
    <3> HIDE DEF events
    <3> QED BY <3>1, <3>2
  <2>4. 1 \in 1..Len(todo') /\ Len(todo') \in 1..Len(todo')
    <3>1. Len(todo') \in Nat /\ Len(todo') # 0
      BY <2>3, Elements
    <3> QED BY <3>1
  <2>5. \A i \in 1..Len(todo') : todo'[i].kind \notin Effects
    BY <2>2, <2>3 DEF Effects
  <2> QED BY <2>2, <2>3, <2>4, <2>5 DEF Effects
<1>5. At = 10 /\ At' = 10 /\ nextCall \in Nat
  BY <1>1, ClockType DEF At, Moving
<1>6. Owing /\ Owing' /\ Owed' = Owed
  BY <1>1, <1>2 DEF Owing, Owed
<1>7. Due' = Due
  BY <1>1, <1>2, <1>3, <1>4, <1>6 DEF Due, OfTurn, Quiet, Answers
<1> HIDE DEF At
<1>8. Later
  BY <1>1, <1>5, <1>6 DEF Later
<1>9. Past \subseteq Past'
  BY <1>1, <1>8, PastOn
<1>10. stored.msgs \in Seq(MessageSet) /\ local.msgs \in Seq(MessageSet)
  BY <1>1 DEF TypeOK, States
<1>11. EndOf(stored.msgs, local.msgs) /\ Paired(stored.msgs \o Due)
  BY <1>1, <1>2 DEF Transcripts
<1>12. Transcripts'
  <2>1. Distinct(stored.msgs) /\ ToSet(stored.msgs) \subseteq Past
    BY <1>2, <1>10, <1>11, EndDistinct DEF Transcripts, Told
  <2>2. Told(local.msgs)' /\ Told(agent.msgs)'
    BY <1>1, <1>2, <1>9, <2>1 DEF Transcripts, Told
  <2>3. EndOf(stored'.msgs, local'.msgs)
    BY <1>1, <1>10, EndsOf
  <2> QED BY <1>1, <1>7, <1>11, <2>2, <2>3 DEF Transcripts
<1>13. \A i \in 1..Len(todo') : ~New(todo'[i])
  BY <1>4 DEF New
<1>14. Comes'
  BY <1>13 DEF Comes, Apart
<1>15. Asked'
  BY <1>1, <1>2, <1>5 DEF Asked
<1>16. Pausing'
  BY <1>1, <1>2, <1>4 DEF Pausing, OfTurn, Quiet
<1>17. InHand'
  BY <1>4 DEF InHand, PlainInHand
<1>18. FirstRun'
  BY <1>1, <1>2 DEF FirstRun
<1> QED BY <1>12, <1>14, <1>15, <1>16, <1>17, <1>18 DEF RInv

(* Calls that leave the run alone.                                         *)
LEMMA StandStill ==
  ASSUME TypeOK, TypeOK', RInv,
         UNCHANGED <<pc, todo, cause, run, turn, phase, startPhase, reply, calls, input, nextCall,
                     queuedLog, cont, whole, replayable, local>>,
         stored'.msgs = stored.msgs, stored'.status \in {stored.status, "Aborted"},
         agent'.msgs = agent.msgs \/ (agent'.msgs = <<>> /\ dropped'), dropped' \in {dropped, TRUE},
         \A i \in 1..Len(sent') : sent'[i].calls = <<>>
  PROVE  RInv'
<1>1. Resumable' => Resumable
  BY DEF Resumable
<1>2. Owing' => Owing
  BY <1>1 DEF Owing
<1>3. Owed' \subseteq Owed /\ At' = At /\ At \in 1..10 /\ nextCall \in Nat
  BY <1>2, ClockType DEF Owed, At
<1>4. Live' \/ Resumable' => Due' = Due
  <2>1. Live' \/ Resumable' => (Owing' <=> Owing)
    BY <1>1 DEF Owing, Live, Resumable
  <2> QED BY <2>1 DEF Due, Quiet, Answers
<1> HIDE DEF At
<1>5. Past \subseteq Past'
  <2>1. Later
    BY <1>3 DEF Later
  <2> QED BY <2>1, PastOn
<1>6. Transcripts /\ Comes /\ Asked /\ Pausing /\ InHand /\ FirstRun
  BY DEF RInv
<1>7. ToSet(agent'.msgs) \subseteq ToSet(agent.msgs) /\ Distinct(agent'.msgs)
  <2>1. CASE agent'.msgs = agent.msgs
    BY <1>6, <2>1 DEF Transcripts, Told
  <2>2. CASE agent'.msgs = <<>>
    <3>1. Len(<<>>) = 0 /\ ToSet(<<>>) = {}
      BY EmptySeq, NothingSorted
    <3> QED BY <2>2, <3>1 DEF Distinct
  <2> QED BY <2>1, <2>2
<1>8. Transcripts'
  <2>1. Told(local.msgs)' /\ Told(agent.msgs)'
    BY <1>5, <1>6, <1>7 DEF Transcripts, Told
  <2>2. Live' /\ whole' => Paired(local'.msgs \o Due')
    BY <1>4, <1>6 DEF Transcripts, Live
  <2>3. replayable' =>
          /\ EndOf(stored'.msgs, local'.msgs)
          /\ Live' \/ Resumable' => Paired(stored'.msgs \o Due')
    BY <1>1, <1>4, <1>6 DEF Transcripts, Live
  <2> QED BY <2>1, <2>2, <2>3 DEF Transcripts
<1>9. Comes'
  <2>1. ASSUME NEW i \in 1..Len(todo'), New(todo'[i])
        PROVE  /\ Brings(todo'[i]) \in Past'
               /\ \A m \in ToSet(local'.msgs) \cup ToSet(agent'.msgs) : ~Clash(m, Brings(todo'[i]))
    BY <1>5, <1>6, <1>7, <2>1 DEF Comes
  <2>2. Apart(todo')
    BY <1>6 DEF Comes
  <2> QED BY <2>1, <2>2 DEF Comes
<1>10. Asked'
  BY <1>3, <1>6 DEF Asked
<1>11. Pausing'
  BY <1>6 DEF Pausing, Resumable, OfTurn, Quiet
<1>12. InHand'
  <2>1. PlainInHand => PlainInHand'
    BY <1>2 DEF PlainInHand
  <2>2. ResultsInHand => ResultsInHand'
    BY <1>2, <1>3 DEF ResultsInHand, Result
  <2>3. AssistantInHand => AssistantInHand'
    BY DEF AssistantInHand
  <2>4. SummaryInHand => SummaryInHand'
    BY DEF SummaryInHand, CompactAt
  <2> QED BY <1>6, <2>1, <2>2, <2>3, <2>4 DEF InHand
<1>13. FirstRun'
  BY <1>6 DEF FirstRun
<1> QED BY <1>8, <1>9, <1>10, <1>11, <1>12, <1>13 DEF RInv

LEMMA RAborts ==
  ASSUME IInv, IInv', RInv,
         AbortActive \/ AbortPaused \/ AbortLoad \/ AbortFails \/ AbortRecord \/ Reset
  PROVE  RInv'
<1>1. TypeOK /\ TypeOK' /\ \A i \in 1..Len(sent) : sent[i].calls = <<>>
  BY DEF IInv, RInv, Asked
<1>2. CASE AbortActive \/ AbortPaused \/ AbortLoad \/ AbortFails
  <2>1. /\ UNCHANGED <<pc, todo, cause, run, turn, phase, startPhase, reply, calls, input, nextCall,
                       queuedLog, cont, whole, replayable, local>>
        /\ UNCHANGED <<stored, agent, dropped, sent>>
    BY <1>2 DEF AbortActive, AbortPaused, AbortLoad, AbortFails, control, cursor, log, history
  <2> QED BY <1>1, <2>1, StandStill
<1>3. CASE AbortRecord
  <2>1. /\ UNCHANGED <<pc, todo, cause, run, turn, phase, startPhase, reply, calls, input, nextCall,
                       queuedLog, cont, whole, replayable, local>>
        /\ UNCHANGED <<dropped, sent>>
        /\ stored' \in {stored, ApplyEvent(stored, Event("RunAborted"))}
        /\ agent' = ApplyEvent(agent, Event("RunAborted"))
    BY <1>3 DEF AbortRecord, control, cursor, history
  <2>2. stored \in States /\ agent \in States
    BY <1>1 DEF TypeOK
  <2>3. /\ stored'.msgs = stored.msgs /\ stored'.status \in {stored.status, "Aborted"}
        /\ agent'.msgs = agent.msgs
    BY <2>1, <2>2, FailedLog
  <2> QED BY <1>1, <2>1, <2>3, StandStill
<1>4. CASE Reset
  <2>1. /\ UNCHANGED <<pc, todo, cause, run, turn, phase, startPhase, reply, calls, input, nextCall,
                       queuedLog, cont, whole, replayable, local>>
        /\ UNCHANGED <<stored, sent>> /\ dropped' = TRUE /\ agent'.msgs = <<>>
    BY <1>4 DEF Reset, control, cursor, log, DefaultState
  <2> QED BY <1>1, <2>1, StandStill
<1> QED BY <1>2, <1>3, <1>4

LEMMA RQueued ==
  ASSUME IInv, IInv', RInv, Steer \/ SteerUserInput \/ FollowUp
  PROVE  RInv'
<1>1. TypeOK /\ TypeOK' /\ \A i \in 1..Len(sent) : sent[i].calls = <<>>
  BY DEF IInv, RInv, Asked
<1>2. PICK kind \in QueuedKinds : sent' = Append(sent, Message(kind, 0, Len(sent) + 1, <<>>))
  BY DEF Steer, SteerUserInput, FollowUp, Enqueue, QueuedKinds
<1>3. /\ UNCHANGED <<pc, todo, cause, run, turn, phase, startPhase, reply, calls, input, nextCall,
                     queuedLog, cont, whole, replayable, local>>
      /\ UNCHANGED <<stored, agent, dropped>>
  BY DEF Steer, SteerUserInput, FollowUp, Enqueue, control, cursor, log
<1> DEFINE m == Message(kind, 0, Len(sent) + 1, <<>>)
<1>4. m.calls = <<>> /\ m \in MessageSet
  <2>1. m \in MessageSet
    BY QueuedType
  <2> QED BY <2>1 DEF Message
<1> HIDE DEF m
<1>5. sent' = Append(sent, m)
  BY <1>2 DEF m
<1>6. \A i \in 1..Len(sent') : sent'[i].calls = <<>>
  <2>1. sent \in Seq(MessageSet)
    BY <1>1 DEF TypeOK
  <2>2. /\ Len(sent') = Len(sent) + 1 /\ sent'[Len(sent) + 1] = m
        /\ \A i \in 1..Len(sent) : sent'[i] = sent[i]
    BY <1>4, <1>5, <2>1, AppendProperties
  <2>3. Len(sent) \in Nat
    BY <2>1, LenProperties
  <2>4. \A i \in 1..Len(sent') : i \in 1..Len(sent) \/ i = Len(sent) + 1
    BY <2>2, <2>3
  <2> QED BY <1>1, <1>4, <2>2, <2>4
<1> QED BY <1>1, <1>3, <1>6, StandStill

(* Recording an event.  What becomes of a transcript, ...                  *)
After(msgs, e) ==
  IF e.kind = "EffectCommitted" THEN Append(msgs, e.message)
  ELSE IF e.kind = "MessagesCompacted" THEN <<e.summary>> \o Kept(msgs, e.retained)
  ELSE msgs

LEMMA AppliedMsgs ==
  ASSUME NEW s \in States, NEW e \in Events
  PROVE  ApplyEvent(s, e).msgs = After(s.msgs, e)
<1>1. s = [run |-> s.run, status |-> s.status, msgs |-> s.msgs, pending |-> s.pending]
  BY DEF States
<1>2. e.kind \in MarkerKinds \cup EndKinds \cup Effects \cup
        {"RunStarted", "RunResumed", "RunPaused", "ToolApprovalRequested", "ToolApprovalResolved"}
  BY DEF Events, Effects
<1>3. CASE e.kind = "EffectCommitted"
  <2>1. ApplyEvent(s, e) = [s EXCEPT !.msgs = Append(s.msgs, e.message)]
    BY <1>3 DEF ApplyEvent
  <2> QED BY <1>1, <1>3, <2>1 DEF After
<1>4. CASE e.kind = "MessagesCompacted"
  <2>1. ApplyEvent(s, e) = [s EXCEPT !.msgs = <<e.summary>> \o Kept(s.msgs, e.retained)]
    BY <1>4 DEF ApplyEvent
  <2> QED BY <1>1, <1>4, <2>1 DEF After
<1>5. CASE e.kind \notin Effects
  BY <1>1, <1>2, <1>5 DEF ApplyEvent, After, Effects, MarkerKinds, EndKinds
<1> QED BY <1>3, <1>4, <1>5 DEF Effects

LEMMA RecordIs ==
  ASSUME IInv, Record
  PROVE  LET e == Head(todo)
         IN  /\ local'.msgs = After(local.msgs, e)
             /\ agent'.msgs = IF Valid(agent, e) THEN After(agent.msgs, e) ELSE agent.msgs
             /\ replayable' <=> replayable /\ Valid(stored, e)
             /\ stored'.msgs = IF replayable /\ Valid(stored, e) THEN After(stored.msgs, e)
                               ELSE stored.msgs
             /\ ~dropped' => ~dropped /\ Valid(agent, e)
             /\ dropped \in BOOLEAN /\ e \in Events /\ e = todo[1]
             /\ UNCHANGED <<run, turn, startPhase, phase, input, reply, calls, whole, sent, nextCall>>
             /\ local.msgs \in Seq(MessageSet) /\ agent.msgs \in Seq(MessageSet)
             /\ stored.msgs \in Seq(MessageSet) /\ run \in 0..MaxRuns /\ ~Quiet
<1> DEFINE e == Head(todo)
<1>1. /\ e \in Events /\ todo # <<>> /\ todo \in Seq(Events)
      /\ (Goes(e) /\ dropped' = dropped) \/ (FailsTo /\ dropped' = TRUE)
  BY RecordEffect
<1>2. e = todo[1]
  BY <1>1, TailType
<1>3. /\ stored' = IF replayable /\ Valid(stored, e) THEN ApplyEvent(stored, e) ELSE stored
      /\ replayable' = (replayable /\ Valid(stored, e))
      /\ local' = ApplyEvent(local, e)
      /\ agent' = IF Valid(agent, e) THEN ApplyEvent(agent, e) ELSE agent
      /\ UNCHANGED <<run, turn, startPhase, phase, input, reply, calls, whole, sent, nextCall>>
  BY DEF Record, cursor
<1> HIDE DEF e
<1>4. /\ local \in States /\ agent \in States /\ stored \in States /\ dropped \in BOOLEAN
      /\ run \in 0..MaxRuns
  BY DEF IInv, TypeOK
<1>5. /\ ApplyEvent(local, e).msgs = After(local.msgs, e)
      /\ ApplyEvent(agent, e).msgs = After(agent.msgs, e)
      /\ ApplyEvent(stored, e).msgs = After(stored.msgs, e)
  <2>1. \A s \in States : ApplyEvent(s, e).msgs = After(s.msgs, e)
    BY <1>1, AppliedMsgs
  <2> QED BY <1>4, <2>1
<1>6. ~dropped' => ~dropped /\ Valid(agent, e)
  BY <1>1 DEF Goes
<1>7. local.msgs \in Seq(MessageSet) /\ agent.msgs \in Seq(MessageSet) /\ stored.msgs \in Seq(MessageSet)
  BY <1>4 DEF States
<1>8. /\ local'.msgs = After(local.msgs, e)
      /\ agent'.msgs = IF Valid(agent, e) THEN After(agent.msgs, e) ELSE agent.msgs
      /\ stored'.msgs = IF replayable /\ Valid(stored, e) THEN After(stored.msgs, e) ELSE stored.msgs
      /\ replayable' <=> replayable /\ Valid(stored, e)
  BY <1>3, <1>5
<1>9. ~Quiet
  BY <1>1 DEF Quiet
<1> QED BY <1>1, <1>2, <1>3, <1>4, <1>6, <1>7, <1>8, <1>9 DEF e

(* ... of the pause, ...                                                   *)
LEMMA RecordPausing ==
  ASSUME IInv, IInv', RInv, Record
  PROVE  /\ Pausing'
         /\ Resumable' => pc \in {"resuming", "paused"} /\ FailsTo /\ Head(todo).kind \notin Effects
         /\ Goes(Head(todo)) => (Owing' <=> Owing) /\ At' = At
         /\ FailsTo => ~Live' /\ At' = 10
         /\ Live /\ Goes(Head(todo)) => Live'
         /\ Live' => Live
<1> DEFINE e == Head(todo)
<1>1. /\ todo # <<>> /\ todo \in Seq(Events) /\ e \in Events
      /\ replayable' => replayable /\ Becomes(stored, stored', e)
      /\ cont' = IF e.kind = "RunPaused" THEN e.cont ELSE cont
      /\ UNCHANGED <<turn, startPhase, phase, reply>>
      /\ Goes(e) \/ FailsTo
  BY RecordEffect DEF cursor
<1>2. /\ e = todo[1] /\ Len(todo) \in Nat \ {0} /\ Len(Tail(todo)) = Len(todo) - 1
      /\ \A i \in 1..Len(Tail(todo)) : Tail(todo)[i] = todo[i + 1]
      /\ Tail(todo) = <<>> <=> Len(todo) = 1
  BY <1>1, TailType, TailQuiet
<1>3. /\ pc \notin {"idle", "finish"}
      /\ pc = "begin" => e.kind = "RunStarted"
      /\ pc = "ending" => e.kind \in EndKinds
      /\ pc \in Working \cup {"error"} => e.kind \in Plain
      /\ pc = "paused" => e.kind = IF Len(todo) = 1 THEN "RunPaused" ELSE "ToolApprovalRequested"
      /\ pc = "resuming" => e.kind \in {"ToolApprovalResolved", "RunResumed"}
  BY <1>1, NextEvent DEF RunStarted
<1>4. Pausing /\ ~Quiet
  BY <1>1 DEF RInv, Quiet
<1> HIDE DEF e
<1>5. pc = "resuming" \/ pc \in Working \cup {"error", "paused", "begin", "ending"}
  BY <1>3 DEF IInv, TypeOK, Working
<1>6. e.kind = "RunPaused" => pc = "paused"
  BY <1>3, <1>5 DEF Plain, MarkerKinds, Effects, EndKinds
<1>7. stored'.status = "Paused" /\ replayable' =>
        e.kind = "RunPaused" \/ (stored.status = "Paused" /\ replayable /\ e.kind \notin EndKinds \cup {"RunStarted", "RunResumed"})
  BY <1>1 DEF Becomes, StatusAfter, EndKinds
<1>8. ASSUME Goes(e)
      PROVE  /\ Pausing' /\ ~Resumable' /\ (Owing' <=> Owing) /\ At' = At /\ (Live' <=> Live)
  <2>1. pc' = pc /\ cause' = cause /\ todo' = Tail(todo)
    BY <1>8 DEF Goes
  <2>2. ~Resumable' /\ ~Resumable
    BY <1>3, <1>4, <1>6, <1>7, <2>1 DEF Pausing, Resumable
  <2>3. (Owing' <=> Owing) /\ At' = At /\ (Live' <=> Live)
    BY <1>1, <2>1, <2>2 DEF Owing, At, Live
  <2>4. pc = "paused" => OfTurn(IF Quiet THEN cont ELSE todo[Len(todo)].cont)'
    <3> SUFFICES ASSUME pc = "paused" PROVE OfTurn(IF Quiet THEN cont ELSE todo[Len(todo)].cont)'
      OBVIOUS
    <3>1. OfTurn(todo[Len(todo)].cont)
      BY <1>4 DEF Pausing
    <3>2. CASE Len(todo) = 1
      <4>1. cont' = todo[Len(todo)].cont /\ Quiet'
        BY <1>1, <1>2, <1>3, <2>1, <3>2 DEF Quiet
      <4> QED BY <1>1, <3>1, <4>1 DEF OfTurn
    <3>3. CASE Len(todo) # 1
      <4>1. Len(todo) - 1 \in 1..Len(Tail(todo)) /\ (Len(todo) - 1) + 1 = Len(todo)
        BY <1>2, <3>3
      <4>2. Tail(todo)[Len(todo) - 1] = todo[Len(todo)]
        BY <1>2, <4>1
      <4>3. todo'[Len(todo')] = todo[Len(todo)] /\ ~Quiet'
        BY <1>2, <2>1, <3>3, <4>2 DEF Quiet
      <4> QED BY <1>1, <3>1, <4>3 DEF OfTurn
    <3> QED BY <3>2, <3>3
  <2>5. pc = "resuming" => OfTurn(cont)' /\ (~Quiet' => todo'[Len(todo')].kind = "RunResumed")
    <3> SUFFICES ASSUME pc = "resuming" PROVE OfTurn(cont)' /\ (~Quiet' => todo'[Len(todo')].kind = "RunResumed")
      OBVIOUS
    <3>1. OfTurn(cont) /\ todo[Len(todo)].kind = "RunResumed" /\ cont' = cont
      BY <1>1, <1>3, <1>4 DEF Pausing
    <3>2. ASSUME ~Quiet' PROVE todo'[Len(todo')].kind = "RunResumed"
      <4>1. Len(todo) - 1 \in 1..Len(Tail(todo)) /\ (Len(todo) - 1) + 1 = Len(todo)
        BY <1>2, <2>1, <3>2 DEF Quiet
      <4>2. Tail(todo)[Len(todo) - 1] = todo[Len(todo)]
        BY <1>2, <4>1
      <4> QED BY <1>2, <2>1, <3>1, <4>2
    <3> QED BY <1>1, <3>1, <3>2 DEF OfTurn
  <2>6. ASSUME replayable', stored'.status = "Paused"
        PROVE  (pc = "paused" /\ Quiet') \/ (pc = "resuming" /\ ~Quiet')
    <3>1. CASE e.kind = "RunPaused"
      BY <1>2, <1>3, <1>6, <2>1, <3>1 DEF Quiet
    <3>2. CASE stored.status = "Paused" /\ replayable /\ e.kind # "RunResumed"
      <4>1. pc = "resuming" /\ Quiet' => e.kind = "RunResumed"
        BY <1>2, <1>4, <2>1 DEF Pausing, Quiet
      <4> QED BY <1>4, <2>2, <3>2, <4>1 DEF Pausing
    <3> QED BY <1>7, <2>6, <3>1, <3>2
  <2>7. Pausing'
    BY <2>1, <2>4, <2>5, <2>6 DEF Pausing
  <2> QED BY <2>2, <2>3, <2>7
<1>9. ASSUME FailsTo
      PROVE  /\ Pausing' /\ (Resumable' => pc \in {"resuming", "paused"} /\ e.kind \notin Effects)
             /\ ~Live' /\ At' = 10
  <2>1. /\ pc' \in {"error", "finish"} /\ Quiet' /\ cause' = "sink"
        /\ pc' = "finish" => pc \in {"begin", "beginSteer", "resuming", "ending"}
    BY <1>9, FailsWhere DEF FailsTo
  <2>2. ~Live' /\ At' = 10
    BY <2>1 DEF Live, At, Moving
  <2>3. ASSUME replayable', stored'.status = "Paused"
        PROVE  pc \in {"resuming", "paused"} /\ OfTurn(cont') /\ e.kind \notin Effects
    <3>1. CASE e.kind = "RunPaused"
      <4>1. pc = "paused" /\ Len(todo) = 1
        BY <1>3, <1>6, <3>1
      <4>2. OfTurn(todo[Len(todo)].cont)
        BY <1>4, <4>1 DEF Pausing
      <4>3. cont' = todo[Len(todo)].cont
        BY <1>1, <1>2, <3>1, <4>1
      <4> QED BY <3>1, <4>1, <4>2, <4>3 DEF Effects
    <3>2. CASE stored.status = "Paused" /\ replayable
      <4>1. pc = "resuming"
        BY <1>3, <1>4, <3>2 DEF Pausing, Resumable
      <4> QED BY <1>1, <1>3, <1>4, <4>1 DEF Pausing, Effects
    <3> QED BY <1>7, <2>3, <3>1, <3>2
  <2>4. OfTurn(cont)' <=> OfTurn(cont')
    BY <1>1 DEF OfTurn
  <2>5. Pausing'
    BY <2>1, <2>3, <2>4 DEF Pausing, Resumable
  <2>6. Resumable' => pc \in {"resuming", "paused"} /\ e.kind \notin Effects
    BY <2>3 DEF Resumable
  <2> QED BY <2>2, <2>5, <2>6
<1> QED BY <1>1, <1>8, <1>9 DEF e

(* ... and of what may be in a transcript.                                 *)
LEMMA RecordPast ==
  ASSUME IInv, IInv', RInv, Record
  PROVE  Past \subseteq Past'
<1>1. /\ Goes(Head(todo)) \/ FailsTo
      /\ queuedLog' = IF Head(todo).kind = "EffectCommitted" /\ Head(todo).message.kind \in QueuedKinds
                      THEN Append(queuedLog, Head(todo).message) ELSE queuedLog
      /\ Head(todo) \in Events
  BY RecordEffect
<1>2. UNCHANGED <<run, turn, phase, reply, nextCall>> /\ nextCall \in Nat /\ At \in 1..10
  BY RecordIs, ClockType DEF IInv
<1>3. Owed' \subseteq Owed
  <2>1. CASE Goes(Head(todo))
    BY <1>2, <2>1, RecordPausing DEF Owed
  <2>2. CASE FailsTo
    <3>1. pc' \in {"error", "finish"}
      BY <2>2 DEF FailsTo
    <3>2. Owing' => Owing
      BY <3>1, RecordPausing DEF Owing
    <3> QED BY <1>2, <3>2 DEF Owed
  <2> QED BY <1>1, <2>1, <2>2
<1>4. At' = At \/ At' = 10
  BY <1>1, RecordPausing
<1>5. ToSet(queuedLog) \subseteq ToSet(queuedLog')
  <2>1. queuedLog \in Seq(MessageSet)
    BY DEF IInv, TypeOK
  <2>2. Head(todo).kind = "EffectCommitted" => Head(todo).message \in MessageSet
    BY <1>1 DEF Events, MarkerKinds, EndKinds
  <2>3. ASSUME NEW m \in MessageSet, queuedLog' = Append(queuedLog, m)
        PROVE  ToSet(queuedLog) \subseteq ToSet(queuedLog')
    BY <2>1, <2>3, Added
  <2> QED BY <1>1, <2>2, <2>3
<1> HIDE DEF At
<1>6. Later
  BY <1>2, <1>3, <1>4, <1>5 DEF Later
<1> QED BY <1>6, PastOn DEF IInv

LEMMA RecordBrings ==
  ASSUME IInv, MInv, IInv', RInv, Record, Head(todo).kind \in Effects
  PROVE  LET m == Brings(Head(todo))
         IN  /\ m \in Past' /\ m \in MessageSet
             /\ \A k \in ToSet(local.msgs) \cup ToSet(agent.msgs) : ~Clash(k, m)
<1> DEFINE e == Head(todo)
           m == Brings(e)
<1>1. /\ e \in Events /\ e = todo[1] /\ todo \in Seq(Events) /\ todo # <<>>
      /\ queuedLog' = IF e.kind = "EffectCommitted" /\ e.message.kind \in QueuedKinds
                      THEN Append(queuedLog, e.message) ELSE queuedLog
      /\ 1 \in 1..Len(todo)
  <2>1. todo \in Seq(Events) /\ todo # <<>> /\ Len(todo) \in Nat \ {0}
    BY RecordEffect, TailType
  <2> QED BY <2>1, RecordEffect, RecordIs
<1>2. e.kind \in Effects
  OBVIOUS
<1> HIDE DEF e
<1>3. m \in MessageSet
  BY <1>1, <1>2 DEF Brings, Events, Effects, MarkerKinds, EndKinds
<1>4. Past \subseteq Past' /\ Transcripts /\ Comes
  BY RecordPast DEF RInv
<1> HIDE DEF m
<1>5. CASE New(e)
  <2>1. Brings(todo[1]) \in Past
    BY <1>1, <1>4, <1>5 DEF Comes
  <2>2. \A k \in ToSet(local.msgs) \cup ToSet(agent.msgs) : ~Clash(k, Brings(todo[1]))
    BY <1>1, <1>4, <1>5 DEF Comes
  <2> QED BY <1>1, <1>3, <1>4, <2>1, <2>2 DEF m, e
<1>6. CASE ~New(e)
  <2>1. m.kind \in QueuedKinds
    BY <1>2, <1>6 DEF New, m
  <2>2. e.kind = "EffectCommitted"
    <3>1. ~SummaryInHand \/ e.kind = "EffectCommitted"
      <4>1. SummaryInHand => \E cut \in Cuts(local.msgs) : e = CompactAt(local.msgs, cut)
        BY <1>1 DEF SummaryInHand
      <4>2. \A cut \in Cuts(local.msgs) : CompactAt(local.msgs, cut).kind = "MessagesCompacted"
              /\ CompactAt(local.msgs, cut).summary.kind = "summary"
        BY DEF CompactAt, Compacted, Message
      <4>3. SummaryInHand => m.kind = "summary"
        BY <4>1, <4>2 DEF m, Brings
      <4> QED BY <2>1, <4>3 DEF QueuedKinds
    <3>2. PlainInHand => e.kind = "EffectCommitted"
      BY <1>1, <1>2 DEF PlainInHand
    <3>3. ResultsInHand => e.kind = "EffectCommitted"
      BY <1>1, <1>2 DEF ResultsInHand
    <3>4. AssistantInHand => e.kind = "EffectCommitted"
      BY <1>1, CommittedIs DEF AssistantInHand
    <3> QED BY <3>1, <3>2, <3>3, <3>4 DEF RInv, InHand
  <2>3. m = e.message
    BY <2>2 DEF Brings, m
  <2>4. queuedLog \in Seq(MessageSet) /\ queuedLog' = Append(queuedLog, m)
    BY <1>1, <2>1, <2>2, <2>3 DEF IInv, TypeOK
  <2>5. m \in ToSet(queuedLog')
    BY ZenonT(60), <1>3, <2>4, Added
  <2>6. m \in Past'
    BY <1>3, <2>1, <2>5 DEF Past, QueuedKinds
  <2>7. m \in ToSet(MessagesOf(todo))
    <3>1. /\ MessagesOf(todo) \in Seq(MessageSet) /\ Len(MessagesOf(todo)) = Len(todo)
          /\ MessagesOf(todo)[1] = m
      BY <1>1, <2>2, <2>3, MessagesType
    <3> QED BY <1>1, <3>1, Elements
  <2>8. Ahead(ToSet(queuedLog), ToSet(MessagesOf(todo)))
    BY DEF MInv, Line, Ahead
  <2>9. ASSUME NEW k \in Past PROVE ~Clash(k, m)
    <3>1. m.kind # "toolResult"
      BY <2>1 DEF QueuedKinds
    <3>2. k # m
      <4>1. SUFFICES ASSUME k = m PROVE FALSE
        OBVIOUS
      <4>2. m \in ToSet(queuedLog)
        BY <2>1, <2>9, <4>1 DEF Past
      <4> QED BY <2>1, <2>7, <2>8, <4>2 DEF Ahead, Precedes
    <3> QED BY <3>1, <3>2 DEF Clash
  <2>10. ToSet(local.msgs) \cup ToSet(agent.msgs) \subseteq Past
    BY <1>4 DEF Transcripts, Told
  <2> QED BY <1>3, <2>6, <2>9, <2>10 DEF m, e
<1> QED BY <1>5, <1>6

(* The rest of what the driver has in hand.                                *)
LEMMA Recorded ==
  ASSUME IInv, IInv', RInv, Record, Told(local.msgs)', Told(agent.msgs)', FirstRun',
         replayable' => EndOf(stored'.msgs, local'.msgs),
         Goes(Head(todo)) => /\ Live /\ whole => Paired(local'.msgs \o Due')
                             /\ Live /\ replayable' => Paired(stored'.msgs \o Due')
                             /\ InHand',
         ToSet(local'.msgs) \cup ToSet(agent'.msgs)
           \subseteq ToSet(local.msgs) \cup ToSet(agent.msgs)
                       \cup {m \in {Brings(Head(todo))} : Head(todo).kind \in Effects}
  PROVE  RInv'
<1> DEFINE e == Head(todo)
<1>1. /\ todo # <<>> /\ todo \in Seq(Events) /\ e = todo[1] /\ ~Quiet
      /\ Goes(e) \/ FailsTo
      /\ UNCHANGED <<run, turn, startPhase, phase, input, reply, calls, whole, sent, nextCall>>
      /\ replayable' => replayable
  BY RecordEffect, RecordIs
<1>2. /\ Len(todo) \in Nat \ {0} /\ Len(Tail(todo)) = Len(todo) - 1
      /\ \A i \in 1..Len(Tail(todo)) : Tail(todo)[i] = todo[i + 1]
  BY <1>1, TailType
<1>3. Past \subseteq Past' /\ Transcripts /\ Comes /\ Asked
  BY RecordPast DEF RInv
<1>4. /\ Pausing'
      /\ Resumable' => pc \in {"resuming", "paused"} /\ FailsTo /\ e.kind \notin Effects
      /\ Goes(e) => At' = At
      /\ FailsTo => ~Live' /\ At' = 10
      /\ Live' => Live
  BY RecordPausing
<1>5. FailsTo => todo' = <<>>
  BY DEF FailsTo
<1>6. Goes(e) => todo' = Tail(todo)
  BY DEF Goes
<1>7. InHand'
  <2>1. CASE FailsTo
    <3>1. PlainInHand'
      BY <1>5, <2>1, NoMark DEF PlainInHand
    <3> QED BY <3>1 DEF InHand
  <2> QED BY <1>1, <2>1
<1>8. Asked'
  BY <1>1, <1>3, <1>4 DEF Asked
<1>9. Comes'
  <2>1. CASE FailsTo
    <3>1. \A i \in 1..Len(todo') : ~New(todo'[i])
      BY <1>5, <2>1, NoMark DEF New
    <3> QED BY <3>1 DEF Comes, Apart
  <2>2. CASE Goes(e)
    <3>1. \A i \in 1..Len(todo') : todo'[i] = todo[i + 1] /\ i + 1 \in 1..Len(todo) /\ 1 < i + 1
      BY <1>2, <1>6, <2>2
    <3>2. 1 \in 1..Len(todo)
      BY <1>2
    <3> HIDE DEF e
    <3>3. ASSUME NEW i \in 1..Len(todo'), New(todo'[i]),
                 NEW m \in ToSet(local'.msgs) \cup ToSet(agent'.msgs)
          PROVE  ~Clash(m, Brings(todo'[i]))
      <4>1. CASE m \in ToSet(local.msgs) \cup ToSet(agent.msgs)
        BY <1>3, <3>1, <3>3, <4>1 DEF Comes
      <4>2. CASE m = Brings(e) /\ e.kind \in Effects
        <5>1. CASE New(e)
          BY <1>1, <1>3, <3>1, <3>2, <3>3, <4>2, <5>1 DEF Comes, Apart
        <5>2. CASE ~New(e)
          BY <3>3, <4>2, <5>2 DEF New, Clash, QueuedKinds
        <5> QED BY <5>1, <5>2
      <4>3. m \in ToSet(local.msgs) \cup ToSet(agent.msgs) \/ (m = Brings(e) /\ e.kind \in Effects)
        BY DEF e
      <4> QED BY <4>1, <4>2, <4>3
    <3>4. \A i \in 1..Len(todo') : New(todo'[i]) => Brings(todo'[i]) \in Past'
      BY <1>3, <3>1 DEF Comes
    <3>5. Apart(todo')
      <4> SUFFICES ASSUME NEW i \in 1..Len(todo'), NEW j \in 1..Len(todo'), i < j,
                          New(todo'[i]), New(todo'[j])
                   PROVE  ~Clash(Brings(todo'[i]), Brings(todo'[j]))
        BY DEF Apart
      <4>1. i + 1 < j + 1
        OBVIOUS
      <4> QED BY <1>3, <3>1, <4>1 DEF Comes, Apart
    <3> QED BY <3>3, <3>4, <3>5 DEF Comes
  <2> QED BY <1>1, <2>1, <2>2
<1>10. Transcripts'
  <2>1. Live' /\ whole' => Paired(local'.msgs \o Due')
    BY <1>1, <1>4
  <2>2. replayable' /\ Live' => Paired(stored'.msgs \o Due')
    BY <1>1, <1>4
  <2>3. ASSUME replayable', Resumable' PROVE Paired(stored'.msgs \o Due')
    <3>1. pc \in {"resuming", "paused"} /\ FailsTo /\ e.kind \notin Effects
      BY <1>4, <2>3
    <3>2. stored'.msgs = stored.msgs
      BY <3>1, RecordIs DEF After, Effects
    <3>3. phase = 8 /\ Owing /\ Live
      BY <3>1 DEF RInv, Pausing, OfTurn, Owing, Live
    <3>4. Due = Answers(reply)
      BY <1>1, <3>1, <3>3 DEF Due, Effects
    <3>5. Due' = Answers(reply)
      BY <1>1, <1>5, <2>3, <3>1, <3>3 DEF Due, Owing, Quiet, Answers
    <3> QED BY <1>1, <1>3, <2>3, <3>2, <3>3, <3>4, <3>5 DEF Transcripts
  <2> QED BY <2>1, <2>2, <2>3 DEF Transcripts
<1> QED BY <1>4, <1>7, <1>8, <1>9, <1>10 DEF RInv

(* A marker: the transcripts stay, and so does what is due.                *)
LEMMA RRecordMarker ==
  ASSUME IInv, IInv', RInv, Record, Head(todo).kind \notin Effects
  PROVE  RInv'
<1> DEFINE e == Head(todo)
<1>1. /\ local'.msgs = local.msgs /\ agent'.msgs = agent.msgs /\ stored'.msgs = stored.msgs
      /\ replayable' <=> replayable
      /\ e = todo[1] /\ ~Quiet /\ (~dropped' => ~dropped)
      /\ UNCHANGED <<run, turn, phase, reply, whole>>
  <2>1. Valid(agent, e) /\ Valid(stored, e)
    BY DEF Valid, Effects
  <2>2. After(local.msgs, e) = local.msgs /\ After(agent.msgs, e) = agent.msgs
        /\ After(stored.msgs, e) = stored.msgs
    BY DEF After, Effects
  <2> HIDE DEF e
  <2>3. /\ local'.msgs = After(local.msgs, e)
        /\ agent'.msgs = IF Valid(agent, e) THEN After(agent.msgs, e) ELSE agent.msgs
        /\ replayable' <=> replayable /\ Valid(stored, e)
        /\ stored'.msgs = IF replayable /\ Valid(stored, e) THEN After(stored.msgs, e) ELSE stored.msgs
        /\ e = todo[1] /\ ~Quiet /\ (~dropped' => ~dropped)
        /\ UNCHANGED <<run, turn, phase, reply, whole>>
    BY RecordIs DEF e
  <2> QED BY <2>1, <2>2, <2>3
<1>2. e.kind \notin Effects /\ Transcripts /\ FirstRun /\ InHand /\ Past \subseteq Past'
  BY RecordPast DEF RInv
<1>3. /\ todo # <<>> /\ todo \in Seq(Events) /\ Len(todo) \in Nat \ {0}
      /\ Len(Tail(todo)) = Len(todo) - 1
      /\ \A i \in 1..Len(Tail(todo)) : Tail(todo)[i] = todo[i + 1]
      /\ Goes(e) \/ FailsTo
      /\ Tail(todo) = <<>> <=> Len(todo) = 1
  <2>1. todo # <<>> /\ todo \in Seq(Events) /\ (Goes(e) \/ FailsTo)
    BY RecordEffect
  <2> QED BY <2>1, TailType, TailQuiet
<1> HIDE DEF e
<1>4. ASSUME Goes(e) PROVE InHand' /\ Due' = Due
  <2>1. /\ todo' = Tail(todo) /\ pc' = pc /\ (Owing' <=> Owing) /\ At' = At
    BY <1>4, RecordPausing DEF Goes, e
  <2>2. \A i \in 1..Len(todo') : todo'[i] = todo[i + 1] /\ i + 1 \in 1..Len(todo)
    BY <1>3, <2>1
  <2>3. ~Quiet' => 1 \in 1..Len(todo')
    BY <1>3, <2>1 DEF Quiet
  <2>4. Due = IF Owing /\ phase # 6 THEN Answers(reply) ELSE <<>>
    BY <1>1, <1>2 DEF Due, Effects
  <2>5. CASE PlainInHand
    <3>1. PlainInHand'
      BY <2>1, <2>2, <2>5 DEF PlainInHand
    <3>2. ~Quiet' /\ todo'[1].kind = "EffectCommitted" => ~Owing /\ todo'[1].message.kind # "toolResult"
      BY <2>2, <2>3, <2>5 DEF PlainInHand, PlainMessage, Effects
    <3>3. Due' = IF Owing /\ phase # 6 THEN Answers(reply) ELSE <<>>
      BY <1>1, <2>1, <3>2 DEF Due, Answers
    <3> QED BY <2>4, <3>1, <3>3 DEF InHand
  <2>6. CASE ResultsInHand
    <3>1. Len(todo) = 1
      <4>1. 1 \in 1..Len(todo) /\ todo[1].kind # "EffectCommitted"
        BY <1>1, <1>2, <1>3 DEF Effects
      <4>2. \A i \in 1..Len(todo) : i # Len(todo) => todo[i].kind = "EffectCommitted"
        BY <2>6 DEF ResultsInHand
      <4> QED BY <4>1, <4>2
    <3>2. todo' = <<>> /\ ~Owing
      BY <1>3, <2>1, <2>6, <3>1 DEF ResultsInHand
    <3>3. PlainInHand'
      BY <3>2, NoMark DEF PlainInHand
    <3>4. Due' = <<>>
      BY <2>1, <3>2, DueNext
    <3> QED BY <2>4, <3>2, <3>3, <3>4 DEF InHand
  <2>7. CASE AssistantInHand
    BY <1>1, <1>2, <2>7, CommittedIs DEF AssistantInHand, Effects
  <2>8. CASE SummaryInHand
    BY <1>1, <1>2, <2>8 DEF SummaryInHand, CompactAt, Compacted, Effects
  <2> QED BY <1>2, <2>5, <2>6, <2>7, <2>8 DEF InHand
<1>5. Told(local.msgs)' /\ Told(agent.msgs)'
  BY <1>1, <1>2 DEF Transcripts, Told
<1>6. FirstRun' /\ (replayable' => EndOf(stored'.msgs, local'.msgs))
  BY <1>1, <1>2 DEF FirstRun, Transcripts
<1>7. Goes(e) => /\ Live /\ whole => Paired(local'.msgs \o Due')
                 /\ Live /\ replayable' => Paired(stored'.msgs \o Due')
                 /\ InHand'
  BY <1>1, <1>2, <1>4 DEF Transcripts
<1> QED BY <1>1, <1>5, <1>6, <1>7, Recorded DEF e

(* A message: it comes after the others.                                   *)
LEMMA MessageAdds ==
  ASSUME IInv, MInv, IInv', RInv, Record, Head(todo).kind = "EffectCommitted"
  PROVE  LET m == Head(todo).message
         IN  /\ m \in MessageSet /\ Head(todo) = todo[1]
             /\ Told(local.msgs)' /\ Told(agent.msgs)' /\ FirstRun'
             /\ replayable' => replayable /\ EndOf(stored'.msgs, local'.msgs)
             /\ ToSet(local'.msgs) \cup ToSet(agent'.msgs)
                  \subseteq ToSet(local.msgs) \cup ToSet(agent.msgs) \cup {m}
             /\ local'.msgs = Append(local.msgs, m)
             /\ replayable' => stored'.msgs = Append(stored.msgs, m)
<1> DEFINE e == Head(todo)
           m == e.message
<1>1. e.kind = "EffectCommitted" /\ Brings(e) = m /\ e.kind \in Effects
  BY DEF Brings, Effects
<1>2. /\ m \in Past' /\ m \in MessageSet
      /\ \A k \in ToSet(local.msgs) \cup ToSet(agent.msgs) : ~Clash(k, m)
  BY <1>1, RecordBrings
<1>3. \A s : Valid(s, e) /\ After(s.msgs, e) = Append(s.msgs, m)
  BY <1>1 DEF Valid, After
<1> HIDE DEF e, m
<1>4. /\ local'.msgs = Append(local.msgs, m) /\ agent'.msgs = Append(agent.msgs, m)
      /\ replayable' <=> replayable
      /\ replayable => stored'.msgs = Append(stored.msgs, m)
      /\ ~dropped' => ~dropped
      /\ run' = run /\ e = todo[1] /\ ~Quiet
      /\ local.msgs \in Seq(MessageSet) /\ agent.msgs \in Seq(MessageSet)
      /\ stored.msgs \in Seq(MessageSet)
  <2>1. /\ local'.msgs = After(local.msgs, e)
        /\ agent'.msgs = IF Valid(agent, e) THEN After(agent.msgs, e) ELSE agent.msgs
        /\ replayable' <=> replayable /\ Valid(stored, e)
        /\ stored'.msgs = IF replayable /\ Valid(stored, e) THEN After(stored.msgs, e) ELSE stored.msgs
        /\ e = todo[1] /\ ~Quiet /\ (~dropped' => ~dropped) /\ run' = run
        /\ local.msgs \in Seq(MessageSet) /\ agent.msgs \in Seq(MessageSet)
        /\ stored.msgs \in Seq(MessageSet)
    BY RecordIs DEF e
  <2> QED BY <1>3, <2>1
<1>5. Past \subseteq Past' /\ Transcripts /\ FirstRun
  BY RecordPast DEF RInv
<1>6. Told(local.msgs)' /\ ToSet(local'.msgs) = ToSet(local.msgs) \cup {m}
  <2>1. Distinct(local'.msgs) /\ ToSet(local'.msgs) = ToSet(local.msgs) \cup {m}
    BY <1>2, <1>4, <1>5, DistinctAdded DEF Transcripts, Told
  <2> QED BY <1>2, <1>5, <2>1 DEF Transcripts, Told
<1>7. Told(agent.msgs)' /\ ToSet(agent'.msgs) = ToSet(agent.msgs) \cup {m}
  <2>1. Distinct(agent'.msgs) /\ ToSet(agent'.msgs) = ToSet(agent.msgs) \cup {m}
    BY <1>2, <1>4, <1>5, DistinctAdded DEF Transcripts, Told
  <2> QED BY <1>2, <1>5, <2>1 DEF Transcripts, Told
<1>8. replayable' => replayable /\ EndOf(stored'.msgs, local'.msgs)
  BY <1>2, <1>4, <1>5, EndGrows DEF Transcripts
<1>9. FirstRun'
  <2>1. run # 0
    <3>1. pc # "idle"
      BY <1>4, NextEvent DEF Quiet
    <3> QED BY <3>1 DEF IInv, Numbers, Idle
  <2> QED BY <1>4, <1>5, <2>1 DEF FirstRun
<1> QED BY <1>1, <1>2, <1>4, <1>6, <1>7, <1>8, <1>9 DEF e, m

LEMMA RRecordPlain ==
  ASSUME IInv, MInv, IInv', RInv, Record, Head(todo).kind \in Effects, PlainInHand
  PROVE  RInv'
<1> DEFINE e == Head(todo)
           m == e.message
<1>1. /\ todo # <<>> /\ todo \in Seq(Events) /\ Len(todo) \in Nat \ {0}
      /\ Len(Tail(todo)) = Len(todo) - 1
      /\ \A i \in 1..Len(Tail(todo)) : Tail(todo)[i] = todo[i + 1]
      /\ e = todo[1]
  <2>1. todo # <<>> /\ todo \in Seq(Events)
    BY RecordEffect
  <2> QED BY <2>1, TailType
<1>2. e.kind = "EffectCommitted" /\ PlainMessage(m) /\ ~Owing /\ Brings(e) = m
  <2>1. 1 \in 1..Len(todo)
    BY <1>1
  <2> QED BY <1>1, <2>1 DEF PlainInHand, Brings
<1>3. /\ m \in MessageSet
      /\ Told(local.msgs)' /\ Told(agent.msgs)' /\ FirstRun'
      /\ replayable' => replayable /\ EndOf(stored'.msgs, local'.msgs)
      /\ ToSet(local'.msgs) \cup ToSet(agent'.msgs)
           \subseteq ToSet(local.msgs) \cup ToSet(agent.msgs) \cup {m}
      /\ local'.msgs = Append(local.msgs, m)
      /\ replayable' => stored'.msgs = Append(stored.msgs, m)
  BY <1>2, MessageAdds
<1>4. /\ local.msgs \in Seq(MessageSet) /\ stored.msgs \in Seq(MessageSet) /\ run \in 0..MaxRuns
      /\ ~Quiet /\ whole' = whole
  BY RecordIs
<1>5. e.kind \in Effects
  OBVIOUS
<1>6. ToSet(local'.msgs) \cup ToSet(agent'.msgs)
        \subseteq ToSet(local.msgs) \cup ToSet(agent.msgs) \cup {k \in {Brings(e)} : e.kind \in Effects}
  BY <1>2, <1>3, <1>5
<1> HIDE DEF e, m
<1>7. Due = <<>>
  BY <1>1, <1>2, <1>4 DEF Due, PlainMessage, m
<1>8. Transcripts
  BY DEF RInv
<1>9. ASSUME Goes(e)
      PROVE  /\ Live /\ whole => Paired(local'.msgs \o Due')
             /\ Live /\ replayable' => Paired(stored'.msgs \o Due')
             /\ InHand'
  <2>1. todo' = Tail(todo) /\ ~Owing'
    BY <1>2, <1>9, RecordPausing DEF Goes, e
  <2>2. \A i \in 1..Len(todo') : todo'[i] = todo[i + 1] /\ i + 1 \in 1..Len(todo)
    BY <1>1, <2>1
  <2>3. PlainInHand'
    BY <2>1, <2>2 DEF PlainInHand
  <2>4. Due' = <<>>
    <3>1. todo' = <<>> \/ 1 \in 1..Len(todo')
      <4>1. todo' \in Seq(Events)
        BY DEF IInv, TypeOK
      <4> QED BY <4>1, Elements
    <3>2. todo' = <<>> \/ todo'[1].kind # "EffectCommitted" \/ todo'[1].message.kind # "toolResult"
      BY <2>3, <3>1 DEF PlainInHand, PlainMessage, Effects
    <3> QED BY <2>1, <3>2, DueNext
  <2>5. ASSUME NEW s \in Seq(MessageSet), Paired(s \o Due)
        PROVE  Paired(Append(s, m) \o Due')
    <3>1. Paired(s)
      BY <1>7, <2>5, PairedNone
    <3>2. Paired(Append(s, m))
      BY <1>2, <1>3, <1>4, <3>1, PairedPlain DEF PlainMessage
    <3>3. Append(s, m) \in Seq(MessageSet)
      BY <1>3, AppendProperties
    <3> QED BY <2>4, <3>2, <3>3, PairedNone
  <2> QED BY <1>3, <1>4, <1>8, <2>3, <2>5 DEF Transcripts, InHand
<1> QED BY <1>3, <1>6, <1>9, Recorded DEF e

LEMMA RRecordAssistant ==
  ASSUME IInv, MInv, IInv', RInv, Record, AssistantInHand
  PROVE  RInv'
<1> DEFINE e == Head(todo)
           m == Message("assistant", run, turn, reply)
<1>1. /\ todo # <<>> /\ todo \in Seq(Events) /\ Len(todo) = 2 /\ Len(Tail(todo)) = 1
      /\ Tail(todo)[1] = todo[2] /\ e = todo[1]
  <2>1. todo # <<>> /\ todo \in Seq(Events) /\ Len(todo) = 2
    BY RecordEffect DEF AssistantInHand
  <2>2. /\ Len(Tail(todo)) = Len(todo) - 1 /\ e = todo[1]
        /\ \A i \in 1..Len(Tail(todo)) : Tail(todo)[i] = todo[i + 1]
    BY <2>1, TailType
  <2>3. Len(Tail(todo)) = 1
    BY <2>1, <2>2
  <2> QED BY <2>1, <2>2, <2>3
<1>2. e.kind = "EffectCommitted" /\ e.message = m /\ todo[2].kind \notin Effects
  BY <1>1, CommittedIs DEF AssistantInHand
<1>3. /\ m \in MessageSet
      /\ Told(local.msgs)' /\ Told(agent.msgs)' /\ FirstRun'
      /\ replayable' => replayable /\ EndOf(stored'.msgs, local'.msgs)
      /\ ToSet(local'.msgs) \cup ToSet(agent'.msgs)
           \subseteq ToSet(local.msgs) \cup ToSet(agent.msgs) \cup {m}
      /\ local'.msgs = Append(local.msgs, m)
      /\ replayable' => stored'.msgs = Append(stored.msgs, m)
  <2>1. /\ e.message \in MessageSet
        /\ Told(local.msgs)' /\ Told(agent.msgs)' /\ FirstRun'
        /\ replayable' => replayable /\ EndOf(stored'.msgs, local'.msgs)
        /\ ToSet(local'.msgs) \cup ToSet(agent'.msgs)
             \subseteq ToSet(local.msgs) \cup ToSet(agent.msgs) \cup {e.message}
        /\ local'.msgs = Append(local.msgs, e.message)
        /\ replayable' => stored'.msgs = Append(stored.msgs, e.message)
    BY <1>2, MessageAdds
  <2> HIDE DEF e, m
  <2> QED BY <1>2, <2>1
<1>4. /\ local.msgs \in Seq(MessageSet) /\ stored.msgs \in Seq(MessageSet) /\ run \in 0..MaxRuns
      /\ ~Quiet /\ UNCHANGED <<whole, reply, phase, run>>
  BY RecordIs
<1>5. m.kind = "assistant" /\ m.calls = reply
  BY DEF Message
<1>6. e.kind \in Effects /\ Brings(e) = m
  BY <1>2 DEF Effects, Brings
<1> HIDE DEF e, m
<1>7. Due = <<>>
  BY <1>1, <1>2, <1>4, <1>5 DEF Due
<1>8. Transcripts
  BY DEF RInv
<1>9. ASSUME Goes(e)
      PROVE  /\ Live /\ whole => Paired(local'.msgs \o Due')
             /\ Live /\ replayable' => Paired(stored'.msgs \o Due')
             /\ InHand'
  <2>1. todo' = Tail(todo) /\ pc' = pc
    BY <1>9 DEF Goes
  <2>2. /\ Len(todo') = 1 /\ todo'[1].kind \notin Effects
        /\ \A i \in 1..Len(todo') : todo'[i].kind \notin Effects
    <3>1. Len(todo') = 1 /\ todo'[1] = todo[2]
      BY <1>1, <2>1
    <3>2. todo'[1].kind \notin Effects
      BY <1>2, <3>1
    <3>3. \A i \in 1..Len(todo') : i = 1
      BY <3>1
    <3> QED BY <3>1, <3>2, <3>3
  <2>3. InHand'
    BY <2>2 DEF InHand, PlainInHand
  <2>4. Due' = Answers(reply)
    <3>1. Owing' /\ phase' = 7
      BY <1>4, <2>1 DEF Owing, AssistantInHand
    <3>2. todo'[1].kind # "EffectCommitted"
      BY <2>2 DEF Effects
    <3> QED BY <1>4, <3>1, <3>2 DEF Due, Answers
  <2>5. ASSUME NEW s \in Seq(MessageSet), Paired(s \o Due)
        PROVE  Paired(Append(s, m) \o Due')
    <3>1. Paired(s)
      BY <1>7, <2>5, PairedNone
    <3>2. Paired(Append(s, m) \o Answers(m.calls))
      BY <1>3, <1>4, <1>5, <3>1, PairedAsk
    <3> QED BY <1>5, <2>4, <3>2
  <2> QED BY <1>3, <1>4, <1>8, <2>3, <2>5 DEF Transcripts
<1>10. ToSet(local'.msgs) \cup ToSet(agent'.msgs)
        \subseteq ToSet(local.msgs) \cup ToSet(agent.msgs) \cup {k \in {Brings(e)} : e.kind \in Effects}
  BY <1>3, <1>6
<1> QED BY <1>3, <1>9, <1>10, Recorded DEF e

(* A result: one less is due.                                              *)
LEMMA RRecordResult ==
  ASSUME IInv, MInv, IInv', RInv, Record, Head(todo).kind \in Effects, ResultsInHand
  PROVE  RInv'
<1> DEFINE e == Head(todo)
           m == e.message
           n == Len(todo)
<1>1. /\ todo # <<>> /\ todo \in Seq(Events) /\ n \in Nat \ {0}
      /\ Len(Tail(todo)) = n - 1
      /\ \A i \in 1..Len(Tail(todo)) : Tail(todo)[i] = todo[i + 1]
      /\ e = todo[1]
  <2>1. todo # <<>> /\ todo \in Seq(Events)
    BY RecordEffect
  <2> QED BY <2>1, TailType
<1>2. /\ At = 9 /\ ~Owing
      /\ todo[n].kind \notin Effects
      /\ \A i \in 1..(n - 1) : /\ todo[i].kind = "EffectCommitted"
                               /\ todo[i] = Result(todo[i].message.n)
  <2>1. n \in 1..n /\ \A i \in 1..(n - 1) : i \in 1..n /\ i # n
    <3>1. n \in Nat \ {0}
      BY <1>1
    <3> HIDE DEF n
    <3> QED BY <3>1
  <2>2. At = 9 /\ ~Owing
    BY DEF ResultsInHand
  <2> HIDE DEF e
  <2> QED BY <2>1, <2>2 DEF ResultsInHand
<1>3. n > 1 /\ e.kind = "EffectCommitted" /\ Brings(e) = m /\ e.kind \in Effects
  <2>1. n # 1
    BY <1>1, <1>2
  <2>2. n > 1 /\ 1 \in 1..(n - 1)
    BY <1>1, <2>1
  <2>3. e.kind = "EffectCommitted"
    BY <1>1, <1>2, <2>2
  <2> QED BY <2>2, <2>3 DEF Brings, Effects
<1>4. /\ m \in MessageSet
      /\ Told(local.msgs)' /\ Told(agent.msgs)' /\ FirstRun'
      /\ replayable' => replayable /\ EndOf(stored'.msgs, local'.msgs)
      /\ ToSet(local'.msgs) \cup ToSet(agent'.msgs)
           \subseteq ToSet(local.msgs) \cup ToSet(agent.msgs) \cup {m}
      /\ local'.msgs = Append(local.msgs, m)
      /\ replayable' => stored'.msgs = Append(stored.msgs, m)
  BY <1>3, MessageAdds
<1>5. /\ local.msgs \in Seq(MessageSet) /\ stored.msgs \in Seq(MessageSet) /\ run \in 0..MaxRuns
      /\ ~Quiet /\ whole' = whole /\ run' = run
  BY RecordIs
<1> HIDE DEF e, m, n, At
<1>6. \A i \in 1..(n - 1) : /\ todo[i].message \in MessageSet /\ todo[i].message.kind = "toolResult"
                            /\ todo[i].kind = "EffectCommitted"
  <2> TAKE i \in 1..(n - 1)
  <2>1. todo[i] \in Events
    <3>1. i \in 1..Len(todo)
      BY <1>1 DEF n
    <3> QED BY <1>1, <3>1, ElementOfSeq
  <2>2. todo[i].message = Message("toolResult", run, todo[i].message.n, <<>>) /\ todo[i].kind = "EffectCommitted"
    BY <1>2, CommittedIs DEF Result
  <2>3. todo[i].message.kind = "toolResult"
    BY <2>2 DEF Message
  <2> QED BY <2>1, <2>2, <2>3 DEF Events, MarkerKinds, EndKinds
<1> DEFINE due == [i \in 1..(n - 1) |-> todo[i].message]
<1>7. due \in Seq(MessageSet) /\ Len(due) = n - 1 /\ \A i \in 1..(n - 1) : due[i] = todo[i].message
  <2>1. due \in [1..(n - 1) -> MessageSet] /\ n - 1 \in Nat
    BY <1>1, <1>6
  <2>2. due \in Seq(MessageSet)
    BY <2>1, SeqDef
  <2>3. DOMAIN due = 1..(n - 1)
    OBVIOUS
  <2>4. DOMAIN due = 1..Len(due) /\ Len(due) \in Nat
    BY <2>2, LenProperties
  <2> HIDE DEF due
  <2>5. Len(due) = n - 1
    BY <2>1, <2>3, <2>4
  <2> QED BY <2>2, <2>5 DEF due
<1>8. Due = due
  <2>1. todo[1].kind = "EffectCommitted" /\ todo[1].message.kind = "toolResult"
    BY <1>1, <1>3, <1>6
  <2> QED BY <1>5, <2>1 DEF Due, n
<1> HIDE DEF due
<1>9. due # <<>> /\ due[1] = m
  <2>1. 1 \in 1..(n - 1)
    BY <1>1, <1>3
  <2>2. due # <<>>
    <3>1. Len(due) # 0
      BY <1>1, <1>3, <1>7
    <3> QED BY <1>7, <3>1, Elements
  <2> QED BY <1>1, <1>7, <2>1, <2>2 DEF m
<1>10. Transcripts
  BY DEF RInv
<1>11. ASSUME Goes(e)
       PROVE  /\ Live /\ whole => Paired(local'.msgs \o Due')
              /\ Live /\ replayable' => Paired(stored'.msgs \o Due')
              /\ InHand'
  <2>1. todo' = Tail(todo) /\ ~Owing' /\ At' = 9
    BY <1>2, <1>11, RecordPausing DEF Goes, e
  <2>2. /\ Len(todo') = n - 1
        /\ \A i \in 1..(n - 1) : todo'[i] = todo[i + 1]
    BY <1>1, <2>1
  <2>3. InHand'
    <3>1. ASSUME NEW i \in 1..Len(todo')
          PROVE  IF i = Len(todo') THEN todo'[i].kind \notin Effects
                 ELSE /\ todo'[i].kind = "EffectCommitted"
                      /\ todo'[i] = Committed(Message("toolResult", run', todo'[i].message.n, <<>>))
      <4>1. \A k : Result(k) = Committed(Message("toolResult", run', k, <<>>))
        BY <1>5 DEF Result
      <4>2. todo'[i] = todo[i + 1] /\ (i # n - 1 => i + 1 \in 1..(n - 1)) /\ i + 1 \in 1..n
        BY <1>1, <2>2
      <4>3. CASE i = n - 1
        <5>1. i + 1 = n
          BY <1>1, <4>3
        <5> QED BY <1>2, <2>2, <4>2, <4>3, <5>1
      <4>4. CASE i # n - 1
        <5>1. todo[i + 1].kind = "EffectCommitted" /\ todo[i + 1] = Result(todo[i + 1].message.n)
          BY <1>2, <4>2, <4>4
        <5> QED BY <2>2, <4>1, <4>2, <4>4, <5>1
      <4> QED BY <4>3, <4>4
    <3>2. ResultsInHand'
      BY <2>1, <3>1 DEF ResultsInHand, Result
    <3> QED BY <3>2 DEF InHand
  <2>4. Due' = Tail(due)
    <3>1. /\ Tail(due) \in Seq(MessageSet) /\ Len(Tail(due)) = n - 2
          /\ \A i \in 1..(n - 2) : Tail(due)[i] = due[i + 1]
      <4>1. /\ Tail(due) \in Seq(MessageSet) /\ Len(Tail(due)) = Len(due) - 1
            /\ \A i \in 1..Len(Tail(due)) : Tail(due)[i] = due[i + 1]
        BY <1>7, <1>9, HeadTailProperties
      <4>2. Len(due) - 1 = n - 2
        BY <1>1, <1>7
      <4> QED BY <4>1, <4>2
    <3>2. CASE n = 2
      <4>1. 1 \in 1..(n - 1) /\ 1 + 1 = n
        BY <3>2
      <4>2. todo'[1].kind # "EffectCommitted"
        <5>1. todo'[1] = todo[1 + 1]
          BY <2>2, <4>1
        <5>2. todo'[1] = todo[n]
          BY <4>1, <5>1
        <5> QED BY <1>2, <5>2 DEF Effects
      <4>3. Due' = <<>>
        BY <2>1, <4>2, DueNext
      <4>4. Tail(due) = <<>>
        <5>1. Len(Tail(due)) = 0
          BY <3>1, <3>2
        <5> QED BY <3>1, <5>1, EmptySeq
      <4> QED BY <4>3, <4>4
    <3>3. CASE n # 2
      <4>1. 1 \in 1..(n - 1) /\ 1 + 1 \in 1..(n - 1) /\ n - 1 > 1
        BY <1>1, <1>3, <3>3
      <4>2. todo'[1].kind = "EffectCommitted" /\ todo'[1].message.kind = "toolResult" /\ ~Quiet'
        <5>1. todo'[1] = todo[1 + 1]
          BY <2>2, <4>1
        <5>2. ~Quiet'
          BY <2>2, <4>1, EmptySeq DEF Quiet
        <5> QED BY <1>6, <4>1, <5>1, <5>2
      <4>3. Due' = [i \in 1..(n - 2) |-> todo'[i].message]
        <5>1. Due' = [i \in 1..(Len(todo') - 1) |-> todo'[i].message]
          BY <4>2 DEF Due
        <5>2. Len(todo') - 1 = n - 2
          BY <1>1, <2>2
        <5> QED BY <5>1, <5>2
      <4>4. \A i \in 1..(n - 2) : todo'[i].message = Tail(due)[i]
        <5> TAKE i \in 1..(n - 2)
        <5>1. i \in 1..(n - 1) /\ i + 1 \in 1..(n - 1)
          BY <1>1
        <5> QED BY <1>7, <2>2, <3>1, <5>1
      <4>5. Tail(due) = [i \in 1..(n - 2) |-> Tail(due)[i]]
        <5>1. Tail(due) \in [1..Len(Tail(due)) -> MessageSet]
          BY <3>1, LenProperties
        <5>2. Tail(due) \in [1..(n - 2) -> MessageSet]
          BY <3>1, <5>1
        <5> QED BY <5>2
      <4> QED BY <4>3, <4>4, <4>5
    <3> QED BY <3>2, <3>3
  <2>5. ASSUME NEW s \in Seq(MessageSet), Paired(s \o Due)
        PROVE  Paired(Append(s, m) \o Due')
    <3>1. s \o due = Append(s, due[1]) \o Tail(due)
      BY <1>7, <1>9, DueComes
    <3> QED BY <1>8, <1>9, <2>4, <2>5, <3>1
  <2> QED BY <1>4, <1>5, <1>10, <2>3, <2>5 DEF Transcripts
<1>12. ToSet(local'.msgs) \cup ToSet(agent'.msgs)
        \subseteq ToSet(local.msgs) \cup ToSet(agent.msgs) \cup {k \in {Brings(e)} : e.kind \in Effects}
  BY <1>3, <1>4
<1> QED BY <1>4, <1>11, <1>12, Recorded DEF e

(* A summary: what it keeps stays in order.                                *)
LEMMA SplitAt ==
  ASSUME NEW s \in Seq(MessageSet), NEW cut \in 2..Len(s)
  PROVE  ToSet(SubSeq(s, cut, Len(s))) \cup ToSet(SubSeq(s, 1, cut - 1)) = ToSet(s)
<1> DEFINE n == Len(s)
           q == SubSeq(s, cut, n)
           p == SubSeq(s, 1, cut - 1)
<1>1. n \in Nat /\ \A i \in 1..n : s[i] \in MessageSet
  BY LenProperties, ElementOfSeq
<1>2. q \in Seq(MessageSet) /\ Len(q) = n - cut + 1 /\ \A i \in 1..(n - cut + 1) : q[i] = s[cut + i - 1]
  <2>1. \A i \in cut..n : s[i] \in MessageSet
    BY <1>1
  <2> QED BY <1>1, <2>1, SubSeqProperties
<1>3. p \in Seq(MessageSet) /\ Len(p) = cut - 1 /\ \A i \in 1..(cut - 1) : p[i] = s[i]
  <2>1. \A i \in 1..(cut - 1) : s[i] \in MessageSet
    BY <1>1
  <2>2. /\ p \in Seq(MessageSet)
        /\ Len(p) = IF 1 <= cut - 1 THEN (cut - 1) - 1 + 1 ELSE 0
        /\ \A i \in 1..((cut - 1) - 1 + 1) : p[i] = s[1 + i - 1]
    BY <1>1, <2>1, SubSeqProperties
  <2>3. 1 <= cut - 1 /\ (cut - 1) - 1 + 1 = cut - 1 /\ \A i \in 1..(cut - 1) : 1 + i - 1 = i
    BY <1>1
  <2> HIDE DEF p
  <2> QED BY <2>2, <2>3
<1> HIDE DEF p, q
<1>4. \A x : x \in ToSet(s) <=> \E i \in 1..n : s[i] = x
  BY Elements
<1>5. \A x : x \in ToSet(q) <=> \E i \in 1..(n - cut + 1) : s[cut + i - 1] = x
  <2>1. \A x : x \in ToSet(q) <=> \E i \in 1..Len(q) : q[i] = x
    BY <1>2, Elements
  <2>2. \A x : (\E i \in 1..Len(q) : q[i] = x) <=> (\E i \in 1..(n - cut + 1) : q[i] = x)
    BY <1>2
  <2>3. TAKE x
  <2>4. ASSUME NEW i \in 1..(n - cut + 1), q[i] = x PROVE s[cut + i - 1] = x
    BY <1>2, <2>4
  <2>5. ASSUME NEW i \in 1..(n - cut + 1), s[cut + i - 1] = x PROVE q[i] = x
    BY <1>2, <2>5
  <2> QED BY <2>1, <2>2, <2>4, <2>5
<1>6. \A x : x \in ToSet(p) <=> \E i \in 1..(cut - 1) : s[i] = x
  BY <1>3, Elements
<1>7. ASSUME NEW x \in ToSet(s) PROVE x \in ToSet(q) \cup ToSet(p)
  <2>1. PICK i \in 1..n : s[i] = x
    BY <1>4
  <2>2. CASE i < cut
    <3>1. i \in 1..(cut - 1)
      BY <1>1, <2>2
    <3> QED BY <1>6, <2>1, <3>1
  <2>3. CASE ~(i < cut)
    <3>1. i - cut + 1 \in 1..(n - cut + 1) /\ cut + (i - cut + 1) - 1 = i
      BY <1>1, <2>3
    <3>2. s[cut + (i - cut + 1) - 1] = x
      BY <2>1, <3>1
    <3> QED BY <1>5, <3>1, <3>2
  <2> QED BY <2>2, <2>3
<1>8. ASSUME NEW x \in ToSet(q) \cup ToSet(p) PROVE x \in ToSet(s)
  <2>1. CASE x \in ToSet(q)
    <3>1. PICK i \in 1..(n - cut + 1) : s[cut + i - 1] = x
      BY <1>5, <2>1
    <3>2. cut + i - 1 \in 1..n
      BY <1>1
    <3> QED BY <1>4, <3>1, <3>2
  <2>2. CASE x \in ToSet(p)
    <3>1. PICK i \in 1..(cut - 1) : s[i] = x
      BY <1>6, <2>2
    <3>2. i \in 1..n
      BY <1>1
    <3> QED BY <1>4, <3>1, <3>2
  <2> QED BY <1>8, <2>1, <2>2
<1> QED BY <1>7, <1>8 DEF p, q

LEMMA RRecordSummary ==
  ASSUME IInv, MInv, IInv', RInv, Record, SummaryInHand
  PROVE  RInv'
<1> DEFINE e == Head(todo)
           m == Message("summary", run, turn, <<>>)
           s == local.msgs
<1>1. /\ todo # <<>> /\ todo \in Seq(Events) /\ Len(todo) = 2 /\ Len(Tail(todo)) = 1
      /\ Tail(todo)[1] = todo[2] /\ e = todo[1]
  <2>1. todo # <<>> /\ todo \in Seq(Events) /\ Len(todo) = 2
    BY RecordEffect DEF SummaryInHand
  <2>2. /\ Len(Tail(todo)) = Len(todo) - 1 /\ e = todo[1]
        /\ \A i \in 1..Len(Tail(todo)) : Tail(todo)[i] = todo[i + 1]
    BY <2>1, TailType
  <2>3. Len(Tail(todo)) = 1
    BY <2>1, <2>2
  <2> QED BY <2>1, <2>2, <2>3
<1>2. PICK cut \in Cuts(s) : e = CompactAt(s, cut)
  BY <1>1 DEF SummaryInHand
<1> DEFINE q == SubSeq(s, cut, Len(s))
           left == ToSet(SubSeq(s, 1, cut - 1))
<1>3. /\ e.kind = "MessagesCompacted" /\ e.summary = m /\ e.retained = ToSet(q) /\ e.dropped = left
      /\ e.kind \in Effects /\ Brings(e) = m
  BY <1>2 DEF CompactAt, Compacted, Effects, Brings
<1>4. /\ m \in Past' /\ m \in MessageSet
      /\ \A k \in ToSet(s) \cup ToSet(agent.msgs) : ~Clash(k, m)
  BY <1>3, RecordBrings
<1>5. cut \in 2..Len(s) /\ s[cut].kind # "toolResult"
  BY DEF Cuts, CutKinds, QueuedKinds
<1>6. m.kind = "summary" /\ m.calls = <<>>
  BY DEF Message
<1> HIDE DEF e, m, s
<1>7. /\ local'.msgs = After(s, e)
      /\ agent'.msgs = IF Valid(agent, e) THEN After(agent.msgs, e) ELSE agent.msgs
      /\ replayable' <=> replayable /\ Valid(stored, e)
      /\ stored'.msgs = IF replayable /\ Valid(stored, e) THEN After(stored.msgs, e) ELSE stored.msgs
      /\ (~dropped' => ~dropped /\ Valid(agent, e)) /\ ~Quiet
      /\ UNCHANGED <<run, turn, phase, whole, reply>> /\ run \in 0..MaxRuns
      /\ s \in Seq(MessageSet) /\ agent.msgs \in Seq(MessageSet) /\ stored.msgs \in Seq(MessageSet)
  BY RecordIs DEF e, s
<1>8. Past \subseteq Past' /\ Transcripts /\ FirstRun
  BY RecordPast DEF RInv
<1>9. Distinct(s) /\ Distinct(agent.msgs) /\ ToSet(s) \subseteq Past /\ ToSet(agent.msgs) \subseteq Past
  BY <1>8 DEF Transcripts, Told, s
<1>10. /\ Kept(s, ToSet(q)) = q /\ q \in Seq(MessageSet) /\ Distinct(q) /\ ToSet(q) \subseteq ToSet(s)
  <2>1. Len(s) \in Nat /\ cut \in 1..Len(s)
    BY <1>5, <1>7, LenProperties
  <2>2. Kept(s, ToSet(q)) = q
    BY <1>7, <1>9, <2>1, KeptFrom
  <2> HIDE DEF q
  <2>3. /\ Kept(s, ToSet(q)) \in Seq(MessageSet) /\ ToSet(Kept(s, ToSet(q))) = ToSet(s) \cap ToSet(q)
    BY <1>7, KeptOf
  <2>4. Distinct(Kept(s, ToSet(q)))
    BY <1>7, <1>9, KeptDistinct
  <2> QED BY <2>2, <2>3, <2>4
<1>11. ToSet(q) \cup left = ToSet(s)
  BY <1>5, <1>7, SplitAt
<1>12. Paired(s) => Paired(<<m>> \o q)
  BY <1>4, <1>5, <1>6, <1>7, PairedCut
<1> HIDE DEF q, left
<1>13. /\ local'.msgs = <<m>> \o q
       /\ <<m>> \o q \in Seq(MessageSet) /\ Distinct(<<m>> \o q)
       /\ ToSet(<<m>> \o q) = ToSet(q) \cup {m}
  <2>1. \A k \in ToSet(q) : ~Clash(k, m)
    BY <1>4, <1>10
  <2>2. local'.msgs = <<m>> \o q
    BY <1>3, <1>7, <1>10 DEF After
  <2> QED BY <1>4, <1>10, <2>1, <2>2, DistinctJoined
<1>14. Told(local.msgs)'
  BY <1>4, <1>8, <1>9, <1>10, <1>13 DEF Told
<1>15. Told(agent.msgs)' /\ ToSet(agent'.msgs) \subseteq ToSet(agent.msgs) \cup {m}
  <2>1. CASE ~Valid(agent, e)
    BY <1>7, <1>8, <1>9, <2>1 DEF Told
  <2>2. CASE Valid(agent, e)
    <3> DEFINE k == Kept(agent.msgs, ToSet(q))
    <3>1. k \in Seq(MessageSet) /\ ToSet(k) \subseteq ToSet(agent.msgs) /\ Distinct(k)
      BY <1>7, <1>9, KeptOf, KeptDistinct
    <3>2. agent'.msgs = <<m>> \o k
      BY <1>3, <1>7, <2>2 DEF After
    <3> HIDE DEF k
    <3>3. \A x \in ToSet(k) : ~Clash(x, m)
      BY <1>4, <3>1
    <3>4. Distinct(<<m>> \o k) /\ ToSet(<<m>> \o k) = ToSet(k) \cup {m}
      BY <1>4, <3>1, <3>3, DistinctJoined
    <3>5. Distinct(agent'.msgs) /\ ToSet(agent'.msgs) \subseteq Past'
      BY <1>4, <1>8, <1>9, <3>1, <3>2, <3>4
    <3> QED BY <3>1, <3>2, <3>4, <3>5 DEF Told
  <2> QED BY <2>1, <2>2
<1>16. Valid(stored, e) <=> ToSet(stored.msgs) = ToSet(s) /\ m \notin ToSet(stored.msgs)
  BY <1>3, <1>11 DEF Valid
<1>17. replayable' => stored.msgs = s /\ stored'.msgs = local'.msgs
  <2> SUFFICES ASSUME replayable' PROVE stored.msgs = s /\ stored'.msgs = local'.msgs
    OBVIOUS
  <2>1. EndOf(stored.msgs, s) /\ ToSet(stored.msgs) = ToSet(s)
    BY <1>7, <1>8, <1>16 DEF Transcripts, s
  <2>2. stored.msgs = s
    BY <1>7, <1>9, <2>1, EndIsAll
  <2> QED BY <1>7, <2>2
<1>18. m \notin ToSet(s)
  BY <1>4 DEF Clash
<1>19. FirstRun'
  <2>1. run # 0
    <3>1. pc # "idle"
      BY <1>7, NextEvent DEF Quiet
    <3> QED BY <3>1 DEF IInv, Numbers, Idle
  <2>2. run <= 1 => replayable'
    BY <1>7, <1>8, <1>16, <1>18 DEF FirstRun, s
  <2>3. run <= 1 /\ ~dropped' => agent'.msgs = local'.msgs
    BY <1>7, <1>8 DEF FirstRun, s
  <2> QED BY <1>7, <1>17, <2>1, <2>2, <2>3 DEF FirstRun
<1>20. replayable' => EndOf(stored'.msgs, local'.msgs)
  BY <1>13, <1>17, EndsOf
<1>21. Due = <<>> /\ pc = "phase" /\ phase = 4 /\ todo[2].kind \notin Effects
  <2>1. pc = "phase" /\ phase = 4 /\ todo[2].kind \notin Effects
    BY DEF SummaryInHand
  <2>2. ~Owing
    BY <2>1 DEF Owing, Resumable
  <2> QED BY <1>1, <1>3, <2>1, <2>2 DEF Due
<1>22. ASSUME Goes(e)
       PROVE  /\ Live /\ whole => Paired(local'.msgs \o Due')
              /\ Live /\ replayable' => Paired(stored'.msgs \o Due')
              /\ InHand'
  <2>1. todo' = Tail(todo) /\ pc' = pc
    BY <1>22 DEF Goes
  <2>2. /\ Len(todo') = 1 /\ todo'[1].kind \notin Effects
        /\ \A i \in 1..Len(todo') : todo'[i].kind \notin Effects
    <3>1. Len(todo') = 1 /\ todo'[1] = todo[2]
      BY <1>1, <2>1
    <3>2. todo'[1].kind \notin Effects
      BY <1>21, <3>1
    <3>3. \A i \in 1..Len(todo') : i = 1
      BY <3>1
    <3> QED BY <3>1, <3>2, <3>3
  <2>3. InHand'
    BY <2>2 DEF InHand, PlainInHand
  <2>4. ~Owing'
    BY <1>7, <1>21, <2>1 DEF Owing, Resumable
  <2>5. Due' = <<>>
    BY <2>2, <2>4, DueNext DEF Effects
  <2>6. Paired(s \o Due) => Paired(local'.msgs \o Due')
    BY <1>7, <1>12, <1>13, <1>21, <2>5, PairedNone
  <2> QED BY <1>7, <1>8, <1>17, <2>3, <2>6 DEF Transcripts, s
<1>23. ToSet(local'.msgs) \cup ToSet(agent'.msgs)
        \subseteq ToSet(local.msgs) \cup ToSet(agent.msgs) \cup {k \in {Brings(e)} : e.kind \in Effects}
  BY <1>3, <1>10, <1>13, <1>15 DEF s
<1> QED BY <1>14, <1>15, <1>19, <1>20, <1>22, <1>23, Recorded DEF e

LEMMA RRecord == ASSUME IInv, MInv, IInv', RInv, Record PROVE RInv'
<1>1. InHand
  BY DEF RInv
<1>2. CASE Head(todo).kind \notin Effects
  BY <1>2, RRecordMarker
<1>3. CASE Head(todo).kind \in Effects
  BY <1>1, <1>3, RRecordPlain, RRecordAssistant, RRecordResult, RRecordSummary DEF InHand
<1> QED BY <1>2, <1>3

-----------------------------------------------------------------------------
LEMMA DriverReaches == ASSUME IInv, MInv, IInv', RInv, Driver PROVE RInv'
<1>1. CASE ProposalFails \/ StoreFails
  BY <1>1, RProposalFails, RStoreFails
<1>2. CASE Record
  BY <1>2, RRecord
<1>3. CASE BeginSteering \/ SteeringAtContinue \/ SteeringAtStop \/ TurnAfterStop
  BY <1>3, RQueues
<1>4. CASE BeginTurn
  BY <1>4, RBeginTurn
<1>5. CASE InputIngest
  BY <1>5, RInputIngest
<1>6. CASE PreparePhase
  BY <1>6, RPreparePhase
<1>7. CASE ContextCompact
  BY <1>7, RContextCompact
<1>8. CASE ModelStream
  BY <1>8, RModelStream
<1>9. CASE AssistantCommit
  BY <1>9, RAssistantCommit
<1>10. CASE ToolCallResolve
  BY <1>10, RToolCallResolve
<1>11. CASE ToolPhase
  BY <1>11, RToolPhase
<1>12. CASE TurnDecision
  BY <1>12, RTurnDecision
<1>13. CASE TurnCompleted \/ SteeringEmpty \/ PrependHeld \/ NextTurn \/ CompleteRun
  BY <1>13, RBetween
<1>14. CASE ResumePhase
  BY <1>14, RResumePhase
<1>15. CASE RecordRunError
  BY <1>15, RRecordRunError
<1>16. CASE FinishRun
  BY <1>16, RFinishRun
<1> QED
  BY <1>1, <1>2, <1>3, <1>4, <1>5, <1>6, <1>7, <1>8, <1>9, <1>10, <1>11, <1>12, <1>13,
     <1>14, <1>15, <1>16 DEF Driver

LEMMA CallersReach == ASSUME IInv, IInv', RInv, Callers PROVE RInv'
<1>1. CASE Prompt
  BY <1>1, RStartRun DEF Prompt
<1>2. CASE ContinueRun
  BY <1>2, RStartRun DEF ContinueRun
<1>3. CASE ResumeRun
  BY <1>3, RResumeRun
<1>4. CASE AbortActive \/ AbortPaused \/ AbortLoad \/ AbortFails \/ AbortRecord \/ Reset
  BY <1>4, RAborts
<1>5. CASE Steer \/ SteerUserInput \/ FollowUp
  BY <1>5, RQueued
<1> QED BY <1>1, <1>2, <1>3, <1>4, <1>5 DEF Callers

LEMMA StandingReaches == ASSUME IInv, IInv', RInv, UNCHANGED vars PROVE RInv'
<1>1. /\ UNCHANGED <<pc, todo, cause, run, turn, phase, startPhase, reply, calls, input, nextCall,
                     queuedLog, cont, whole, replayable, local>>
      /\ UNCHANGED <<stored, agent, dropped, sent>>
  BY DEF vars, control, cursor, log, queues, history
<1>2. TypeOK /\ TypeOK' /\ \A i \in 1..Len(sent) : sent[i].calls = <<>>
  BY DEF IInv, RInv, Asked
<1> QED BY <1>1, <1>2, StandStill

LEMMA ReachBegins == Init => RInv
<1> SUFFICES ASSUME Init PROVE RInv
  OBVIOUS
<1>1. /\ pc = "idle" /\ todo = <<>> /\ run = 0 /\ turn = 0 /\ input = NoInput
      /\ reply = <<>> /\ calls = <<>> /\ replayable = TRUE
      /\ local = DefaultState /\ agent = DefaultState /\ stored = DefaultState
      /\ sent = <<>> /\ nextCall = 1
  BY DEF Init
<1>2. /\ Len(<<>>) = 0 /\ <<>> \in Seq(MessageSet) /\ ToSet(<<>>) = {}
      /\ DefaultState.msgs = <<>> /\ DefaultState.status # "Paused"
  BY EmptySeq, NothingSorted DEF DefaultState
<1>3. \A i \in 1..0 : FALSE
  OBVIOUS
<1>4. At = 10 /\ ~Live /\ ~Owing /\ ~Resumable
  BY <1>1, <1>2 DEF At, Moving, Live, Owing, Resumable
<1>5. Transcripts
  BY <1>1, <1>2, <1>3, <1>4 DEF Transcripts, Told, Distinct, EndOf
<1>6. Comes
  BY <1>1, <1>2, <1>3 DEF Comes, Apart
<1>7. Asked
  BY <1>1, <1>2, <1>3, <1>4 DEF Asked
<1>8. Pausing
  BY <1>1, <1>2 DEF Pausing
<1>9. InHand
  BY <1>1, <1>2, <1>3 DEF InHand, PlainInHand
<1>10. FirstRun
  BY <1>1, <1>2 DEF FirstRun
<1> QED BY <1>5, <1>6, <1>7, <1>8, <1>9, <1>10 DEF RInv

(* What the model is asked about holds no tool call without its result, no *)
(* result without its call and no queued message between them, if the run  *)
(* began so; no call has two results; and the log of the first run reduces *)
(* to what the agent shows: for every limit on runs and turns, any queue   *)
(* modes and any callers, over steering, compaction, pauses, resumes and   *)
(* aborts (run_turns_from, find_cut_point, resume_tool_approvals_internal, *)
(* reduce_events).                                                         *)
THEOREM ResultsReach == Spec => []ResultsReachModel
<1>1. IInv /\ MInv /\ IInv' /\ RInv /\ [Next]_vars => RInv'
  BY DriverReaches, CallersReach, StandingReaches DEF Next
<1>2. Spec => []RInv
  BY <1>1, Inductive, QueuesStay, ReachBegins, PTL DEF Spec
<1>3. IInv /\ RInv => ResultsReachModel
  <2> SUFFICES ASSUME IInv, RInv PROVE ResultsReachModel
    OBVIOUS
  <2>1. /\ TypeOK /\ Transcripts /\ FirstRun /\ local.msgs \in Seq(MessageSet) /\ run \in Nat
    <3>1. TypeOK /\ Transcripts /\ FirstRun
      BY DEF IInv, RInv
    <3>2. local \in States /\ run \in 0..MaxRuns
      BY <3>1 DEF TypeOK
    <3> QED BY <3>1, <3>2, LoopAssumption DEF States
  <2>2. ASSUME InPhase("model.stream"), whole PROVE Paired(local.msgs)
    <3>1. pc = "phase" /\ Quiet /\ phase = 5
      BY <2>2 DEF InPhase, Phases
    <3>2. Live /\ Due = <<>>
      BY <3>1 DEF Live, Due, Owing, Resumable
    <3>3. Paired(local.msgs \o Due)
      BY <2>1, <2>2, <3>2 DEF Transcripts
    <3> QED BY <2>1, <3>2, <3>3, PairedNone
  <2>3. ASSUME NEW i \in DOMAIN local.msgs, NEW j \in DOMAIN local.msgs, i # j,
               local.msgs[i].kind = "toolResult", local.msgs[j].kind = "toolResult"
        PROVE  local.msgs[i].n # local.msgs[j].n
    <3>1. i \in 1..Len(local.msgs) /\ j \in 1..Len(local.msgs) /\ Len(local.msgs) \in Nat
      BY <2>1, LenProperties
    <3>2. i < j \/ j < i
      BY <2>3, <3>1
    <3> QED BY <2>1, <2>3, <3>1, <3>2 DEF Transcripts, Told, Distinct, Clash
  <2>4. run <= 1 => replayable /\ (Idle /\ ~dropped => stored.msgs = agent.msgs)
    BY <2>1 DEF FirstRun
  <2> QED BY <2>2, <2>3, <2>4 DEF ResultsReachModel
<1> QED BY <1>2, <1>3, Inductive, PTL
=============================================================================
