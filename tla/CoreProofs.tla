------------------------------ MODULE CoreProofs ------------------------------
(***************************************************************************)
(* The components around the run loop, for every value of their constants. *)
(*   IdleWait          any number of runners and waiters and either kind   *)
(*                     of executor: one run at a time, and whoever waited  *)
(*                     for a run sees it settled.                          *)
(*   SseStream         a call that succeeds delivered one whole response.  *)
(*   StdioExtension    a reader that has given up leaves no request        *)
(*                     waiting.                                            *)
(*   Compaction        what is dropped from the context is in a summary.   *)
(*   EventStore        a paused session can be resumed after a restart.    *)
(*   RequestRendering  what a provider accepted once it accepts in every   *)
(*                     later turn.                                         *)
(***************************************************************************)
EXTENDS MCCore, SequenceTheorems, WellFoundedInduction, TLAPS

(* IdleWait.                                                               *)

Inside == {"running", "settled"}
Ran == Inside \cup {"cleared", "returned"}

(* active_run holds the token of a run that is inside run_exclusive.       *)
ActiveRuns == active # "none" => runner[active] \in Inside

(* A waiter only ever waited for a run that had started.                   *)
AwaitedRan == \A w \in Waiters : awaited[w] # "none" => runner[awaited[w]] \in Ran

IInv == TypeOK /\ ActiveRuns /\ OneRun /\ AwaitedRan /\ WaitSeesSettled

(* Every step of run_exclusive keeps the invariant: it is the runner that  *)
(* finds active_run empty that becomes active.                             *)
LEMMA RunStep ==
  ASSUME IInv, NEW r \in Runners, Run(r)
  PROVE  IInv'
<1>1. CASE Start(r)
  <2>1. CASE active = "none"
    <3>1. active' = r /\ runner' = [runner EXCEPT ![r] = "running"]
          /\ UNCHANGED <<aborter, waiter, awaited>>
      BY <1>1, <2>1 DEF Start, Free
    <3>2. TypeOK' /\ ActiveRuns'
      BY <3>1 DEF IInv, TypeOK, ActiveRuns, Inside
    <3>3. OneRun'
      BY <2>1, <3>1, IdleAssumption DEF IInv, TypeOK, OneRun
    <3>4. AwaitedRan' /\ WaitSeesSettled'
      BY <1>1, <3>1 DEF Start, IInv, TypeOK, AwaitedRan, WaitSeesSettled, Inside, Ran
    <3> QED BY <3>2, <3>3, <3>4 DEF IInv
  <2>2. CASE active # "none"
    <3>1. runner' = [runner EXCEPT ![r] = "rejected"]
          /\ UNCHANGED <<active, aborter, waiter, awaited>>
      BY <1>1, <2>2 DEF Start, Free
    <3>2. TypeOK' /\ OneRun'
      BY <3>1 DEF IInv, TypeOK, OneRun
    <3>3. ActiveRuns' /\ AwaitedRan' /\ WaitSeesSettled'
      BY <1>1, <3>1 DEF Start, IInv, TypeOK, ActiveRuns, AwaitedRan, WaitSeesSettled, Inside, Ran
    <3> QED BY <3>2, <3>3 DEF IInv
  <2> QED BY <2>1, <2>2
<1>2. CASE Finish(r)
  BY <1>2, IdleAssumption DEF Finish, IInv, TypeOK, ActiveRuns, OneRun, AwaitedRan,
     WaitSeesSettled, Inside, Ran
<1>3. CASE Clear(r)
  BY <1>3, IdleAssumption DEF Clear, IInv, TypeOK, ActiveRuns, OneRun, AwaitedRan,
     WaitSeesSettled, Inside, Ran
<1>4. CASE Notify(r)
  BY <1>4, IdleAssumption DEF Notify, Wake, Woken, Armed, IInv, TypeOK, ActiveRuns, OneRun,
     AwaitedRan, WaitSeesSettled, Inside, Ran
<1> QED BY <1>1, <1>2, <1>3, <1>4 DEF Run

(* Every step of wait_for_idle keeps the invariant: a waiter returns only  *)
(* from a look that found active_run empty.                                *)
LEMMA WaitStep ==
  ASSUME IInv, NEW w \in Waiters, Wait(w)
  PROVE  IInv'
<1>1. CASE Look(w)
  BY <1>1, IdleAssumption DEF Look, IInv, TypeOK, ActiveRuns, OneRun, AwaitedRan,
     WaitSeesSettled, Inside, Ran
<1>2. CASE Register(w)
  BY <1>2 DEF Register, IInv, TypeOK, ActiveRuns, OneRun, AwaitedRan, WaitSeesSettled
<1>3. CASE WakeUp(w)
  BY <1>3 DEF WakeUp, AfterWake, IInv, TypeOK, ActiveRuns, OneRun, AwaitedRan, WaitSeesSettled
<1> QED BY <1>1, <1>2, <1>3 DEF Wait

(* An abort of a paused run wakes waiters and touches no run.              *)
LEMMA AbortStep ==
  ASSUME IInv, BeginAbort \/ EndAbort
  PROVE  IInv'
BY DEF BeginAbort, EndAbort, Wake, Woken, Armed, IInv, TypeOK, ActiveRuns, OneRun,
   AwaitedRan, WaitSeesSettled

(* The inductive invariant of the runners and the waiters.                 *)
THEOREM IdleInvariant == Spec => []IInv
<1>1. Init => IInv
  BY DEF Init, IInv, TypeOK, ActiveRuns, OneRun, AwaitedRan, WaitSeesSettled
<1>2. IInv /\ [Next]_vars => IInv'
  <2> SUFFICES ASSUME IInv, [Next]_vars PROVE IInv'
    OBVIOUS
  <2>1. CASE \E r \in Runners : Run(r)
    BY <2>1, RunStep
  <2>2. CASE \E w \in Waiters : Wait(w)
    BY <2>2, WaitStep
  <2>3. CASE BeginAbort \/ EndAbort
    BY <2>3, AbortStep
  <2>4. CASE UNCHANGED vars
    BY <2>4 DEF vars, IInv, TypeOK, ActiveRuns, OneRun, AwaitedRan, WaitSeesSettled
  <2> QED BY <2>1, <2>2, <2>3, <2>4 DEF Next
<1> QED BY <1>1, <1>2, PTL DEF Spec

(* run_exclusive admits one run at a time: two tasks never use the agent's *)
(* state, queues and token together.                                       *)
THEOREM RunsExclude == Spec => []OneRun
BY IdleInvariant, PTL DEF IInv

(* wait_for_idle returns to no one whose run is still under way, whoever   *)
(* notifies `idle`.                                                        *)
THEOREM WaitersSeeSettled == Spec => []WaitSeesSettled
BY IdleInvariant, PTL DEF IInv

-----------------------------------------------------------------------------
(* SseStream.                                                              *)

(* Every set of numbers that holds one holds a least one.                  *)
LEMMA Less == \E R : IsWellFoundedOn(R, Nat) /\ \A x, y \in Nat : <<y, x>> \in R <=> y < x
<1>1. \A x, y \in Nat : <<y, x>> \in OpToRel(<, Nat) <=> y < x
  BY DEF OpToRel
<1> WITNESS OpToRel(<, Nat)
<1>2. IsWellFoundedOn(OpToRel(<, Nat), Nat)
  BY NatLessThanWellFounded
<1> QED BY <1>1, <1>2

LEMMA Least ==
  ASSUME NEW T \in SUBSET Nat, NEW n \in T
  PROVE  \E m \in T : \A k \in T : m <= k
<1>1. PICK R : IsWellFoundedOn(R, Nat) /\ \A x, y \in Nat : <<y, x>> \in R <=> y < x
  BY Less
<1>2. PICK x \in T : \A y \in T : ~(<<y, x>> \in R)
  BY <1>1, WFMin
<1>3. \A y \in T : ~(y < x)
  BY <1>1, <1>2
<1> QED BY <1>2, <1>3

(* The frames that the decoder hands on: up to the first that is no delta. *)
UpTo(last, k, to, frames, numbers) ==
  /\ numbers \in Seq(Nat) /\ Len(numbers) = last - k
  /\ \A i \in 1..(last - k) : numbers[i] = k + i
  /\ \A n \in (k + 1)..(last - 1) : frames[n] = "delta"
  /\ \/ last = to /\ \A n \in (k + 1)..to : frames[n] = "delta"
     \/ last > k /\ frames[last] # "delta"

LEMMA DecodedFrames ==
  ASSUME NEW k \in Nat, NEW to \in Nat, k <= to, NEW frames
  PROVE  \E last \in k..to :
           UpTo(last, k, to, frames, Sse!Decoded(k + 1, to, frames))
<1> DEFINE stop == {n \in (k + 1)..to : frames[n] # "delta"}
           chosen == IF stop = {} THEN to ELSE CHOOSE n \in stop : \A m \in stop : n <= m
<1>1. Sse!Decoded(k + 1, to, frames) = [i \in 1..(chosen + 1 - (k + 1)) |-> k + 1 + i - 1]
  BY DEF Sse!Decoded
<1>2. /\ chosen \in k..to
      /\ \A n \in (k + 1)..(chosen - 1) : frames[n] = "delta"
      /\ \/ chosen = to /\ \A n \in (k + 1)..to : frames[n] = "delta"
         \/ chosen > k /\ frames[chosen] # "delta"
  <2>1. CASE stop = {}
    BY <2>1
  <2>2. CASE stop # {}
    <3>1. PICK n \in stop : TRUE
      BY <2>2
    <3>2. stop \in SUBSET Nat
      OBVIOUS
    <3>3. \E m \in stop : \A l \in stop : m <= l
      BY <3>1, <3>2, Least
    <3>4. chosen \in stop /\ \A m \in stop : chosen <= m
      BY <2>2, <3>3
    <3> HIDE DEF chosen
    <3> QED BY <3>4
  <2> QED BY <2>1, <2>2
<1> HIDE DEF chosen
<1>3. chosen + 1 - (k + 1) = chosen - k /\ \A i \in 1..(chosen - k) : k + 1 + i - 1 = k + i
  BY <1>2
<1>4. /\ Sse!Decoded(k + 1, to, frames) \in [1..(chosen - k) -> Nat]
      /\ \A i \in 1..(chosen - k) : Sse!Decoded(k + 1, to, frames)[i] = k + i
  BY <1>1, <1>2, <1>3
<1>5. /\ Sse!Decoded(k + 1, to, frames) \in Seq(Nat)
      /\ Len(Sse!Decoded(k + 1, to, frames)) = chosen - k
  <2>1. chosen - k \in Nat
    BY <1>2
  <2> QED BY <1>4, <2>1, SeqDef, LenProperties
<1>6. UpTo(chosen, k, to, frames, Sse!Decoded(k + 1, to, frames))
  BY <1>2, <1>4, <1>5 DEF UpTo
<1> QED BY <1>2, <1>6

(* What reached the sink, when that is the first n frames of a response.   *)
Frames(r, n) == [i \in 1..n |-> <<r, i>>]

Tagged(r, numbers) == [i \in 1..Len(numbers) |-> <<r, numbers[i]>>]

LEMMA FramesJoin ==
  ASSUME NEW r, NEW k \in Nat, NEW m \in Nat
  PROVE  /\ Frames(r, k) \o [i \in 1..m |-> <<r, k + i>>] = Frames(r, k + m)
         /\ Len(Frames(r, k)) = k
<1> DEFINE S == {r} \X Nat
           a == Frames(r, k)
           b == [i \in 1..m |-> <<r, k + i>>]
           c == Frames(r, k + m)
<1>1. a \in Seq(S) /\ Len(a) = k /\ \A i \in 1..k : a[i] = <<r, i>>
  <2>1. a \in [1..k -> S]
    BY DEF Frames
  <2> QED BY <2>1, SeqDef, LenProperties DEF Frames
<1>2. b \in Seq(S) /\ Len(b) = m /\ \A i \in 1..m : b[i] = <<r, k + i>>
  <2>1. b \in [1..m -> S]
    OBVIOUS
  <2> QED BY <2>1, SeqDef, LenProperties
<1>3. c \in Seq(S) /\ Len(c) = k + m /\ \A i \in 1..(k + m) : c[i] = <<r, i>>
  <2>1. c \in [1..(k + m) -> S]
    BY DEF Frames
  <2> QED BY <2>1, SeqDef, LenProperties DEF Frames
<1> HIDE DEF a, b, c
<1>4. a \o b \in Seq(S) /\ Len(a \o b) = k + m
      /\ \A i \in 1..(k + m) : (a \o b)[i] = IF i <= k THEN a[i] ELSE b[i - k]
  BY <1>1, <1>2, ConcatProperties
<1>5. \A i \in 1..(k + m) : (a \o b)[i] = <<r, i>>
  <2> TAKE i \in 1..(k + m)
  <2>1. CASE i <= k
    BY <1>1, <1>4, <2>1
  <2>2. CASE ~(i <= k)
    <3>1. i - k \in 1..m /\ k + (i - k) = i
      BY <2>2
    <3>2. (a \o b)[i] = b[i - k]
      BY <1>4, <2>2
    <3>3. b[i - k] = <<r, k + (i - k)>>
      BY <1>2, <3>1
    <3> QED BY <3>1, <3>2, <3>3
  <2> QED BY <2>1, <2>2
<1>6. a \o b = c
  BY <1>3, <1>4, <1>5, SeqEqual
<1> QED BY <1>1, <1>6 DEF a, b, c

LEMMA LastFrame ==
  ASSUME NEW r, NEW n \in Nat \ {0}
  PROVE  Frames(r, n) # <<>> /\ Len(Frames(r, n)) = n /\ Frames(r, n)[Len(Frames(r, n))] = <<r, n>>
<1>1. Len(Frames(r, n)) = n
  BY FramesJoin, 0 \in Nat
<1>2. Frames(r, n)[n] = <<r, n>>
  BY DEF Frames
<1> QED BY <1>1, <1>2

(* What a chunk hands to the sink continues what is there.                 *)
Continues(last, r, k, to, frames, numbers) ==
  /\ numbers = <<>> <=> last = k
  /\ last > k => numbers[Len(numbers)] = last
  /\ Frames(r, k) \o Tagged(r, numbers) = Frames(r, last)
  /\ \A n \in 1..(last - 1) : frames[n] = "delta"
  /\ \/ last = to /\ \A n \in 1..to : frames[n] = "delta"
     \/ last > k /\ frames[last] # "delta"

LEMMA DecodedJoin ==
  ASSUME NEW k \in Nat, NEW to \in Nat, k <= to, NEW frames, NEW r, NEW numbers,
         numbers = Sse!Decoded(k + 1, to, frames),
         \A n \in 1..k : frames[n] = "delta"
  PROVE  \E last \in k..to :
           Continues(last, r, k, to, frames, numbers)
<1>1. PICK last \in k..to :
           UpTo(last, k, to, frames, numbers)
  BY DecodedFrames
<1>2. numbers \in Seq(Nat) /\ Len(numbers) = last - k
  BY <1>1 DEF UpTo
<1>3. numbers = <<>> <=> last = k
  BY <1>2
<1>4. last > k => numbers[Len(numbers)] = last
  <2>1. last > k => last - k \in 1..(last - k) /\ k + (last - k) = last
    OBVIOUS
  <2> QED BY <1>1, <1>2, <2>1 DEF UpTo
<1>5. [i \in 1..Len(numbers) |-> <<r, numbers[i]>>] = [i \in 1..(last - k) |-> <<r, k + i>>]
  <2>1. \A i \in 1..(last - k) : numbers[i] = k + i
    BY <1>1 DEF UpTo
  <2> QED BY <1>2, <2>1
<1>6. Frames(r, k) \o Tagged(r, numbers) = Frames(r, last)
  <2>1. PICK m \in Nat : last - k = m /\ k + m = last
    OBVIOUS
  <2>2. Frames(r, k) \o [i \in 1..m |-> <<r, k + i>>] = Frames(r, k + m)
    BY FramesJoin
  <2> QED BY <1>5, <2>1, <2>2 DEF Tagged
<1>7. \A n \in 1..(last - 1) : frames[n] = "delta"
  BY <1>1 DEF UpTo
<1>8. \/ last = to /\ \A n \in 1..to : frames[n] = "delta"
      \/ last > k /\ frames[last] # "delta"
  BY <1>1 DEF UpTo
<1> QED BY <1>3, <1>4, <1>6, <1>7, <1>8 DEF Continues

SseTypes ==
  /\ wire \in Seq(Sse!Kinds)
  /\ rest \in BOOLEAN /\ seen \in BOOLEAN /\ (rest => wire # <<>>)

(* Nothing is delivered outside of a response, and of a response what has  *)
(* been decoded, deltas only: a terminal frame ends the call.              *)
Unanswered == ssePc # "done" => sseResult = "none"
NothingBetween == ssePc \notin {"read", "done"} => delivered = <<>>
FreshResponse == ssePc = "send" => wire = <<>> /\ ~rest /\ ~seen
ReadSoFar ==
  ssePc = "read" =>
    /\ delivered = Frames(requests, Sse!Open)
    /\ \A n \in 1..Sse!Open : wire[n] = "delta"
    /\ ~seen => delivered = <<>>

SseInv == SseTypes /\ Unanswered /\ NothingBetween /\ FreshResponse /\ ReadSoFar
          /\ Sse!OkIsComplete
SseOk == part = "sse" => SseInv

LEMMA OpenRange ==
  ASSUME SseTypes
  PROVE  Sse!Open \in Nat /\ Sse!Open <= Len(wire) /\ Len(wire) \in Nat
         /\ (~rest => Sse!Open = Len(wire))
<1>1. Len(wire) \in Nat /\ (wire # <<>> => Len(wire) # 0)
  BY DEF SseTypes
<1> QED BY <1>1 DEF SseTypes, Sse!Open

LEMMA NoFrames == \A r : Frames(r, 0) = <<>>
  BY FramesJoin, 0 \in Nat DEF Frames

LEMMA SseInit ==
  ASSUME Sse!Init
  PROVE  SseInv
<1>1. <<>> \in Seq(Sse!Kinds)
  OBVIOUS
<1>2. SseTypes
  BY <1>1 DEF Sse!Init, SseTypes
<1>3. ssePc = "attempt" /\ sseResult = "none" /\ delivered = <<>>
  BY DEF Sse!Init
<1> QED BY <1>2, <1>3 DEF SseInv, Unanswered, NothingBetween, FreshResponse, ReadSoFar,
      Sse!OkIsComplete

(* Retry goes where nothing is delivered.                                  *)
LEMMA RetryStep ==
  ASSUME Sse!Retry, sseResult = "none"
  PROVE  \/ ssePc' = "done" /\ sseResult' = "exhausted"
         \/ ssePc' \in {"backoff", "attempt"} /\ sseResult' = "none"
BY DEF Sse!Retry, Sse!Return, Sse!Continue, Sse!Goto

(* A step that leaves the response for a place where nothing is delivered. *)
LEMMA LeaveStep ==
  ASSUME SseInv, UNCHANGED <<wire, rest, seen, delivered>>,
         \/ ssePc' = "done" /\ sseResult' # "ok"
         \/ ssePc' \in {"backoff", "attempt", "refresh", "errorBody"} /\ sseResult' = "none"
            /\ delivered = <<>>
  PROVE  SseInv'
BY DEF SseInv, SseTypes, Unanswered, NothingBetween, FreshResponse, ReadSoFar,
   Sse!OkIsComplete

(* A step that only moves the token or the select!.                        *)
LEMMA StayStep ==
  ASSUME SseInv, UNCHANGED <<ssePc, wire, rest, seen, delivered, requests, sseResult>>
  PROVE  SseInv'
BY DEF SseInv, SseTypes, Unanswered, NothingBetween, FreshResponse, ReadSoFar,
   Sse!OkIsComplete, Sse!Open

LEMMA ChunkStep ==
  ASSUME SseInv, Sse!Chunk
  PROVE  SseInv'
<1> DEFINE to == Len(wire') - (IF rest' THEN 1 ELSE 0)
           numbers == Sse!Decoded(Sse!Open + 1, to, wire')
<1>1. ssePc = "read" /\ sseResult = "none" /\ UNCHANGED requests
  BY DEF Sse!Chunk, Sse!Answered, SseInv, Unanswered
<1>2. PICK new \in Seq(Sse!Kinds) :
        /\ new # <<>> \/ rest
        /\ wire' = wire \o new
        /\ rest' \in {new # <<>>, FALSE}
  <2>1. \A new : new \in UNION {[1..m -> Sse!Kinds] : m \in 0..2} => new \in Seq(Sse!Kinds)
    <3>1. \A m \in 0..2 : m \in Nat
      OBVIOUS
    <3> QED BY <3>1, SeqDef, Zenon
  <2> QED BY <2>1 DEF Sse!Chunk, Sse!BoundedSeq, Sse!SeqOf
<1>3. Sse!Open \in Nat /\ Sse!Open <= Len(wire) /\ Len(wire) \in Nat
  BY OpenRange DEF SseInv
<1>4. /\ wire' \in Seq(Sse!Kinds) /\ Len(wire') = Len(wire) + Len(new) /\ Len(new) \in Nat
      /\ \A n \in 1..Len(wire) : wire'[n] = wire[n]
  BY <1>2, ConcatProperties DEF SseInv, SseTypes
<1>5. new # <<>> => Len(new) > 0
  BY <1>2
<1>6. rest' \in BOOLEAN /\ (rest' => new # <<>>)
  BY <1>2
<1>7. to \in Nat /\ Sse!Open <= to /\ to <= Len(wire')
  BY <1>3, <1>4, <1>5, <1>6
<1>8. SseTypes'
  <2>1. rest' => wire' # <<>>
    <3>1. rest' => Len(wire') > 0
      BY <1>3, <1>4, <1>5, <1>6
    <3>2. Len(<<>>) = 0
      OBVIOUS
    <3> QED BY <3>1, <3>2
  <2>2. seen' \in BOOLEAN
    BY DEF Sse!Chunk
  <2> QED BY <1>4, <1>6, <2>1, <2>2 DEF SseTypes
<1>9. \A n \in 1..Sse!Open : wire'[n] = "delta"
  BY <1>1, <1>3, <1>4 DEF SseInv, ReadSoFar
<1>10. Sse!Open' = to
  BY DEF Sse!Open
<1>11. seen' = (seen \/ numbers # <<>>)
       /\ LET ending == IF numbers = <<>> THEN "delta" ELSE wire'[numbers[Len(numbers)]] IN
          \/ ending = "bad" /\ ssePc' = "done" /\ sseResult' = "badFrame"
          \/ ending # "bad" /\ ssePc' = "done" /\ sseResult' = "sinkFailed"
          \/ /\ ending = "terminal" /\ ssePc' = "done" /\ sseResult' = "ok"
             /\ delivered' = delivered \o Tagged(requests, numbers)
          \/ /\ ending = "delta" /\ ssePc' = "read" /\ sseResult' = sseResult
             /\ delivered' = delivered \o Tagged(requests, numbers)
  BY DEF Sse!Chunk, Tagged, Sse!Deliver, Sse!Last, Sse!Emit, Sse!Return,
     Sse!Continue, Sse!Goto
<1>12. delivered = Frames(requests, Sse!Open) /\ (~seen => delivered = <<>>) /\ seen \in BOOLEAN
  BY <1>1 DEF SseInv, ReadSoFar, SseTypes
<1>13. PICK last \in Sse!Open..to :
           /\ numbers = <<>> <=> last = Sse!Open
           /\ last > Sse!Open => numbers[Len(numbers)] = last
           /\ Frames(requests, Sse!Open) \o Tagged(requests, numbers)
                = Frames(requests, last)
           /\ \A n \in 1..(last - 1) : wire'[n] = "delta"
           /\ \/ last = to /\ \A n \in 1..to : wire'[n] = "delta"
              \/ last > Sse!Open /\ wire'[last] # "delta"
  <2>1. PICK k \in Nat, t \in Nat, frames \in {wire'}, r \in {requests}, all \in {numbers} :
          /\ k = Sse!Open /\ t = to /\ frames = wire' /\ r = requests /\ all = numbers
          /\ k <= t /\ all = Sse!Decoded(k + 1, t, frames)
          /\ \A n \in 1..k : frames[n] = "delta"
    BY <1>3, <1>7, <1>9
  <2> HIDE DEF numbers, to
  <2>2. PICK last \in k..t : Continues(last, r, k, t, frames, all)
    BY <2>1, DecodedJoin
  <2> QED BY <2>1, <2>2 DEF Continues
<1> HIDE DEF numbers, to
<1>14. \/ ssePc' = "done" /\ sseResult' \in {"badFrame", "sinkFailed"}
       \/ /\ numbers # <<>> /\ wire'[numbers[Len(numbers)]] = "terminal"
          /\ ssePc' = "done" /\ sseResult' = "ok"
          /\ delivered' = Frames(requests, last)
       \/ /\ numbers # <<>> => wire'[numbers[Len(numbers)]] = "delta"
          /\ delivered' = Frames(requests, last)
          /\ ssePc' = "read" /\ sseResult' = "none"
  BY <1>1, <1>11, <1>12, <1>13
<1>15. CASE ssePc' = "done" /\ sseResult' \in {"badFrame", "sinkFailed"}
  BY <1>8, <1>15 DEF SseInv, Unanswered, NothingBetween, FreshResponse, ReadSoFar,
     Sse!OkIsComplete
<1>16. CASE /\ numbers # <<>> /\ wire'[numbers[Len(numbers)]] = "terminal"
            /\ ssePc' = "done" /\ sseResult' = "ok"
            /\ delivered' = Frames(requests, last)
  <2>1. last \in Nat \ {0} /\ wire'[last] = "terminal"
    BY <1>3, <1>7, <1>13, <1>16
  <2>2. /\ delivered' # <<>> /\ delivered'[Len(delivered')] = <<requests, last>>
        /\ Len(delivered') = last
    BY <1>16, <2>1, LastFrame
  <2>3. Sse!OkIsComplete'
    BY <1>1, <1>13, <2>1, <2>2 DEF Sse!OkIsComplete, Sse!Last
  <2> QED BY <1>8, <1>16, <2>3 DEF SseInv, Unanswered, NothingBetween, FreshResponse, ReadSoFar
<1>17. CASE /\ numbers # <<>> => wire'[numbers[Len(numbers)]] = "delta"
            /\ delivered' = Frames(requests, last)
            /\ ssePc' = "read" /\ sseResult' = "none"
  <2>1. last = to /\ \A n \in 1..to : wire'[n] = "delta"
    BY <1>3, <1>13, <1>17
  <2>2. ~seen' => delivered' = <<>>
    <3>1. ~seen' => last = Sse!Open /\ delivered = <<>>
      BY <1>11, <1>12, <1>13
    <3> QED BY <3>1, <1>12, <1>17
  <2>3. ReadSoFar'
    BY <1>1, <1>10, <1>17, <2>1, <2>2 DEF ReadSoFar
  <2> QED BY <1>8, <1>17, <2>3 DEF SseInv, Unanswered, NothingBetween, FreshResponse,
        Sse!OkIsComplete
<1> QED BY <1>14, <1>15, <1>16, <1>17

(* The end of the stream decodes what the buffer holds.                    *)
LEMMA StreamEndsStep ==
  ASSUME SseInv, Sse!StreamEnds
  PROVE  SseInv'
<1> DEFINE to == Len(wire)
           numbers == Sse!Decoded(Sse!Open + 1, to, wire)
<1>1. ssePc = "read" /\ sseResult = "none" /\ UNCHANGED requests
  BY DEF Sse!StreamEnds, Sse!Answered, SseInv, Unanswered
<1>2. wire' = wire /\ rest' = FALSE
  BY DEF Sse!StreamEnds
<1>3. Sse!Open \in Nat /\ Sse!Open <= Len(wire) /\ Len(wire) \in Nat
  BY OpenRange DEF SseInv
<1>8. SseTypes'
  <2>1. seen' \in BOOLEAN
    BY DEF Sse!StreamEnds
  <2> QED BY <1>2, <2>1 DEF SseInv, SseTypes
<1>9. \A n \in 1..Sse!Open : wire[n] = "delta"
  BY <1>1 DEF SseInv, ReadSoFar
<1>11. /\ seen' = (seen \/ numbers # <<>>)
       /\ LET ending == IF numbers = <<>> THEN "delta" ELSE wire[numbers[Len(numbers)]] IN
          \/ ending = "bad" /\ ssePc' = "done" /\ sseResult' = "badFrame"
          \/ ending # "bad" /\ ssePc' = "done" /\ sseResult' = "sinkFailed"
          \/ /\ ending = "terminal" /\ ssePc' = "done" /\ sseResult' = "ok"
             /\ delivered' = delivered \o Tagged(requests, numbers)
          \/ /\ ending = "delta"
             /\ delivered' = delivered \o Tagged(requests, numbers)
             /\ IF seen' THEN ssePc' = "done" /\ sseResult' = "broken" ELSE Sse!Retry
  BY DEF Sse!StreamEnds, Tagged, Sse!Deliver, Sse!Last, Sse!Emit, Sse!Return,
     Sse!Unterminated, Sse!BrokenStream
<1>12. delivered = Frames(requests, Sse!Open) /\ (~seen => delivered = <<>>) /\ seen \in BOOLEAN
  BY <1>1 DEF SseInv, ReadSoFar, SseTypes
<1>13. PICK last \in Sse!Open..to :
           /\ numbers = <<>> <=> last = Sse!Open
           /\ last > Sse!Open => numbers[Len(numbers)] = last
           /\ Frames(requests, Sse!Open) \o Tagged(requests, numbers)
                = Frames(requests, last)
           /\ \A n \in 1..(last - 1) : wire[n] = "delta"
           /\ \/ last = to /\ \A n \in 1..to : wire[n] = "delta"
              \/ last > Sse!Open /\ wire[last] # "delta"
  <2>1. PICK k \in Nat, t \in Nat, frames \in {wire}, r \in {requests}, all \in {numbers} :
          /\ k = Sse!Open /\ t = to /\ frames = wire /\ r = requests /\ all = numbers
          /\ k <= t /\ all = Sse!Decoded(k + 1, t, frames)
          /\ \A n \in 1..k : frames[n] = "delta"
    BY <1>3, <1>9
  <2> HIDE DEF numbers, to
  <2>2. PICK last \in k..t : Continues(last, r, k, t, frames, all)
    BY <2>1, DecodedJoin
  <2> QED BY <2>1, <2>2 DEF Continues
<1> HIDE DEF numbers, to
<1>14. \/ ssePc' = "done" /\ sseResult' \in {"badFrame", "sinkFailed", "broken", "exhausted"}
       \/ /\ numbers # <<>> /\ wire[numbers[Len(numbers)]] = "terminal"
          /\ ssePc' = "done" /\ sseResult' = "ok"
          /\ delivered' = Frames(requests, last)
       \/ /\ ssePc' \in {"backoff", "attempt"} /\ sseResult' = "none"
          /\ delivered' = delivered /\ delivered = <<>>
  <2>1. ~seen' => delivered = <<>> /\ last = Sse!Open
    BY <1>11, <1>12, <1>13
  <2>2. delivered \o Tagged(requests, numbers) = Frames(requests, last)
    BY <1>12, <1>13
  <2>3. ~seen' => delivered \o Tagged(requests, numbers) = delivered
    BY <1>12, <2>1, <2>2
  <2> QED BY <1>1, <1>11, <2>1, <2>2, <2>3, RetryStep
<1>15. CASE ssePc' = "done" /\ sseResult' \in {"badFrame", "sinkFailed", "broken", "exhausted"}
  BY <1>8, <1>15 DEF SseInv, Unanswered, NothingBetween, FreshResponse, ReadSoFar,
     Sse!OkIsComplete
<1>16. CASE /\ numbers # <<>> /\ wire[numbers[Len(numbers)]] = "terminal"
            /\ ssePc' = "done" /\ sseResult' = "ok"
            /\ delivered' = Frames(requests, last)
  <2>1. last \in Nat \ {0} /\ wire[last] = "terminal"
    BY <1>3, <1>13, <1>16
  <2>2. /\ delivered' # <<>> /\ delivered'[Len(delivered')] = <<requests, last>>
        /\ Len(delivered') = last
    BY <1>16, <2>1, LastFrame
  <2>3. Sse!OkIsComplete'
    BY <1>1, <1>2, <1>13, <2>1, <2>2 DEF Sse!OkIsComplete, Sse!Last
  <2> QED BY <1>8, <1>16, <2>3 DEF SseInv, Unanswered, NothingBetween, FreshResponse, ReadSoFar
<1>17. CASE /\ ssePc' \in {"backoff", "attempt"} /\ sseResult' = "none"
            /\ delivered' = delivered /\ delivered = <<>>
  BY <1>8, <1>17 DEF SseInv, Unanswered, NothingBetween, FreshResponse, ReadSoFar,
     Sse!OkIsComplete
<1> QED BY <1>14, <1>15, <1>16, <1>17

(* The steps that decode nothing.                                          *)
LEMMA QuietStep ==
  ASSUME SseInv,
         \/ Sse!SetFlag \/ Sse!NotifyWaiters \/ Sse!CheckFlag \/ Sse!Register
         \/ Sse!Comment \/ Sse!HearCancel \/ Sse!RequestTimesOut
  PROVE  SseInv'
<1>1. CASE Sse!SetFlag \/ Sse!NotifyWaiters \/ Sse!CheckFlag \/ Sse!Register
  BY <1>1, StayStep DEF Sse!SetFlag, Sse!NotifyWaiters, Sse!CheckFlag, Sse!Register, Sse!call,
     Sse!response
<1>2. CASE Sse!Comment
  <2>1. ssePc = "read" /\ UNCHANGED <<ssePc, sseResult>>
    BY <1>2 DEF Sse!Comment, Sse!Answered, Sse!Continue, Sse!Goto
  <2> QED BY <1>2, <2>1, StayStep DEF Sse!Comment, Sse!call, Sse!response
<1>3. CASE Sse!HearCancel \/ Sse!RequestTimesOut
  BY <1>3, LeaveStep DEF Sse!HearCancel, Sse!RequestTimesOut, Sse!Return, Sse!call, Sse!response
<1> QED BY <1>1, <1>2, <1>3

(* The steps that leave a wait for another attempt, or for the end.        *)
LEMMA RetriesStep ==
  ASSUME SseInv,
         \/ Sse!SendFails \/ Sse!BodyEnds \/ Sse!BodyTimesOut \/ Sse!BackoffEnds
         \/ Sse!RefreshAuth \/ Sse!StreamTimesOut \/ Sse!ChunkFails
  PROVE  SseInv'
<1>1. CASE Sse!SendFails
  <2>1. ssePc = "send" /\ sseResult = "none" /\ delivered = <<>>
    BY <1>1 DEF Sse!SendFails, Sse!Answered, SseInv, Unanswered, NothingBetween
  <2> QED BY <1>1, <2>1, RetryStep, LeaveStep DEF Sse!SendFails, Sse!response
<1>2. CASE Sse!BodyEnds \/ Sse!BodyTimesOut
  <2>1. Sse!BodyEnds
    BY <1>2 DEF Sse!BodyTimesOut
  <2>2. ssePc = "errorBody" /\ sseResult = "none" /\ delivered = <<>>
    BY <2>1 DEF Sse!BodyEnds, Sse!Answered, SseInv, Unanswered, NothingBetween
  <2>3. \/ ssePc' = "done" /\ sseResult' # "ok"
        \/ ssePc' \in {"backoff", "attempt", "refresh", "errorBody"} /\ sseResult' = "none"
    BY <2>1, <2>2, RetryStep DEF Sse!BodyEnds, Sse!HttpError, Sse!Return, Sse!Continue, Sse!Goto
  <2> QED BY <2>1, <2>2, <2>3, LeaveStep DEF Sse!BodyEnds, Sse!response
<1>3. CASE Sse!BackoffEnds \/ Sse!RefreshAuth
  <2>1. sseResult = "none" /\ delivered = <<>>
    BY <1>3 DEF Sse!BackoffEnds, Sse!RefreshAuth, Sse!Expired, SseInv, Unanswered, NothingBetween
  <2> QED BY <1>3, <2>1, LeaveStep DEF Sse!BackoffEnds, Sse!RefreshAuth, Sse!Return, Sse!Continue,
        Sse!Goto, Sse!response
<1>4. CASE Sse!StreamTimesOut \/ Sse!ChunkFails
  <2>1. ssePc = "read" /\ sseResult = "none" /\ (~seen => delivered = <<>>)
    BY <1>4 DEF Sse!StreamTimesOut, Sse!ChunkFails, Sse!Expired, Sse!Answered, SseInv, Unanswered,
       ReadSoFar
  <2>2. \/ ssePc' = "done" /\ sseResult' = "broken"
        \/ ~seen /\ Sse!Retry
    BY <1>4 DEF Sse!StreamTimesOut, Sse!ChunkFails, Sse!BrokenStream, Sse!Return
  <2> QED BY <1>4, <2>1, <2>2, RetryStep, LeaveStep DEF Sse!StreamTimesOut, Sse!ChunkFails,
        Sse!response
<1> QED BY <1>1, <1>2, <1>3, <1>4

(* An attempt, its response and the body of an error.                      *)
LEMMA AttemptStep ==
  ASSUME SseInv,
         Sse!BeginAttempt \/ (\E s \in Sse!Statuses : Sse!Respond(s)) \/ Sse!BodyChunk
  PROVE  SseInv'
<1>1. CASE Sse!BeginAttempt
  <2>1. ssePc = "attempt" /\ sseResult = "none" /\ delivered = <<>> /\ delivered' = <<>>
    BY <1>1 DEF Sse!BeginAttempt, SseInv, Unanswered, NothingBetween
  <2>2. CASE Sse!IsCancelled
    BY <1>1, <2>1, <2>2, LeaveStep DEF Sse!BeginAttempt, Sse!Return, Sse!response
  <2>3. CASE ~Sse!IsCancelled
    <3>1. ssePc' = "send" /\ sseResult' = "none" /\ wire' = <<>> /\ rest' = FALSE /\ seen' = FALSE
      BY <1>1, <2>1, <2>3 DEF Sse!BeginAttempt, Sse!Continue, Sse!Goto
    <3>2. SseTypes'
      <4>1. <<>> \in Seq(Sse!Kinds)
        OBVIOUS
      <4> QED BY <3>1, <4>1 DEF SseTypes
    <3> QED BY <2>1, <3>1, <3>2 DEF SseInv, Unanswered, NothingBetween, FreshResponse, ReadSoFar,
          Sse!OkIsComplete
  <2> QED BY <2>2, <2>3
<1>2. ASSUME NEW s \in Sse!Statuses, Sse!Respond(s) PROVE SseInv'
  <2>1. /\ ssePc = "send" /\ sseResult = "none" /\ sseResult' = "none" /\ delivered = <<>>
        /\ wire = <<>> /\ ~rest /\ ~seen /\ ssePc' \in {"read", "errorBody"}
        /\ UNCHANGED <<wire, rest, seen, delivered, requests>>
    BY <1>2 DEF Sse!Respond, Sse!Answered, Sse!Continue, Sse!Goto, Sse!call, SseInv, Unanswered,
       NothingBetween, FreshResponse
  <2>2. Sse!Open' = 0
    BY <2>1 DEF Sse!Open
  <2>3. ReadSoFar'
    BY <2>1, <2>2, NoFrames DEF ReadSoFar
  <2> QED BY <2>1, <2>3 DEF SseInv, SseTypes, Unanswered, NothingBetween, FreshResponse,
        Sse!OkIsComplete
<1>3. CASE Sse!BodyChunk
  <2>1. ssePc = "errorBody" /\ sseResult = "none" /\ delivered = <<>>
    BY <1>3 DEF Sse!BodyChunk, Sse!Answered, SseInv, Unanswered, NothingBetween
  <2>2. \/ ssePc' = "done" /\ sseResult' # "ok"
        \/ ssePc' \in {"backoff", "attempt", "refresh", "errorBody"} /\ sseResult' = "none"
    BY <1>3, <2>1, RetryStep DEF Sse!BodyChunk, Sse!HttpError, Sse!Return, Sse!Continue, Sse!Goto
  <2> QED BY <1>3, <2>1, <2>2, LeaveStep DEF Sse!BodyChunk
<1> QED BY <1>1, <1>2, <1>3

LEMMA SseInductive == MCSpec => []SseOk
<1>1. MCInit => SseOk
  BY SseInit DEF MCInit, SseOk
<1>2. SseOk /\ [MCNext]_mcVars => SseOk'
  <2> SUFFICES ASSUME SseOk, [MCNext]_mcVars, part' = "sse" PROVE SseInv'
    BY DEF SseOk
  <2>1. CASE UNCHANGED mcVars
    BY <2>1, StayStep DEF mcVars, sseVars, SseOk
  <2>2. CASE MCNext
    <3>1. SseInv /\ Sse!Next
      BY <2>2 DEF MCNext, SseOk
    <3> QED BY <3>1, QuietStep, RetriesStep, AttemptStep, ChunkStep, StreamEndsStep
            DEF Sse!Next, Sse!Task, Sse!Server, Sse!Timers
  <2> QED BY <2>1, <2>2
<1> QED BY <1>1, <1>2, PTL DEF MCSpec

(* read_sse_response: whatever the server does, however often the call is  *)
(* attempted and whenever it is cancelled, it answers Ok after a terminal  *)
(* frame only, with every frame of that response before it at the sink.    *)
THEOREM OkMeansComplete == MCSpec => []OkIsComplete
<1>1. SseOk => OkIsComplete
  BY DEF SseOk, SseInv, OkIsComplete
<1> QED BY <1>1, SseInductive, PTL

-----------------------------------------------------------------------------
(* StdioExtension.                                                         *)

(* Lines of the extension's stdout.                                        *)
AnswerKinds == {"value", "empty", "jsonrpc_error", "both", "inline", "wrong_stream"}
Lines == [type : {"response"}, id : Ext!Ids, answer : AnswerKinds]
         \cup [type : {"event"}, event : Int] \cup [type : {"invalid"}]
Standings == Ext!Over \cup {"new", "checked", "inserted", "writing", "waiting"}

ExtTypes ==
  /\ pending \subseteq Ext!Ids
  /\ call \in [Ext!Ids -> Standings]
  /\ reply \in [Ext!Ids -> AnswerKinds \cup {"none", "closed"}]
  /\ stdout \in Seq(Lines)
  /\ extEmitted \in Int /\ fatal \in BOOLEAN
  /\ reader \in {"read", "send", "fail", "last", "over"}

(* fail_pending sets fatal_error first.                                    *)
FatalBeforeFail == reader \in {"fail", "last", "over"} => fatal

(* A request that was not answered is in the map, ...                      *)
UnansweredIsPending ==
  \A i \in Ext!Ids :
    call[i] \in {"inserted", "writing", "waiting"} /\ reply[i] = "none" => i \in pending

(* A model stream alone is alone.                                          *)
NoOther == kind \in ExtensionKinds /\ (kind = "none" => call["other"] = "ok")

ExtInv == ExtTypes /\ NoOther /\ FatalBeforeFail /\ UnansweredIsPending /\ Ext!NoOrphan
ExtOk == part = "extension" => ExtInv

LEMMA RequestStep ==
  ASSUME ExtInv, NEW i \in Ext!Ids, Ext!Request(i)
  PROVE  ExtInv'
<1>1. UNCHANGED <<stdout, extEmitted, reader, fatal, kind>>
  BY DEF Ext!Request, Ext!Check, Ext!Insert, Ext!Recheck, Ext!Write, Ext!Receive, Ext!TimesOut,
     Ext!Aborts, Ext!extVars, Ext!readerVars
<1>2. UNCHANGED reply
  BY DEF Ext!Request, Ext!Check, Ext!Insert, Ext!Recheck, Ext!Write, Ext!Receive, Ext!TimesOut,
     Ext!Aborts
<1>3. ASSUME pending' \subseteq Ext!Ids, call' \in [Ext!Ids -> Standings],
             kind = "none" => call'["other"] = "ok",
             \A k \in Ext!Ids : k # i => call'[k] = call[k] /\ (k \in pending' <=> k \in pending),
             call'[i] \in {"inserted", "writing", "waiting"} /\ reply[i] = "none" => i \in pending',
             call'[i] \in {"writing", "waiting"} /\ reader = "over" => reply[i] # "none"
      PROVE  ExtInv'
  BY <1>1, <1>2, <1>3 DEF ExtInv, ExtTypes, NoOther, FatalBeforeFail,
     UnansweredIsPending, Ext!NoOrphan, Ext!Ids
<1>4. CASE Ext!Check(i)
  BY <1>3, <1>4 DEF Ext!Check, ExtInv, ExtTypes, NoOther, Standings, Ext!Over
<1>5. CASE Ext!Insert(i)
  BY <1>3, <1>5 DEF Ext!Insert, ExtInv, ExtTypes, NoOther, Standings, Ext!Over
<1>6. CASE Ext!Recheck(i)
  <2>1. \/ fatal /\ call' = [call EXCEPT ![i] = "error"] /\ pending' = pending \ {i}
        \/ ~fatal /\ call' = [call EXCEPT ![i] = "writing"] /\ pending' = pending
    BY <1>6 DEF Ext!Recheck, Ext!Fail
  <2>2. call[i] = "inserted"
    BY <1>6 DEF Ext!Recheck
  <2>3. call \in [Ext!Ids -> Standings] /\ pending \subseteq Ext!Ids
    BY DEF ExtInv, ExtTypes
  <2>4. reader = "over" => fatal
    BY DEF ExtInv, FatalBeforeFail
  <2>5. reply[i] = "none" => i \in pending
    BY <2>2 DEF ExtInv, UnansweredIsPending
  <2>6. kind = "none" => call["other"] = "ok"
    BY DEF ExtInv, NoOther
  <2>7. call' \in [Ext!Ids -> Standings] /\ pending' \subseteq Ext!Ids
    BY <2>1, <2>3 DEF Standings, Ext!Over
  <2>8. \A k \in Ext!Ids : k # i => call'[k] = call[k] /\ (k \in pending' <=> k \in pending)
    BY <2>1, <2>3
  <2>9. kind = "none" => call'["other"] = "ok"
    BY <2>1, <2>2, <2>3, <2>6 DEF Ext!Ids
  <2>10. /\ call'[i] \in {"inserted", "writing", "waiting"} /\ reply[i] = "none" => i \in pending'
         /\ call'[i] \in {"writing", "waiting"} /\ reader = "over" => reply[i] # "none"
    BY <2>1, <2>3, <2>4, <2>5
  <2> QED BY <1>3, <2>7, <2>8, <2>9, <2>10
<1>7. CASE Ext!Write(i)
  <2>1. \/ call' = [call EXCEPT ![i] = "waiting"] /\ pending' = pending
        \/ call' = [call EXCEPT ![i] = "error"] /\ pending' = pending \ {i}
    BY <1>7 DEF Ext!Write, Ext!Fail
  <2>2. call[i] = "writing"
    BY <1>7 DEF Ext!Write
  <2>3. call \in [Ext!Ids -> Standings] /\ pending \subseteq Ext!Ids
    BY DEF ExtInv, ExtTypes
  <2>4. reader = "over" => reply[i] # "none"
    BY <2>2 DEF ExtInv, Ext!NoOrphan
  <2>5. reply[i] = "none" => i \in pending
    BY <2>2 DEF ExtInv, UnansweredIsPending
  <2>6. kind = "none" => call["other"] = "ok"
    BY DEF ExtInv, NoOther
  <2>7. call' \in [Ext!Ids -> Standings] /\ pending' \subseteq Ext!Ids
    BY <2>1, <2>3 DEF Standings, Ext!Over
  <2>8. \A k \in Ext!Ids : k # i => call'[k] = call[k] /\ (k \in pending' <=> k \in pending)
    BY <2>1, <2>3
  <2>9. kind = "none" => call'["other"] = "ok"
    BY <2>1, <2>2, <2>3, <2>6 DEF Ext!Ids
  <2>10. /\ call'[i] \in {"inserted", "writing", "waiting"} /\ reply[i] = "none" => i \in pending'
         /\ call'[i] \in {"writing", "waiting"} /\ reader = "over" => reply[i] # "none"
    BY <2>1, <2>3, <2>4, <2>5
  <2> QED BY <1>3, <2>7, <2>8, <2>9, <2>10
<1>8. CASE Ext!Receive(i)
  <2>1. call' = [call EXCEPT ![i] =
                    IF reply[i] = "closed" THEN "error" ELSE Ext!Decoded(i, reply[i])]
        /\ pending' = pending /\ reply[i] # "none"
    BY <1>8 DEF Ext!Receive
  <2>2. Ext!Decoded(i, reply[i]) \in {"ok", "error"}
    <3>1. call[i] = "waiting" /\ ~(kind = "none" /\ i = "other")
      BY <1>8 DEF Ext!Receive, ExtInv, NoOther
    <3> QED BY <3>1, ExtAssumption DEF Ext!Decoded, Ext!Content, Ext!HookResult, Ext!AllOptional,
            Ext!KindsAssumption, ExtInv, NoOther, Ext!Ids
  <2>3. kind = "none" => i # "other"
    BY <1>8 DEF Ext!Receive, ExtInv, NoOther
  <2> QED BY <1>3, <2>1, <2>2, <2>3 DEF ExtInv, ExtTypes, NoOther, Standings, Ext!Over
<1>9. CASE Ext!TimesOut(i)
  BY <1>3, <1>9 DEF Ext!TimesOut, Ext!Fail, ExtInv, ExtTypes, NoOther, Standings, Ext!Over
<1>10. CASE Ext!Aborts(i)
  BY <1>3, <1>10 DEF Ext!Aborts, ExtInv, ExtTypes, NoOther, Standings, Ext!Over
<1> QED BY <1>4, <1>5, <1>6, <1>7, <1>8, <1>9, <1>10 DEF Ext!Request

(* The reading task: a response, ...                                       *)
LEMMA ReadResponseStep ==
  ASSUME ExtInv, Ext!ReadResponse
  PROVE  ExtInv'
<1>1. stdout # <<>> /\ Head(stdout) \in Lines /\ Tail(stdout) \in Seq(Lines)
  BY HeadTailProperties DEF Ext!ReadResponse, ExtInv, ExtTypes
<1> DEFINE from == Head(stdout).id
<1>2. from \in Ext!Ids /\ Head(stdout).answer \in AnswerKinds
  BY <1>1 DEF Ext!ReadResponse, Lines
<1>3. /\ reply' = [reply EXCEPT ![from] = IF from \in pending THEN Head(stdout).answer ELSE @]
      /\ pending' = pending \ {from} /\ stdout' = Tail(stdout)
      /\ UNCHANGED <<fatal, call, kind, reader, extEmitted>> /\ reader = "read"
  BY DEF Ext!ReadResponse, Ext!extVars
<1> HIDE DEF from
<1>4. ExtTypes'
  BY <1>1, <1>2, <1>3 DEF ExtInv, ExtTypes
<1>5. UnansweredIsPending'
  BY <1>2, <1>3 DEF ExtInv, ExtTypes, UnansweredIsPending, AnswerKinds
<1> QED BY <1>3, <1>4, <1>5 DEF ExtInv, NoOther, FatalBeforeFail, Ext!NoOrphan

(* ... an event, a line that is no JSON, the end.                          *)
LEMMA ReaderStep ==
  ASSUME ExtInv, Ext!ReadEvent \/ Ext!SendEvent \/ Ext!ReadInvalid \/ Ext!FailPending
  PROVE  ExtInv'
<1>1. CASE Ext!ReadEvent \/ Ext!SendEvent
  <2>1. /\ UNCHANGED <<fatal, pending, reply, call, kind, extEmitted>>
        /\ stdout' = stdout \/ (stdout # <<>> /\ stdout' = Tail(stdout))
        /\ reader' \in {"read", "send"} /\ reader # "over"
    <3>1. CASE Ext!ReadEvent
      <4>1. UNCHANGED <<fatal, pending, reply, call, kind, extEmitted>>
        BY <3>1 DEF Ext!ReadEvent, Ext!requestVars, Ext!extVars
      <4>2. /\ reader = "read" /\ reader' \in {"read", "send"}
            /\ stdout # <<>> /\ stdout' = Tail(stdout)
        BY <3>1 DEF Ext!ReadEvent
      <4> QED BY <4>1, <4>2
    <3>2. CASE Ext!SendEvent
      <4>1. UNCHANGED <<fatal, pending, reply, call, kind, extEmitted>>
        BY <3>2 DEF Ext!SendEvent, Ext!requestVars, Ext!extVars
      <4>2. reader = "send" /\ reader' = "read" /\ stdout' = stdout
        BY <3>2 DEF Ext!SendEvent
      <4> QED BY <4>1, <4>2
    <3> QED BY <1>1, <3>1, <3>2
  <2>2. stdout' \in Seq(Lines)
    BY <2>1, HeadTailProperties DEF ExtInv, ExtTypes
  <2> QED BY <2>1, <2>2
      DEF ExtInv, ExtTypes, NoOther, FatalBeforeFail, UnansweredIsPending, Ext!NoOrphan
<1>2. CASE Ext!ReadInvalid
  <2>1. /\ UNCHANGED <<pending, reply, call, kind, extEmitted>> /\ fatal' = TRUE
        /\ stdout' = stdout \/ (stdout # <<>> /\ stdout' = Tail(stdout))
        /\ reader' \in {"fail", "last"}
    BY <1>2 DEF Ext!ReadInvalid, Ext!requestVars, Ext!extVars
  <2>2. stdout' \in Seq(Lines)
    BY <2>1, HeadTailProperties DEF ExtInv, ExtTypes
  <2> QED BY <2>1, <2>2
      DEF ExtInv, ExtTypes, NoOther, FatalBeforeFail, UnansweredIsPending, Ext!NoOrphan
<1>3. CASE Ext!FailPending
  <2>1. /\ UNCHANGED <<fatal, call, kind, stdout, extEmitted>>
        /\ reply' = [i \in Ext!Ids |-> IF i \in pending THEN "closed" ELSE reply[i]]
        /\ pending' = {} /\ reader' \in {"read", "over"} /\ reader \in {"fail", "last"}
    BY <1>3 DEF Ext!FailPending, Ext!extVars
  <2>2. ExtTypes'
    BY <2>1 DEF ExtInv, ExtTypes
  <2> QED BY <2>1, <2>2 DEF ExtInv, NoOther, FatalBeforeFail, UnansweredIsPending, Ext!NoOrphan
<1> QED BY <1>1, <1>2, <1>3

(* stream_model touches neither the map nor the calls.                     *)
LEMMA StreamStep ==
  ASSUME ExtInv, Ext!Stream \/ Ext!Abort \/ Ext!ExtDies \/ \E i \in Ext!Ids : Ext!ExtReads(i)
  PROVE  ExtInv'
<1>1. UNCHANGED <<fatal, pending, reply, call, kind, stdout, reader, extEmitted>>
  BY DEF Ext!Stream, Ext!Register, Ext!TakeEvent, Ext!TakeResponse, Ext!GiveUp, Ext!Unregister,
     Ext!Abort, Ext!ExtDies, Ext!ExtReads, Ext!requestVars, Ext!readerVars, Ext!extVars
<1> QED BY <1>1
    DEF ExtInv, ExtTypes, NoOther, FatalBeforeFail, UnansweredIsPending, Ext!NoOrphan

(* A line that the extension writes.                                       *)
LEMMA WritesStep ==
  ASSUME ExtInv, NEW line \in Lines, Ext!Writes(line), extEmitted' \in Int
  PROVE  ExtInv'
<1>1. UNCHANGED <<fatal, pending, reply, call, kind, reader>> /\ stdout' = Append(stdout, line)
  BY DEF Ext!Writes, Ext!requestVars
<1>2. stdout' \in Seq(Lines)
  BY <1>1, AppendProperties DEF ExtInv, ExtTypes
<1> QED BY <1>1, <1>2
    DEF ExtInv, ExtTypes, NoOther, FatalBeforeFail, UnansweredIsPending, Ext!NoOrphan

LEMMA ExtensionStep ==
  ASSUME ExtInv, \/ Ext!ExtStreams \/ Ext!ExtFinishes \/ Ext!ExtBabbles
                 \/ \E i \in Ext!Ids : Ext!ExtAnswers(i)
  PROVE  ExtInv'
<1>1. CASE Ext!ExtStreams
  <2>1. /\ extEmitted' = extEmitted + 1
        /\ \E e \in {extEmitted'} \cup (IF kind = "none" THEN {Ext!Malformed} ELSE {}) :
             Ext!Writes([type |-> "event", event |-> e])
    BY <1>1 DEF Ext!ExtStreams
  <2>2. extEmitted' \in Int
    BY <2>1 DEF ExtInv, ExtTypes
  <2>3. PICK e \in Int : Ext!Writes([type |-> "event", event |-> e])
    BY <2>1, <2>2 DEF Ext!Malformed
  <2>4. [type |-> "event", event |-> e] \in Lines
    BY DEF Lines
  <2> QED BY <2>2, <2>3, <2>4, WritesStep
<1>2. CASE Ext!ExtFinishes
  <2>1. extEmitted' \in Int /\ Ext!Writes([type |-> "event", event |-> Ext!Finished])
    BY <1>2 DEF Ext!ExtFinishes, ExtInv, ExtTypes
  <2>2. [type |-> "event", event |-> Ext!Finished] \in Lines
    BY DEF Lines, Ext!Finished
  <2> QED BY <2>1, <2>2, WritesStep
<1>3. CASE Ext!ExtBabbles
  <2>1. extEmitted' \in Int /\ Ext!Writes([type |-> "invalid"])
    BY <1>3 DEF Ext!ExtBabbles, ExtInv, ExtTypes
  <2>2. [type |-> "invalid"] \in Lines
    BY DEF Lines
  <2> QED BY <2>1, <2>2, WritesStep
<1>4. ASSUME NEW i \in Ext!Ids, Ext!ExtAnswers(i) PROVE ExtInv'
  <2>1. extEmitted' \in Int
    BY <1>4 DEF Ext!ExtAnswers, ExtInv, ExtTypes
  <2>2. PICK a \in Ext!Answers(i) : Ext!Writes([type |-> "response", id |-> i, answer |-> a])
    BY <1>4 DEF Ext!ExtAnswers
  <2>3. [type |-> "response", id |-> i, answer |-> a] \in Lines
    BY DEF Lines, Ext!Answers, AnswerKinds
  <2> QED BY <2>1, <2>2, <2>3, WritesStep
<1> QED BY <1>1, <1>2, <1>3, <1>4

LEMMA ExtInductive == MCSpec => []ExtOk
<1>1. MCInit => ExtOk
  <2> SUFFICES ASSUME part = "extension", Ext!Init PROVE ExtInv
    BY DEF MCInit, ExtOk
  <2>1. /\ pending = {} /\ stdout = <<>> /\ extEmitted = 0 /\ reader = "read" /\ fatal = FALSE
        /\ kind \in ExtensionKinds
    BY DEF Ext!Init
  <2>2. call \in [Ext!Ids -> Standings] /\ (kind = "none" => call["other"] = "ok")
        /\ \A i \in Ext!Ids : call[i] \in {"ok", "new"}
    BY DEF Ext!Init, Standings, Ext!Over, Ext!Ids
  <2>3. reply \in [Ext!Ids -> AnswerKinds \cup {"none", "closed"}]
    BY DEF Ext!Init
  <2>4. stdout \in Seq(Lines)
    BY <2>1, EmptySeq
  <2>5. UnansweredIsPending
    BY <2>2 DEF UnansweredIsPending
  <2>6. ExtTypes
    <3>1. pending \subseteq Ext!Ids /\ fatal \in BOOLEAN
      BY <2>1
    <3>2. extEmitted \in Int /\ reader \in {"read", "send", "fail", "last", "over"}
      BY <2>1
    <3> QED BY <2>2, <2>3, <2>4, <3>1, <3>2 DEF ExtTypes
  <2> QED BY <2>1, <2>2, <2>5, <2>6 DEF ExtInv, NoOther, FatalBeforeFail, Ext!NoOrphan
<1>2. ExtOk /\ [MCNext]_mcVars => ExtOk'
  <2> SUFFICES ASSUME ExtOk, [MCNext]_mcVars, part' = "extension" PROVE ExtInv'
    BY DEF ExtOk
  <2>1. CASE UNCHANGED mcVars
    BY <2>1 DEF mcVars, extensionVars, ExtOk, ExtInv, ExtTypes, NoOther, FatalBeforeFail,
       UnansweredIsPending, Ext!NoOrphan
  <2>2. CASE MCNext
    <3>1. ExtInv /\ Ext!Next
      BY <2>2 DEF MCNext, ExtOk
    <3>2. CASE Ext!Ended
      BY <3>1, <3>2 DEF Ext!Ended, Ext!vars, ExtInv, ExtTypes, NoOther, FatalBeforeFail,
         UnansweredIsPending, Ext!NoOrphan
    <3> QED BY <3>1, <3>2, RequestStep, ReadResponseStep, ReaderStep, StreamStep, ExtensionStep
            DEF Ext!Next, Ext!Tasks, Ext!Reader
  <2> QED BY <2>1, <2>2
<1> QED BY <1>1, <1>2, PTL DEF MCSpec

(* fail_pending *)
THEOREM NobodyOrphaned == MCSpec => []NoOrphan
<1>1. ExtOk => NoOrphan
  BY DEF ExtOk, ExtInv, NoOrphan
<1> QED BY <1>1, ExtInductive, PTL

-----------------------------------------------------------------------------
(* Compaction.                                                             *)

LEMMA Greatest ==
  ASSUME NEW n \in Nat, NEW T \in SUBSET (0..n), T # {}
  PROVE  Compact!Max0(T) \in T /\ Compact!Min0(T) \in T
<1> DEFINE U == {n - k : k \in T}
<1>1. PICK t \in T : TRUE
  OBVIOUS
<1>2. U \in SUBSET Nat /\ n - t \in U
  BY <1>1
<1>3. PICK u \in U : \A k \in U : u <= k
  BY <1>2, Least
<1>4. PICK m \in T : u = n - m
  BY <1>3
<1>5. \A k \in T : k <= m
  <2> TAKE k \in T
  <2>1. n - k \in U /\ k \in 0..n /\ m \in 0..n
    OBVIOUS
  <2>2. n - m <= n - k
    BY <1>3, <1>4, <2>1
  <2> QED BY <2>1, <2>2
<1>6. Compact!Max0(T) \in T
  BY <1>4, <1>5 DEF Compact!Max0
<1>7. \E k \in T : \A l \in T : k <= l
  <2>1. T \in SUBSET Nat
    OBVIOUS
  <2> QED BY <1>1, <2>1, Least
<1>8. Compact!Min0(T) \in T
  BY <1>1, <1>7 DEF Compact!Min0
<1> QED BY <1>6, <1>8

(* Messages of the agent's state.                                          *)
Said == [id : Nat, role : {"user", "assistant", "tool", "summary", "item"},
         size : ToolSizes \cup {1}, covers : SUBSET Nat, of : Nat]

CompactTypes ==
  /\ messages \in Seq(Said) /\ request \in Seq(Said) /\ said \in Nat

(* A summary comes first, and it is none of the messages it stands for.    *)
SummaryFirst(ms) == \A i \in 1..Len(ms) : ms[i].role = "summary" => i = 1 /\ ms[i].id = 0

CompactInv == CompactTypes /\ SummaryFirst(messages) /\ Compact!NothingForgotten
CompactOk == part = "compaction" => CompactInv

(* x is a message of ms, or one that a summary in ms stands for.           *)
Stands(x, m) == x = m.id \/ x \in m.covers

LEMMA InIds ==
  ASSUME NEW ms \in Seq(Said), NEW x
  PROVE  x \in Compact!Ids(ms) <=> \E i \in 1..Len(ms) : Stands(x, ms[i])
BY DEF Compact!Ids, Stands

LEMMA InPart ==
  ASSUME NEW ms \in Seq(Said), NEW a \in 1..Len(ms), NEW b \in 0..Len(ms),
         NEW i \in a..b, NEW x, Stands(x, ms[i])
  PROVE  x \in Compact!Ids(SubSeq(ms, a, b))
<1>1. /\ SubSeq(ms, a, b) \in Seq(Said) /\ Len(SubSeq(ms, a, b)) = b - a + 1
      /\ \A k \in 1..(b - a + 1) : SubSeq(ms, a, b)[k] = ms[a + k - 1]
  BY SubSeqProperties
<1>2. i - a + 1 \in 1..(b - a + 1) /\ a + (i - a + 1) - 1 = i
  OBVIOUS
<1>3. SubSeq(ms, a, b)[i - a + 1] = ms[i]
  BY <1>1, <1>2
<1> QED BY <1>1, <1>2, <1>3, InIds

LEMMA IdsAreNumbers ==
  ASSUME NEW ms \in Seq(Said)
  PROVE  Compact!Ids(ms) \subseteq Nat
<1>1. \A i \in 1..Len(ms) : ms[i].id \in Nat /\ ms[i].covers \subseteq Nat
  <2> TAKE i \in 1..Len(ms)
  <2>1. ms[i] \in Said
    BY ElementOfSeq
  <2> QED BY <2>1 DEF Said
<1> QED BY <1>1, InIds DEF Stands

(* plan_compaction: the cut, and what is in front of it.                   *)
LEMMA PlanCovers ==
  ASSUME NEW ms \in Seq(Said), SummaryFirst(ms), NEW plan, plan = Compact!Plan(ms),
         plan # Compact!Skip
  PROVE  /\ plan.cut \in 2..Len(ms) /\ plan.covers \subseteq Nat
         /\ \A i \in 1..(plan.cut - 1), x \in Nat \ {0} : Stands(x, ms[i]) => x \in plan.covers
<1> DEFINE cut == Compact!CutIndex(ms)
           B == Compact!Boundary(ms)
           T == Compact!TurnStart(ms, cut)
<1>1. /\ plan = [cut |-> cut, covers |-> Compact!Previous(ms) \cup Compact!History(ms, cut)
                                           \cup Compact!TurnPrefix(ms, cut)]
      /\ ~(cut <= 1) /\ T # 0
  BY DEF Compact!Plan
<1>2. Len(ms) \in Nat /\ DOMAIN ms = 1..Len(ms)
  OBVIOUS
<1>3. B = 1 \/ (B = 2 /\ 1 \in 1..Len(ms) /\ ms[1].role = "summary")
  <2> DEFINE S == {i \in DOMAIN ms : Compact!IsSummary(ms[i])}
  <2>1. /\ S \in SUBSET (0..Len(ms))
        /\ \A i \in S : i = 1 /\ ms[i].role = "summary" /\ i \in 1..Len(ms)
    BY <1>2 DEF Compact!IsSummary, SummaryFirst
  <2>2. CASE S = {}
    BY <2>2 DEF Compact!Boundary, Compact!Max0
  <2>3. CASE S # {}
    <3>1. Compact!Max0(S) \in S
      BY <1>2, <2>1, <2>3, Greatest
    <3> QED BY <2>1, <3>1 DEF Compact!Boundary
  <2> QED BY <2>2, <2>3
<1>4. cut \in B..Len(ms)
  <2> DEFINE C == {i \in B..Len(ms) : Compact!ValidCut(ms[i])}
             late == {i \in C : i >= Compact!Target(ms)}
  <2>1. /\ C # {} => Compact!Min0(C) \in C /\ Compact!Max0(C) \in C
        /\ late # {} => Compact!Min0(late) \in late
    <3>1. C \in SUBSET (0..Len(ms)) /\ late \in SUBSET (0..Len(ms))
      BY <1>3
    <3> HIDE DEF C, late
    <3> QED BY <1>2, <3>1, Greatest
  <2>2. \/ cut = 0
        \/ C # {} /\ cut \in {Compact!Min0(C), Compact!Max0(C)}
        \/ late # {} /\ cut = Compact!Min0(late)
    BY DEF Compact!CutIndex
  <2>3. late \in SUBSET C
    OBVIOUS
  <2>4. cut \in C
    <3>1. ~(cut <= 1)
      BY <1>1
    <3> HIDE DEF cut, late, C
    <3> QED BY <2>1, <2>2, <2>3, <3>1
  <2> QED BY <2>4
<1>8. cut \in 2..Len(ms)
  BY <1>1, <1>2, <1>3, <1>4
<1>5. T \in B..cut
  <2> DEFINE S == {i \in B..cut : ms[i].role = "user"}
  <2>1. S \in SUBSET (0..Len(ms))
    BY <1>3, <1>4
  <2>2. CASE S = {}
    BY <1>1, <2>2 DEF Compact!TurnStart, Compact!Max0
  <2>3. CASE S # {}
    BY <1>2, <2>1, <2>3, Greatest DEF Compact!TurnStart
  <2> QED BY <2>2, <2>3
<1> HIDE DEF cut, B, T
<1>6. ASSUME NEW i \in 1..(cut - 1), NEW x \in Nat \ {0}, Stands(x, ms[i])
      PROVE  x \in Compact!Previous(ms) \cup Compact!History(ms, cut)
                   \cup Compact!TurnPrefix(ms, cut)
  <2>1. CASE i < B
    <3>1. B = 2 /\ i = 1 /\ ms[1].role = "summary" /\ ms[1].id = 0
      BY <1>3, <1>4, <2>1 DEF SummaryFirst
    <3>2. x \in ms[B - 1].covers
      BY <1>6, <3>1 DEF Stands
    <3> QED BY <3>1, <3>2 DEF Compact!Previous, B
  <2>2. CASE i >= B /\ (ms[cut].role = "user" \/ i < T)
    <3> DEFINE end == IF ms[cut].role = "user" THEN cut ELSE T
    <3>1. B \in 1..Len(ms) /\ end - 1 \in 0..Len(ms) /\ i \in B..(end - 1)
      BY <1>2, <1>3, <1>4, <1>5, <2>2
    <3>2. x \in Compact!Ids(SubSeq(ms, B, end - 1))
      BY <1>6, <3>1, InPart
    <3> QED BY <3>2 DEF Compact!History, B, T
  <2>3. CASE i >= B /\ ms[cut].role # "user" /\ i >= T
    <3>1. T \in 1..Len(ms) /\ cut - 1 \in 0..Len(ms) /\ i \in T..(cut - 1)
      BY <1>2, <1>3, <1>4, <1>5, <2>3
    <3>2. x \in Compact!Ids(SubSeq(ms, T, cut - 1))
      BY <1>6, <3>1, InPart
    <3> QED BY <2>3, <3>2 DEF Compact!TurnPrefix, T
  <2> QED BY <1>3, <1>4, <1>5, <2>1, <2>2, <2>3
<1>7. plan.covers \subseteq Nat
  <2>1. Compact!Previous(ms) \subseteq Nat
    <3>1. B = 2 => ms[1] \in Said
      BY <1>3, ElementOfSeq
    <3> QED BY <1>3, <3>1 DEF Compact!Previous, B, Said
  <2>2. \A a \in 1..Len(ms), b \in 0..Len(ms) : Compact!Ids(SubSeq(ms, a, b)) \subseteq Nat
    <3> TAKE a \in 1..Len(ms), b \in 0..Len(ms)
    <3>1. SubSeq(ms, a, b) \in Seq(Said)
      BY SubSeqProperties
    <3> QED BY <3>1, IdsAreNumbers
  <2>3. Compact!History(ms, cut) \subseteq Nat
    <3> DEFINE end == IF ms[cut].role = "user" THEN cut ELSE T
    <3>1. B \in 1..Len(ms) /\ end - 1 \in 0..Len(ms)
      BY <1>2, <1>3, <1>4, <1>5
    <3>2. Compact!History(ms, cut) = Compact!Ids(SubSeq(ms, B, end - 1))
      BY DEF Compact!History, B, T
    <3> QED BY <2>2, <3>1, <3>2
  <2>4. Compact!TurnPrefix(ms, cut) \subseteq Nat
    <3>1. T \in 1..Len(ms) /\ cut - 1 \in 0..Len(ms)
      BY <1>2, <1>3, <1>4, <1>5
    <3>2. \/ Compact!TurnPrefix(ms, cut) = {}
          \/ Compact!TurnPrefix(ms, cut) = Compact!Ids(SubSeq(ms, T, cut - 1))
      BY DEF Compact!TurnPrefix, T
    <3> QED BY <2>2, <3>1, <3>2
  <2> QED BY <1>1, <2>1, <2>3, <2>4
<1> QED BY <1>1, <1>8, <1>6, <1>7

(* compacted_messages: what is put in place of the messages stands for all *)
(* that they stand for.                                                    *)
LEMMA CompactedKeeps ==
  ASSUME CompactTypes, SummaryFirst(messages), NEW plan, plan = Compact!Plan(messages),
         plan # Compact!Skip
  PROVE  /\ Compact!Compacted(plan) \in Seq(Said) /\ SummaryFirst(Compact!Compacted(plan))
         /\ \A x \in Nat \ {0} :
              x \in Compact!Ids(messages) => x \in Compact!Ids(Compact!Compacted(plan))
<1>1. CASE compactor = "replacement"
  <2> DEFINE all == Compact!Ids(messages)
             m == [id |-> 0, role |-> "item", size |-> 1, covers |-> all, of |-> 0]
  <2>1. Compact!Compacted(plan) = <<m>>
    BY <1>1 DEF Compact!Compacted, Compact!Replaced, Compact!Message
  <2>2. m \in Said /\ m.covers = all /\ m.role = "item"
    BY IdsAreNumbers DEF Said, CompactTypes
  <2> HIDE DEF m
  <2>3. <<m>> \in Seq(Said) /\ Len(<<m>>) = 1 /\ <<m>>[1] = m
    BY <2>2
  <2>4. \A x \in all : x \in Compact!Ids(<<m>>)
    <3> TAKE x \in all
    <3>1. PICK one : one = <<m>>
      OBVIOUS
    <3>2. one \in Seq(Said) /\ 1 \in 1..Len(one) /\ Stands(x, one[1])
      BY <2>2, <2>3, <3>1 DEF Stands
    <3>3. x \in Compact!Ids(one)
      BY <3>2, InIds
    <3> QED BY <3>1, <3>3
  <2>5. SummaryFirst(<<m>>)
    BY <2>2, <2>3 DEF SummaryFirst
  <2> QED BY <2>1, <2>3, <2>4, <2>5
<1>2. CASE compactor # "replacement"
  <2> DEFINE m == [id |-> 0, role |-> "summary", size |-> 1, covers |-> plan.covers, of |-> 0]
             rest1 == SubSeq(messages, plan.cut, Len(messages))
             all == <<m>> \o rest1
  <2>1. Compact!Compacted(plan) = all
    BY <1>2 DEF Compact!Compacted, Compact!From, Compact!Message
  <2>2. /\ messages \in Seq(Said) /\ Len(messages) \in Nat
        /\ plan.cut \in 2..Len(messages) /\ plan.covers \subseteq Nat
        /\ \A i \in 1..(plan.cut - 1), x \in Nat \ {0} : Stands(x, messages[i]) => x \in plan.covers
    BY PlanCovers DEF CompactTypes
  <2>3. m \in Said /\ m.covers = plan.covers /\ m.id = 0
    BY <2>2 DEF Said
  <2>4. /\ rest1 \in Seq(Said) /\ Len(rest1) = Len(messages) - plan.cut + 1
        /\ \A k \in 1..(Len(messages) - plan.cut + 1) : rest1[k] = messages[plan.cut + k - 1]
    BY <2>2, SubSeqProperties
  <2> HIDE DEF m, rest1
  <2>5. <<m>> \in Seq(Said) /\ Len(<<m>>) = 1 /\ <<m>>[1] = m
    BY <2>3
  <2>6. /\ all \in Seq(Said) /\ Len(all) = 1 + Len(rest1)
        /\ \A i \in 1..(1 + Len(rest1)) : all[i] = IF i <= 1 THEN <<m>>[i] ELSE rest1[i - 1]
    BY <2>4, <2>5, ConcatProperties
  <2> HIDE DEF all
  <2>7. all[1] = m /\ 1 \in 1..Len(all)
    BY <2>2, <2>4, <2>5, <2>6
  <2>8. \A i \in plan.cut..Len(messages) :
          i - plan.cut + 2 \in 1..Len(all) /\ all[i - plan.cut + 2] = messages[i]
    <3> TAKE i \in plan.cut..Len(messages)
    <3>1. i - plan.cut + 2 \in 2..(1 + Len(rest1)) /\ i - plan.cut + 1 \in 1..Len(rest1)
      BY <2>2, <2>4
    <3>2. all[i - plan.cut + 2] = rest1[(i - plan.cut + 2) - 1]
      BY <2>2, <2>6, <3>1
    <3>3. (i - plan.cut + 2) - 1 = i - plan.cut + 1 /\ plan.cut + (i - plan.cut + 1) - 1 = i
      BY <2>2
    <3> QED BY <2>4, <2>6, <3>1, <3>2, <3>3
  <2>9. ASSUME NEW x \in Nat \ {0}, x \in Compact!Ids(messages)
        PROVE  x \in Compact!Ids(all)
    <3>1. PICK i \in 1..Len(messages) : Stands(x, messages[i])
      BY <2>2, <2>9, InIds
    <3>2. CASE i < plan.cut
      <4>1. x \in plan.covers
        BY <2>2, <3>1, <3>2
      <4> QED BY <2>3, <2>6, <2>7, <4>1, InIds DEF Stands
    <3>3. CASE i >= plan.cut
      <4>1. i \in plan.cut..Len(messages)
        BY <2>2, <3>3
      <4> QED BY <2>6, <2>8, <3>1, <4>1, InIds
    <3> QED BY <2>2, <3>2, <3>3
  <2>10. SummaryFirst(all)
    <3> SUFFICES ASSUME NEW i \in 1..Len(all), all[i].role = "summary"
                 PROVE  i = 1 /\ all[i].id = 0
      BY DEF SummaryFirst
    <3>1. CASE i = 1
      BY <2>3, <2>7, <3>1
    <3>2. CASE i # 1
      <4>1. i - 1 \in 1..Len(rest1) /\ all[i] = rest1[i - 1]
        BY <2>2, <2>4, <2>6, <3>2
      <4>2. rest1[i - 1] = messages[plan.cut + (i - 1) - 1]
        BY <2>4, <4>1
      <4>3. plan.cut + (i - 1) - 1 \in 2..Len(messages)
        <5>1. plan.cut \in 2..Len(messages) /\ Len(messages) \in Nat
              /\ i - 1 \in 1..(Len(messages) - plan.cut + 1)
          BY <2>2, <2>4, <4>1
        <5> HIDE DEF m, rest1, all
        <5> QED BY <5>1
      <4> QED BY <2>2, <4>1, <4>2, <4>3 DEF SummaryFirst
    <3> QED BY <3>1, <3>2
  <2> QED BY <2>1, <2>6, <2>9, <2>10
<1> QED BY <1>1, <1>2

(* A conversation grows by messages that are no summaries.                 *)
LEMMA ConversationGrows ==
  ASSUME CompactInv, NEW new \in Seq(Said), messages' = messages \o new,
         said' \in Nat, \A i \in 1..Len(new) : new[i].role # "summary",
         \A x \in (said + 1)..said' : \E i \in 1..Len(new) : new[i].id = x,
         UNCHANGED request, compactPc' # "model"
  PROVE  CompactInv'
<1>1. messages \in Seq(Said) /\ Len(messages) \in Nat /\ said \in Nat /\ Len(new) \in Nat
  BY DEF CompactInv, CompactTypes
<1>2. /\ messages' \in Seq(Said) /\ Len(messages') = Len(messages) + Len(new)
      /\ \A i \in 1..(Len(messages) + Len(new)) :
           messages'[i] = IF i <= Len(messages) THEN messages[i] ELSE new[i - Len(messages)]
  BY <1>1, ConcatProperties
<1>3. \A i \in 1..Len(messages) : i \in 1..Len(messages') /\ messages'[i] = messages[i]
  BY <1>1, <1>2
<1>4. \A i \in 1..Len(new) :
        Len(messages) + i \in 1..Len(messages') /\ messages'[Len(messages) + i] = new[i]
  <2> TAKE i \in 1..Len(new)
  <2>1. Len(messages) + i \in 1..(Len(messages) + Len(new)) /\ ~(Len(messages) + i <= Len(messages))
        /\ (Len(messages) + i) - Len(messages) = i
    BY <1>1
  <2> QED BY <1>2, <2>1
<1>5. SummaryFirst(messages')
  <2> SUFFICES ASSUME NEW i \in 1..Len(messages'), messages'[i].role = "summary"
               PROVE  i = 1 /\ messages'[i].id = 0
    BY DEF SummaryFirst
  <2>1. CASE i <= Len(messages)
    BY <1>1, <1>3, <2>1 DEF CompactInv, SummaryFirst
  <2>2. CASE ~(i <= Len(messages))
    <3>1. i - Len(messages) \in 1..Len(new) /\ messages'[i] = new[i - Len(messages)]
      BY <1>1, <1>2, <2>2
    <3> QED BY <3>1
  <2> QED BY <2>1, <2>2
<1>6. 1..said' \subseteq Compact!Ids(messages')
  <2> SUFFICES ASSUME NEW x \in 1..said' PROVE x \in Compact!Ids(messages')
    OBVIOUS
  <2>1. CASE x <= said
    <3>1. x \in Compact!Ids(messages)
      BY <1>1, <2>1 DEF CompactInv, Compact!NothingForgotten
    <3>2. PICK i \in 1..Len(messages) : Stands(x, messages[i])
      BY <1>1, <3>1, InIds
    <3> QED BY <1>2, <1>3, <3>2, InIds
  <2>2. CASE ~(x <= said)
    <3>1. PICK i \in 1..Len(new) : new[i].id = x
      BY <1>1, <2>2
    <3>2. Stands(x, messages'[Len(messages) + i])
      BY <1>4, <3>1 DEF Stands
    <3> QED BY <1>2, <1>4, <3>2, InIds
  <2> QED BY <2>1, <2>2
<1> QED BY <1>2, <1>5, <1>6 DEF CompactInv, CompactTypes, Compact!NothingForgotten, Compact!Ids

LEMMA UserSpeaksStep ==
  ASSUME CompactInv, Compact!UserSpeaks
  PROVE  CompactInv'
<1> DEFINE m == [id |-> said + 1, role |-> "user", size |-> 1, covers |-> {}, of |-> 0]
<1>1. messages' = Append(messages, m) /\ said' = said + 1 /\ UNCHANGED request
      /\ compactPc' = "turn"
  BY DEF Compact!UserSpeaks, Compact!Message
<1>2. said \in Nat /\ messages \in Seq(Said)
  BY DEF CompactInv, CompactTypes
<1>3. m \in Said /\ m.role = "user" /\ m.id = said + 1
  BY <1>2 DEF Said
<1> HIDE DEF m
<1>4. <<m>> \in Seq(Said) /\ Len(<<m>>) = 1 /\ <<m>>[1] = m
  BY <1>3
<1>5. messages' = messages \o <<m>>
  BY <1>1, <1>2, <1>3, AppendIsConcat
<1>6. \A x \in (said + 1)..said' : x = said + 1
  BY <1>1, <1>2
<1>7. \A x \in (said + 1)..said' : \E i \in 1..Len(<<m>>) : <<m>>[i].id = x
  BY <1>3, <1>4, <1>6
<1>8. \A i \in 1..Len(<<m>>) : <<m>>[i].role # "summary"
  BY <1>3, <1>4
<1>9. said' \in Nat /\ compactPc' # "model"
  BY <1>1, <1>2
<1>10. PICK new \in Seq(Said) : new = <<m>>
  BY <1>4
<1> QED BY <1>1, <1>5, <1>7, <1>8, <1>9, <1>10, ConversationGrows

LEMMA ModelRepliesStep ==
  ASSUME CompactInv, NEW n \in 0..2, NEW size \in ToolSizes, Compact!ModelReplies(n, size)
  PROVE  CompactInv'
<1> DEFINE m == [id |-> said + 1, role |-> "assistant", size |-> 1, covers |-> {}, of |-> 0]
           r(i) == [id |-> said + 1 + i, role |-> "tool", size |-> size, covers |-> {},
                    of |-> said + 1]
           results == [i \in 1..n |-> r(i)]
           new == <<m>> \o results
<1>1. said \in Nat /\ messages \in Seq(Said) /\ n \in Nat
  BY DEF CompactInv, CompactTypes
<1>2. m \in Said /\ m.role = "assistant" /\ m.id = said + 1
  BY <1>1 DEF Said
<1>3. \A i \in 1..n : r(i) \in Said /\ r(i).role = "tool" /\ r(i).id = said + 1 + i
  BY <1>1 DEF Said
<1>4. results \in Seq(Said) /\ Len(results) = n /\ \A i \in 1..n : results[i] = r(i)
  <2>1. results \in [1..n -> Said] /\ \A i \in 1..n : results[i] = r(i)
    BY <1>3
  <2> HIDE DEF results, r
  <2> QED BY <1>1, <2>1, SeqDef, LenProperties
<1>5. messages' = (messages \o <<m>>) \o results /\ said' = said + 1 + n /\ UNCHANGED request
      /\ compactPc' # "model"
  BY DEF Compact!ModelReplies, Compact!Message
<1> HIDE DEF m, r, results
<1>6. <<m>> \in Seq(Said) /\ Len(<<m>>) = 1 /\ <<m>>[1] = m
  BY <1>2
<1>7. /\ new \in Seq(Said) /\ Len(new) = 1 + n
      /\ \A i \in 1..(1 + n) : new[i] = IF i <= 1 THEN <<m>>[i] ELSE results[i - 1]
  BY <1>4, <1>6, ConcatProperties
<1>8. messages' = messages \o new
  BY <1>1, <1>4, <1>5, <1>6, ConcatAssociative
<1> HIDE DEF new
<1>9. \A i \in 1..Len(new) : new[i].role # "summary" /\ new[i].id = said + i
  <2> TAKE i \in 1..Len(new)
  <2>1. CASE i = 1
    BY <1>1, <1>2, <1>6, <1>7, <2>1
  <2>2. CASE i # 1
    <3>1. i - 1 \in 1..n /\ new[i] = results[i - 1]
      BY <1>1, <1>7, <2>2
    <3>2. said + 1 + (i - 1) = said + i
      BY <1>1
    <3> QED BY <1>3, <1>4, <3>1, <3>2
  <2> QED BY <2>1, <2>2
<1>10. \A x \in (said + 1)..said' : \E i \in 1..Len(new) : new[i].id = x
  <2> TAKE x \in (said + 1)..said'
  <2>1. x - said \in 1..Len(new) /\ said + (x - said) = x
    BY <1>1, <1>5, <1>7
  <2> QED BY <1>9, <2>1
<1>11. said' \in Nat
  BY <1>1, <1>5
<1> QED BY <1>5, <1>7, <1>8, <1>9, <1>10, <1>11, ConversationGrows

LEMMA ContextCompactStep ==
  ASSUME CompactInv, Compact!ContextCompact
  PROVE  CompactInv'
<1>1. PICK plan : plan = Compact!Plan(messages)
  OBVIOUS
<1>2. /\ plan # Compact!Skip /\ request' = Compact!Compacted(plan)
      /\ messages' = IF mode = "persistent" THEN Compact!Compacted(plan) ELSE messages
      /\ said' = said
  BY <1>1 DEF Compact!ContextCompact
<1>3. /\ Compact!Compacted(plan) \in Seq(Said) /\ SummaryFirst(Compact!Compacted(plan))
      /\ \A x \in Nat \ {0} :
           x \in Compact!Ids(messages) => x \in Compact!Ids(Compact!Compacted(plan))
  BY <1>1, <1>2, CompactedKeeps DEF CompactInv
<1>4. \A x \in 1..said : x \in Nat \ {0} /\ x \in Compact!Ids(messages)
  BY DEF CompactInv, CompactTypes, Compact!NothingForgotten
<1>5. 1..said \subseteq Compact!Ids(Compact!Compacted(plan))
  BY <1>3, <1>4
<1>6. 1..said' \subseteq Compact!Ids(messages') /\ 1..said' \subseteq Compact!Ids(request')
  BY <1>2, <1>4, <1>5
<1>7. CompactTypes' /\ SummaryFirst(messages')
  BY <1>2, <1>3 DEF CompactInv, CompactTypes
<1> QED BY <1>6, <1>7 DEF CompactInv, Compact!NothingForgotten, Compact!Ids

LEMMA CompactOtherStep ==
  ASSUME CompactInv, Compact!CompactionFails \/ Compact!SendWhole \/ Compact!Stop
  PROVE  CompactInv'
<1>1. UNCHANGED <<messages, said>> /\ request' \in {request, messages}
  BY DEF Compact!CompactionFails, Compact!SendWhole, Compact!Stop, Compact!vars
<1>2. CompactTypes' /\ SummaryFirst(messages')
  BY <1>1 DEF CompactInv, CompactTypes
<1>3. 1..said' \subseteq Compact!Ids(messages')
  BY <1>1 DEF CompactInv, Compact!NothingForgotten
<1>4. compactPc' = "model" => 1..said' \subseteq Compact!Ids(request')
  <2>1. CASE Compact!SendWhole
    BY <1>1, <2>1 DEF Compact!SendWhole, CompactInv, Compact!NothingForgotten
  <2>2. CASE Compact!CompactionFails \/ Compact!Stop
    BY <2>2 DEF Compact!CompactionFails, Compact!Stop, Compact!vars, CompactInv,
       Compact!NothingForgotten
  <2> QED BY <2>1, <2>2
<1> QED BY <1>2, <1>3, <1>4 DEF CompactInv, Compact!NothingForgotten, Compact!Ids

LEMMA CompactInductive == MCSpec => []CompactOk
<1>1. MCInit => CompactOk
  <2> SUFFICES ASSUME part = "compaction", Compact!Init PROVE CompactInv
    BY DEF MCInit, CompactOk
  <2>1. messages = <<>> /\ request = <<>> /\ compactPc = "idle" /\ said = 0
    BY DEF Compact!Init
  <2>2. messages \in Seq(Said) /\ Len(messages) = 0 /\ request \in Seq(Said)
    BY <2>1, EmptySeq
  <2> QED BY <2>1, <2>2 DEF CompactInv, CompactTypes, SummaryFirst, Compact!NothingForgotten
<1>2. CompactOk /\ [MCNext]_mcVars => CompactOk'
  <2> SUFFICES ASSUME CompactOk, [MCNext]_mcVars, part' = "compaction" PROVE CompactInv'
    BY DEF CompactOk
  <2>1. CASE UNCHANGED mcVars
    <3>1. CompactInv /\ UNCHANGED <<messages, request, compactPc, said>>
      BY <2>1 DEF mcVars, compactionVars, CompactOk
    <3> QED BY <3>1 DEF CompactInv, CompactTypes, SummaryFirst, Compact!NothingForgotten,
          Compact!Ids
  <2>2. CASE MCNext
    <3>1. CompactInv /\ Compact!Next
      BY <2>2 DEF MCNext, CompactOk
    <3> QED BY <3>1, UserSpeaksStep, ModelRepliesStep, ContextCompactStep, CompactOtherStep
            DEF Compact!Next
  <2> QED BY <2>1, <2>2
<1> QED BY <1>1, <1>2, PTL DEF MCSpec

(* plan_compaction: what is dropped was handed to the summarizer, however  *)
(* often the conversation is compacted and whatever the thresholds and the *)
(* sizes of messages are.                                                  *)
THEOREM NothingIsForgotten == MCSpec => []NothingForgotten
<1>1. CompactOk => NothingForgotten
  BY DEF CompactOk, CompactInv, NothingForgotten
<1> QED BY <1>1, CompactInductive, PTL

-----------------------------------------------------------------------------
(* EventStore.                                                             *)

(* What EventStoreProofs proves of the component, of the same component.   *)
LogProofs == INSTANCE EventStoreProofs

LogOk == part = "log" => LogProofs!IInv

LEMMA SameInit == Log!Init => LogProofs!Init
BY DEF Log!Init, LogProofs!Init, Log!None, LogProofs!None

LEMMA SameNext == Log!Next => LogProofs!Next
<1> USE DEF Log!None, LogProofs!None, Log!Event, LogProofs!Event, Log!Load, LogProofs!Load,
        Log!vars, LogProofs!vars
<1>1. Log!Append => LogProofs!Append
  BY DEF Log!Append, LogProofs!Append, Log!Taken, LogProofs!Taken
<1>2. Log!Apply \/ Log!Save => LogProofs!Apply \/ LogProofs!Save
  BY DEF Log!Apply, LogProofs!Apply, Log!Save, LogProofs!Save, Log!StatusOf, LogProofs!StatusOf
<1>3. Log!StartRun \/ Log!Stop => LogProofs!StartRun \/ LogProofs!Stop
  BY DEF Log!StartRun, LogProofs!StartRun, Log!Stop, LogProofs!Stop
<1>4. ASSUME NEW end, Log!RunGoesOn(end) PROVE LogProofs!RunGoesOn(end)
  BY <1>4 DEF Log!RunGoesOn, LogProofs!RunGoesOn
<1>5. Log!ResumeRun => LogProofs!ResumeRun
  BY DEF Log!ResumeRun, LogProofs!ResumeRun, Log!CounterAfter, LogProofs!CounterAfter,
     Log!Reduced, LogProofs!Reduced, Log!Latest, LogProofs!Latest, Log!StatusOf,
     LogProofs!StatusOf
<1>6. Log!Crash => LogProofs!Crash
  BY DEF Log!Crash, LogProofs!Crash, Log!Normalized, LogProofs!Normalized, Log!RunsFrom,
     LogProofs!RunsFrom
<1> QED BY <1>1, <1>2, <1>3, <1>4, <1>5, <1>6 DEF Log!Next, LogProofs!Next

LEMMA SameProperty == LogProofs!PausedCanResume => Log!PausedCanResume
BY DEF LogProofs!PausedCanResume, Log!PausedCanResume, Log!None, LogProofs!None, Log!Reduced,
   LogProofs!Reduced, Log!Load, LogProofs!Load, Log!Latest, LogProofs!Latest, Log!StatusOf,
   LogProofs!StatusOf

LEMMA LogInductive == MCSpec => []LogOk
<1>1. MCInit => LogOk
  BY SameInit, LogProofs!InitInv DEF MCInit, LogOk
<1>2. LogOk /\ [MCNext]_mcVars => LogOk'
  <2> SUFFICES ASSUME LogOk, [MCNext]_mcVars, part' = "log" PROVE LogProofs!IInv'
    BY DEF LogOk
  <2>1. part = "log" /\ LogProofs!IInv
    BY DEF LogOk, MCNext, mcVars
  <2>2. CASE UNCHANGED mcVars
    BY <2>1, <2>2, LogProofs!NextInv DEF mcVars, logVars, LogProofs!vars
  <2>3. CASE MCNext
    BY <2>1, <2>3, SameNext, LogProofs!NextInv DEF MCNext
  <2> QED BY <2>2, <2>3
<1> QED BY <1>1, <1>2, PTL DEF MCSpec

(* A session that is paused can be resumed, however often it was paused,   *)
(* resumed, left for another run and restarted (record_event and the       *)
(* counters taken up after a restart; argued for in EventStoreProofs).     *)
THEOREM PauseSurvives == MCSpec => []PausedCanResume
<1>1. LogOk => PausedCanResume
  BY LogProofs!InvResumes, SameProperty DEF LogOk, PausedCanResume
<1> QED BY <1>1, LogInductive, PTL

-----------------------------------------------------------------------------
(* RequestRendering.                                                       *)

(* What users, models and tools put into a history.                        *)
UserBlocks ==
  {Request!Text} \cup [type : {"media"}, kind : {"image", "file", "audio"},
                       at : {"uri", "inline"} \cup LocalFiles]
ModelBlocks ==
  {Request!Text} \cup [type : {"thinking"}, by : Request!Providers, encrypted : BOOLEAN]
                 \cup [type : {"audio"}, by : Request!Providers, described : BOOLEAN]
Calls == [type : {"call"}, name : ToolNames]
ToolResults == [type : {"result"}, name : ToolNames, media : BOOLEAN]
Payloads == [type : {"payload"}, by : Request!Providers]
Blocks == UserBlocks \cup ModelBlocks \cup Calls \cup ToolResults \cup Payloads
Messages == [role : {"user", "assistant", "tool"}, blocks : {<<b>> : b \in Blocks}]

(* A block that p renders in any history that names its tool, while the    *)
(* files it may refer to are there.                                        *)
Fine(p, role, b) ==
  \/ b \in Payloads /\ p \in ResponsesIds
  \/ role = "user" /\ b = Request!Text
  \/ /\ role = "user" /\ b \in UserBlocks /\ b.type = "media" /\ Request!RendersMedia(p, b)
     /\ Request!Local(b) /\ ~Request!InlinesLocal(p, b.kind) => b.kind = "audio"
  \/ role = "assistant" /\ b \in Calls
  \/ /\ role = "assistant" /\ b \in ModelBlocks
     /\ b.type = "audio" => Request!RenderAudio(p, b) # Request!Error
  \/ role = "tool" /\ b \in ToolResults /\ (b.media => p \in AnthropicIds)

RenderTypes ==
  /\ history \in Seq(Messages) /\ requestProvider \in Request!Providers
  /\ tools \subseteq ToolNames /\ files \subseteq LocalFiles
AllFine ==
  requestAccepted /\ ~changed =>
    \A i \in 1..Len(history) : Fine(requestProvider, history[i].role, history[i].blocks[1])
RenderInv == RenderTypes /\ AllFine
RenderOk == part = "request" => RenderInv

(* A user's or a model's block that is rendered once is fine.              *)
LEMMA RenderedIsFine ==
  ASSUME RenderTypes, NEW h, NEW b, NEW role,
         \/ role = "user" /\ b \in UserBlocks
         \/ role = "assistant" /\ b \in ModelBlocks,
         Request!RenderBlock(requestProvider, h, role, b) # Request!Error
  PROVE  Fine(requestProvider, role, b)
<1>1. b.type # "payload"
  BY DEF UserBlocks, ModelBlocks, Request!Text
<1>2. Request!Materializes(requestProvider, b)
  BY DEF Request!RenderBlock
<1>3. CASE role = "user" /\ b \in UserBlocks
  <2>1. Request!RenderUser(requestProvider, b) # Request!Error
    BY <1>1, <1>2, <1>3 DEF Request!RenderBlock
  <2>2. CASE b = Request!Text
    BY <1>3, <2>2 DEF Fine
  <2>3. CASE b # Request!Text
    <3>1. b.type = "media"
      BY <1>3, <2>3 DEF UserBlocks
    <3>2. Request!RendersMedia(requestProvider, b)
      BY <2>1, <3>1 DEF Request!RenderUser
    <3>3. Request!Local(b) /\ ~Request!InlinesLocal(requestProvider, b.kind) => b.kind = "audio"
      BY <1>2 DEF Request!Materializes
    <3> QED BY <1>3, <3>1, <3>2, <3>3 DEF Fine
  <2> QED BY <2>2, <2>3
<1>4. CASE role = "assistant" /\ b \in ModelBlocks
  <2>1. Request!RenderAssistant(requestProvider, h, b) # Request!Error
    BY <1>1, <1>2, <1>4 DEF Request!RenderBlock
  <2>2. b.type = "audio" => Request!RenderAudio(requestProvider, b) # Request!Error
    BY <2>1 DEF Request!RenderAssistant
  <2> QED BY <1>4, <2>2 DEF Fine
<1> QED BY <1>3, <1>4

(* A block that is fine is rendered.                                       *)
LEMMA FineIsRendered ==
  ASSUME RenderTypes, files = LocalFiles, NEW h, NEW b, NEW role,
         Fine(requestProvider, role, b),
         b \in Calls \cup ToolResults => b.name \in Request!Known(h)
  PROVE  Request!RenderBlock(requestProvider, h, role, b) # Request!Error
<1> USE DEF Request!Error
<1>1. \A x : Request!Replay(x) # Request!Error
  BY DEF Request!Replay
<1>2. CASE b \in Payloads /\ requestProvider \in ResponsesIds
  <2>1. b.type = "payload" /\ ~Request!Local(b)
    BY <1>2 DEF Payloads, Request!Local
  <2> QED BY <1>1, <1>2, <2>1 DEF Request!RenderBlock, Request!RenderPayload, Request!Materializes
<1>3. CASE role = "user" /\ b = Request!Text
  BY <1>3 DEF Request!Text, Request!RenderBlock, Request!Materializes, Request!Local,
     Request!RenderUser
<1>4. CASE /\ role = "user" /\ b \in UserBlocks /\ b.type = "media"
           /\ Request!RendersMedia(requestProvider, b)
           /\ Request!Local(b) /\ ~Request!InlinesLocal(requestProvider, b.kind) => b.kind = "audio"
  <2>1. Request!Materializes(requestProvider, b)
    BY <1>4 DEF Request!Materializes, Request!Local
  <2>2. Request!RenderBlock(requestProvider, h, role, b) = b
    BY <1>4, <2>1 DEF Request!RenderBlock, Request!RenderUser
  <2> QED BY <1>4, <2>2
<1>5. CASE role = "assistant" /\ b \in Calls
  <2>1. b.type = "call" /\ ~Request!Local(b)
    BY <1>5 DEF Calls, Request!Local
  <2>2. Request!RenderBlock(requestProvider, h, role, b) = b
    BY <1>5, <2>1 DEF Request!RenderBlock, Request!RenderAssistant, Request!Materializes
  <2> QED BY <2>1, <2>2
<1>6. CASE /\ role = "assistant" /\ b \in ModelBlocks
           /\ b.type = "audio" => Request!RenderAudio(requestProvider, b) # Request!Error
  <2>1. b.type \in {"text", "thinking", "audio"} /\ ~Request!Local(b)
    BY <1>6 DEF ModelBlocks, Request!Text, Request!Local
  <2>2. Request!RenderBlock(requestProvider, h, role, b)
          = Request!RenderAssistant(requestProvider, h, b)
    BY <1>6, <2>1 DEF Request!RenderBlock, Request!Materializes
  <2>3. CASE b.type = "text"
    BY <2>2, <2>3 DEF Request!RenderAssistant, Request!Text
  <2>4. CASE b.type = "thinking"
    BY <1>1, <2>2, <2>4 DEF Request!RenderAssistant, Request!RenderThinking, Request!Nothing
  <2>5. CASE b.type = "audio"
    BY <1>6, <2>2, <2>5 DEF Request!RenderAssistant
  <2> QED BY <2>1, <2>3, <2>4, <2>5
<1>7. CASE role = "tool" /\ b \in ToolResults /\ (b.media => requestProvider \in AnthropicIds)
  <2>1. b.type = "result" /\ ~Request!Local(b)
    BY <1>7 DEF ToolResults, Request!Local
  <2>2. Request!RenderBlock(requestProvider, h, role, b)
          = Request!RenderResult(requestProvider, h, b)
    BY <1>7, <2>1 DEF Request!RenderBlock, Request!Materializes
  <2>3. Request!RenderResult(requestProvider, h, b) = b
    BY <1>7 DEF Request!RenderResult, Request!ChatResult, Request!ResponsesResult,
       Request!AnthropicResult, RenderTypes, Request!Providers
  <2> QED BY <2>1, <2>2, <2>3
<1> QED BY <1>2, <1>3, <1>4, <1>5, <1>6, <1>7 DEF Fine

LEMMA OneBlock ==
  ASSUME RenderTypes, NEW i \in 1..Len(history)
  PROVE  \E b \in Blocks : history[i].blocks = <<b>>
<1>1. history[i] \in Messages
  BY ElementOfSeq DEF RenderTypes
<1> QED BY <1>1 DEF Messages

(* The names of calls and results in a history are known.                  *)
LEMMA NamesKnown ==
  ASSUME RenderTypes, NEW i \in 1..Len(history), history[i].blocks[1] \in Calls \cup ToolResults
  PROVE  history[i].blocks[1].name \in Request!Known(history)
<1>1. PICK b \in Blocks : history[i].blocks = <<b>>
  BY OneBlock
<1>2. b \in Request!Range(history[i].blocks) /\ b.type \in {"call", "result"}
  BY <1>1 DEF Request!Range, Calls, ToolResults
<1>3. i \in DOMAIN history
  BY DEF RenderTypes
<1>4. b \in UNION {Request!Range(history[k].blocks) : k \in DOMAIN history}
  BY <1>2, <1>3
<1> QED BY <1>1, <1>2, <1>4 DEF Request!Known, Request!NamesIn

LEMMA FineIsAccepted ==
  ASSUME RenderInv
  PROVE  Request!AcceptedStaysAccepted
<1> SUFFICES ASSUME requestAccepted, ~changed, files = LocalFiles
             PROVE  Request!Renders(requestProvider, history)
  BY DEF Request!AcceptedStaysAccepted
<1> SUFFICES ASSUME NEW i \in DOMAIN history, NEW b \in Request!Range(history[i].blocks)
             PROVE  Request!RenderBlock(requestProvider, history, history[i].role, b)
                      # Request!Error
  BY DEF Request!Renders, Request!Rendered
<1>1. i \in 1..Len(history)
  BY DEF RenderInv, RenderTypes
<1>2. b = history[i].blocks[1]
  BY <1>1, OneBlock DEF RenderInv, Request!Range
<1>3. Fine(requestProvider, history[i].role, b)
  BY <1>1, <1>2 DEF RenderInv, AllFine
<1> QED BY <1>1, <1>2, <1>3, NamesKnown, FineIsRendered DEF RenderInv

(* A history that grows by messages of one block each.                     *)
LEMMA GrowsStep ==
  ASSUME RenderInv, NEW m \in Messages, history' = Append(history, m),
         requestAccepted' /\ ~changed =>
           requestAccepted /\ Fine(requestProvider, m.role, m.blocks[1]),
         UNCHANGED <<requestProvider, tools, files, changed>>
  PROVE  RenderInv'
<1>1. /\ history' \in Seq(Messages) /\ Len(history') = Len(history) + 1
      /\ \A i \in 1..Len(history) : history'[i] = history[i]
      /\ history'[Len(history) + 1] = m
  BY AppendProperties DEF RenderInv, RenderTypes
<1>2. Len(history) \in Nat
  BY DEF RenderInv, RenderTypes
<1>3. ASSUME requestAccepted', ~changed', NEW i \in 1..Len(history')
      PROVE  Fine(requestProvider, history'[i].role, history'[i].blocks[1])
  <2>1. CASE i \in 1..Len(history)
    BY <1>1, <1>3, <2>1 DEF RenderInv, AllFine
  <2>2. CASE i = Len(history) + 1
    BY <1>1, <1>3, <2>2
  <2> QED BY <1>1, <1>2, <2>1, <2>2
<1> QED BY <1>1, <1>3 DEF RenderInv, RenderTypes, AllFine

LEMMA AddsStep ==
  ASSUME RenderInv, NEW role, NEW b, Request!Adds(Request!Message(role, <<b>>)),
         \/ role = "user" /\ b \in UserBlocks
         \/ role = "assistant" /\ b \in ModelBlocks
  PROVE  RenderInv'
<1> DEFINE m == Request!Message(role, <<b>>)
<1>1. m \in Messages /\ m.role = role /\ m.blocks = <<b>>
  BY DEF Messages, Blocks, Request!Message
<1>2. history' = Append(history, m) /\ UNCHANGED <<requestProvider, tools, files, changed>>
  BY DEF Request!Adds
<1>3. requestAccepted' => requestAccepted /\ Request!Renders(requestProvider, <<m>>)
  BY DEF Request!Adds
<1>4. ASSUME Request!Renders(requestProvider, <<m>>)
      PROVE  Fine(requestProvider, role, b)
  <2>1. 1 \in DOMAIN <<m>> /\ <<m>>[1] = m /\ b \in Request!Range(m.blocks)
    BY <1>1 DEF Request!Range
  <2>2. Request!RenderBlock(requestProvider, <<m>>, role, b) # Request!Error
    BY <1>1, <1>4, <2>1 DEF Request!Renders, Request!Rendered
  <2> QED BY <2>2, RenderedIsFine DEF RenderInv
<1> HIDE DEF m
<1> QED BY <1>1, <1>2, <1>3, <1>4, GrowsStep

(* A call and its result: two messages that are fine.                      *)
LEMMA ToolRunsStep ==
  ASSUME RenderInv, Request!ToolRuns
  PROVE  RenderInv'
<1>1. PICK n \in tools, media \in BOOLEAN :
        /\ history' = history
              \o <<[role |-> "assistant", blocks |-> <<[type |-> "call", name |-> n]>>],
                   [role |-> "tool",
                    blocks |-> <<[type |-> "result", name |-> n, media |-> media]>>]>>
        /\ requestAccepted' = (requestAccepted /\ (media => requestProvider \in AnthropicIds))
        /\ UNCHANGED <<requestProvider, tools, files, changed>>
  BY DEF Request!ToolRuns, Request!Message, Request!ToolCall, Request!ToolResult
<1> DEFINE c == [type |-> "call", name |-> n]
           d == [type |-> "result", name |-> n, media |-> media]
           p == [role |-> "assistant", blocks |-> <<c>>]
           q == [role |-> "tool", blocks |-> <<d>>]
<1>2. c \in Calls /\ d \in ToolResults /\ d.media = media
  BY DEF Calls, ToolResults, RenderInv, RenderTypes
<1>3. p \in Messages /\ q \in Messages
  BY <1>2 DEF Messages, Blocks
<1>4. /\ p.role = "assistant" /\ p.blocks[1] = c /\ q.role = "tool" /\ q.blocks[1] = d
  OBVIOUS
<1>5. history' = history \o <<p, q>>
  BY <1>1
<1> HIDE DEF c, d, p, q
<1>6. <<p, q>> \in Seq(Messages) /\ Len(<<p, q>>) = 2 /\ <<p, q>>[1] = p /\ <<p, q>>[2] = q
  BY <1>3
<1>7. /\ history' \in Seq(Messages) /\ Len(history') = Len(history) + 2
      /\ \A i \in 1..(Len(history) + 2) :
           history'[i] = IF i <= Len(history) THEN history[i] ELSE <<p, q>>[i - Len(history)]
  BY <1>5, <1>6, ConcatProperties DEF RenderInv, RenderTypes
<1>8. Len(history) \in Nat
  BY DEF RenderInv, RenderTypes
<1>9. ASSUME requestAccepted', ~changed', NEW i \in 1..Len(history')
      PROVE  Fine(requestProvider, history'[i].role, history'[i].blocks[1])
  <2>1. CASE i \in 1..Len(history)
    <3>1. history'[i] = history[i]
      BY <1>7, <1>8, <2>1
    <3> QED BY <1>1, <1>9, <2>1, <3>1 DEF RenderInv, AllFine
  <2>2. CASE i = Len(history) + 1
    <3>1. history'[i] = p
      BY <1>6, <1>7, <1>8, <2>2
    <3> QED BY <1>2, <1>4, <3>1 DEF Fine
  <2>3. CASE i = Len(history) + 2
    <3>1. history'[i] = q
      BY <1>6, <1>7, <1>8, <2>3
    <3> QED BY <1>1, <1>2, <1>4, <1>9, <3>1 DEF Fine
  <2> QED BY <1>7, <1>8, <2>1, <2>2, <2>3
<1> QED BY <1>1, <1>7, <1>9 DEF RenderInv, RenderTypes, AllFine

(* Compaction by the provider: its payload is all that is left.            *)
LEMMA CompactsStep ==
  ASSUME RenderInv, Request!Compacts
  PROVE  RenderInv'
<1> DEFINE b == Request!Payload(requestProvider)
           m == Request!Message("user", <<b>>)
<1>1. b \in Payloads /\ requestProvider \in ResponsesIds
  BY DEF Payloads, Request!Payload, Request!Compacts, Request!Providers
<1>2. m \in Messages /\ m.blocks[1] = b
  BY <1>1 DEF Messages, Blocks, Request!Message
<1>3. history' = <<m>> /\ UNCHANGED <<requestProvider, tools, files, requestAccepted, changed>>
  BY DEF Request!Compacts
<1> HIDE DEF m, b
<1>4. history' \in Seq(Messages) /\ Len(history') = 1 /\ history'[1] = m
  BY <1>2, <1>3
<1>5. Fine(requestProvider, m.role, m.blocks[1])
  BY <1>1, <1>2 DEF Fine
<1>6. \A i \in 1..Len(history') : i = 1
  BY <1>4
<1> QED BY <1>3, <1>4, <1>5, <1>6 DEF RenderInv, RenderTypes, AllFine

LEMMA RequestOtherStep ==
  ASSUME RenderInv, Request!Switches \/ Request!ToolRemoved \/ Request!FileRemoved
  PROVE  RenderInv'
<1>1. history' = history /\ requestAccepted' = requestAccepted
  BY DEF Request!Switches, Request!ToolRemoved, Request!FileRemoved
<1>2. RenderTypes'
  BY <1>1 DEF Request!Switches, Request!ToolRemoved, Request!FileRemoved, RenderInv, RenderTypes
<1>3. AllFine'
  <2>1. CASE Request!Switches
    BY <2>1 DEF Request!Switches, AllFine
  <2>2. CASE Request!ToolRemoved \/ Request!FileRemoved
    BY <1>1, <2>2 DEF Request!ToolRemoved, Request!FileRemoved, RenderInv, AllFine
  <2> QED BY <2>1, <2>2
<1> QED BY <1>2, <1>3 DEF RenderInv

LEMMA RequestNextStep ==
  ASSUME RenderInv, Request!Next
  PROVE  RenderInv'
<1>1. CASE Request!UserSays
  <2>1. PICK b \in Request!UserBlocks : Request!Adds(Request!Message("user", <<b>>))
    BY <1>1 DEF Request!UserSays
  <2>2. b \in UserBlocks
    BY DEF UserBlocks, Request!UserBlocks, Request!Media
  <2> QED BY <2>1, <2>2, AddsStep
<1>2. CASE Request!ModelAnswers
  <2>1. PICK b \in {Request!Text, Request!Thinking(requestProvider, TRUE),
                    Request!Thinking(requestProvider, FALSE),
                    Request!Audio(requestProvider, TRUE), Request!Audio(requestProvider, FALSE)} :
          Request!Adds(Request!Message("assistant", <<b>>))
    BY <1>2 DEF Request!ModelAnswers
  <2>2. \A keeps \in BOOLEAN : Request!Thinking(requestProvider, keeps) \in ModelBlocks
    BY DEF ModelBlocks, Request!Thinking, RenderInv, RenderTypes
  <2>3. \A known \in BOOLEAN : Request!Audio(requestProvider, known) \in ModelBlocks
    BY DEF ModelBlocks, Request!Audio, RenderInv, RenderTypes
  <2>4. b \in ModelBlocks
    BY <2>1, <2>2, <2>3 DEF ModelBlocks
  <2> QED BY <2>1, <2>4, AddsStep
<1> QED BY <1>1, <1>2, ToolRunsStep, CompactsStep, RequestOtherStep DEF Request!Next

LEMMA RenderInductive == MCSpec => []RenderOk
<1>1. MCInit => RenderOk
  <2> SUFFICES ASSUME part = "request", Request!Init PROVE RenderInv
    BY DEF MCInit, RenderOk
  <2>1. history = <<>> /\ requestProvider \in Request!Providers /\ tools = ToolNames
        /\ files = LocalFiles
    BY DEF Request!Init
  <2>2. history \in Seq(Messages) /\ Len(history) = 0
    BY <2>1, EmptySeq
  <2> QED BY <2>1, <2>2 DEF RenderInv, RenderTypes, AllFine
<1>2. RenderOk /\ [MCNext]_mcVars => RenderOk'
  <2> SUFFICES ASSUME RenderOk, [MCNext]_mcVars, part' = "request" PROVE RenderInv'
    BY DEF RenderOk
  <2>1. CASE UNCHANGED mcVars
    BY <2>1 DEF mcVars, requestVars, RenderOk, RenderInv, RenderTypes, AllFine
  <2>2. CASE MCNext
    <3>1. RenderInv /\ Request!Next
      BY <2>2 DEF MCNext, RenderOk
    <3> QED BY <3>1, RequestNextStep
  <2> QED BY <2>1, <2>2
<1> QED BY <1>1, <1>2, PTL DEF MCSpec

(* build_chat_payload, render_responses_messages, build_anthropic_payload: *)
(* every turn renders the whole history again, and what the provider       *)
(* accepted when it was said it accepts in every later turn.               *)
THEOREM AcceptedForGood == MCSpec => []AcceptedStaysAccepted
<1>1. RenderOk => AcceptedStaysAccepted
  BY FineIsAccepted DEF RenderOk, AcceptedStaysAccepted
<1> QED BY <1>1, RenderInductive, PTL

=============================================================================
