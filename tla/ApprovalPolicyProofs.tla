------------------------ MODULE ApprovalPolicyProofs ------------------------
(***************************************************************************)
(* For any policies, scripts, jobs, tools and clients, batches of any size *)
(* and any number of turns and restarts: without allow_all no call runs    *)
(* that is not read-only and that nobody allowed.                          *)
(***************************************************************************)
EXTENDS ApprovalPolicy, TLAPS

Covered(call) == ReadOnly(call) \/ GrantedBefore(call)

Answering ==
  [stage : {"idle", "recorded"}, turn : Nat, index : {0} \cup 1..MaxBatch,
   outcome : {"allow", "deny"}]

(* What the proof needs to know of the shape of the state.                 *)
Shape ==
  /\ turn \in Nat
  /\ \A i \in DOMAIN batch : batch[i] \in Calls
  /\ DOMAIN verdict = DOMAIN batch
  /\ client \in [Clients -> Answering]
  /\ granted \subseteq Calls

(* The cache remembers nothing but what somebody allowed.                  *)
CacheIsGranted ==
  \A key \in cache : key # NoKey /\ \E call \in granted : key = Key(call)

(* A client that is about to resume has answered the approval it names, of *)
(* this turn or one that is over.                                          *)
RecordedIsAnswered ==
  \A c \in Clients : client[c].stage = "recorded" =>
    /\ client[c].turn <= turn
    /\ run = "paused" /\ client[c].turn = turn => <<turn, client[c].index>> \in answered

(* What the hook let through in a batch that waits for answers needs none. *)
WaitingIsCovered ==
  run = "paused" => \A i \in DOMAIN batch : verdict[i] = "allow" => Covered(batch[i])

IInv == Shape /\ CacheIsGranted /\ RecordedIsAnswered /\ WaitingIsCovered /\ RunsAreCovered

-----------------------------------------------------------------------------
(* A script that is classified safe is read-only at every depth            *)
(* (classify_script, classify_words).                                      *)
LEMMA AllSafe ==
  ASSUME NEW classes, OfAll(classes) = "safe"
  PROVE  \A i \in DOMAIN classes : classes[i] \notin {"dangerous", "unknown"}
BY DEF OfAll

LEMMA SafeIsReadOnly ==
  ASSUME NEW call, call.tool = "start", CommandSafety(call.arg) = "safe"
  PROVE  ReadOnly(call)
<1> DEFINE s == call.arg
           classes == [i \in DOMAIN s.commands |-> OfCommand(s.commands[i])]
<1>1. s.shell # "powershell" /\ s.parses /\ OfAll(classes) = "safe"
  BY DEF CommandSafety
<1>2. ASSUME NEW i \in DOMAIN s.commands
      PROVE  \/ s.commands[i].kind = "read"
             \/ /\ s.commands[i].kind = "sh"
                /\ \A j \in DOMAIN s.commands[i].inner : s.commands[i].inner[j] = "read"
  <2> DEFINE c == s.commands[i]
             inner == [j \in DOMAIN c.inner |-> OfWords(c.inner[j])]
  <2>1. OfCommand(c) \notin {"dangerous", "unknown"}
    BY <1>1, <1>2, AllSafe
  <2>2. CASE c.kind = "sh"
    <3>1. OfAll(inner) = "safe"
      BY <2>1, <2>2 DEF OfCommand, OfAll
    <3>2. \A j \in DOMAIN c.inner : OfWords(c.inner[j]) \notin {"dangerous", "unknown"}
      BY <3>1, AllSafe
    <3> QED BY <2>2, <3>2 DEF OfWords
  <2>3. CASE c.kind # "sh"
    BY <2>1, <2>3 DEF OfCommand, OfWords
  <2> QED BY <2>2, <2>3
<1> QED BY <1>1, <1>2 DEF ReadOnly

(* A key is a pair: equal keys name equal things.                          *)
LEMMA SamePairs ==
  ASSUME NEW a, NEW b, NEW c, NEW d, <<a, b>> = <<c, d>>
  PROVE  a = c /\ b = d
OBVIOUS

(* Two calls with one key are one command, or they control one job.        *)
LEMMA KeyNames ==
  ASSUME NEW a \in Calls, NEW b \in Calls, Key(a) = Key(b), Key(a) # NoKey
  PROVE  \/ a.tool = "start" /\ a = b
         \/ a.tool \in {"write", "terminate"} /\ b.tool = a.tool /\ b.arg.job = a.arg.job
<1>1. a.tool \in {"start", "write", "terminate"} /\ b.tool \in {"start", "write", "terminate"}
  BY DEF Key, NoKey
<1>2. CASE a.tool = "start"
  <2>1. Key(a) = <<a.tool, a.arg>>
    BY <1>2 DEF Key
  <2>2. b.tool = "start" /\ a.arg = b.arg
    <3>1. CASE b.tool = "start"
      <4>1. <<a.tool, a.arg>> = <<b.tool, b.arg>>
        BY <2>1, <3>1 DEF Key
      <4> QED BY <3>1, <4>1, SamePairs
    <3>2. CASE b.tool # "start"
      <4>1. <<a.tool, a.arg>> = <<b.tool, b.arg.job>>
        BY <1>1, <2>1, <3>2 DEF Key
      <4>2. a.tool = b.tool
        BY <4>1, SamePairs
      <4> QED BY <1>2, <3>2, <4>2
    <3> QED BY <3>1, <3>2
  <2>3. a = [tool |-> "start", arg |-> a.arg] /\ b = [tool |-> "start", arg |-> b.arg]
    BY <1>2, <2>2 DEF Calls
  <2> QED BY <1>2, <2>2, <2>3
<1>3. CASE a.tool # "start"
  <2>1. Key(a) = <<a.tool, a.arg.job>>
    BY <1>1, <1>3 DEF Key
  <2>2. CASE b.tool = "start"
    <3>1. <<a.tool, a.arg.job>> = <<b.tool, b.arg>>
      BY <2>1, <2>2 DEF Key
    <3>2. a.tool = b.tool
      BY <3>1, SamePairs
    <3> QED BY <1>3, <2>2, <3>2
  <2>3. CASE b.tool # "start"
    <3>1. <<a.tool, a.arg.job>> = <<b.tool, b.arg.job>>
      BY <1>1, <2>1, <2>3 DEF Key
    <3> QED BY <1>1, <1>3, <3>1, SamePairs
  <2> QED BY <2>2, <2>3
<1> QED BY <1>2, <1>3

(* What the hook allows without asking, because it is read-only or because *)
(* the session remembers it, is covered (BuiltInApprovalHook::classify).   *)
LEMMA AllowedIsCovered ==
  ASSUME IInv, NEW call \in Calls, Classify(call) = "allow"
  PROVE  Covered(call)
<1>1. CASE Key(call) # NoKey /\ Key(call) \in cache
  <2>1. PICK x \in granted : Key(call) = Key(x)
    BY <1>1 DEF IInv, CacheIsGranted
  <2>2. x \in Calls
    BY DEF IInv, Shape
  <2> QED BY <1>1, <2>1, <2>2, KeyNames DEF Covered, GrantedBefore
<1>2. CASE ~(Key(call) # NoKey /\ Key(call) \in cache) /\ call.tool = "start"
  <2>1. OfStart(call.arg) = "allow"
    BY <1>2 DEF Classify
  <2>2. CommandSafety(call.arg) = "safe"
    BY <2>1 DEF OfStart
  <2> QED BY <1>2, <2>2, SafeIsReadOnly DEF Covered
<1>3. CASE ~(Key(call) # NoKey /\ Key(call) \in cache) /\ call.tool # "start"
  <2>1. OfTool(call.tool) = "allow"
    BY <1>3 DEF Classify
  <2> QED BY <2>1 DEF OfTool, Covered, ReadOnly
<1> QED BY <1>1, <1>2, <1>3

(* A verdict that lets a call through: the policy does, the hook does, or  *)
(* the reviewer was asked.  A verdict that waits: neither policy decides.  *)
LEMMA AllowedBy ==
  ASSUME NEW call, "allow" \in Verdicts(call)
  PROVE  policy = "allow_all" \/ Classify(call) = "allow" \/ policy = "auto_reviewer"
BY DEF Verdicts, Terminal

LEMMA PendingBy ==
  ASSUME NEW call, "pending" \in Verdicts(call)
  PROVE  policy # "allow_all" /\ policy # "auto_reviewer"
BY DEF Verdicts, Terminal

LEMMA ReviewedWasAsked ==
  ASSUME NEW call, "allow" \in Verdicts(call), policy = "auto_reviewer"
  PROVE  Classify(call) # "deny"
<1>1. Terminal(Classify(call)) => Verdicts(call) = {Classify(call)}
  BY DEF Verdicts
<1> QED BY <1>1 DEF Terminal

LEMMA Classes ==
  ASSUME NEW call
  PROVE  Classify(call) \in {"allow", "deny", "ask"}
BY DEF Classify, OfStart, OfTool

-----------------------------------------------------------------------------
LEMMA InitInv == Init => IInv
<1> SUFFICES ASSUME Init PROVE IInv
  OBVIOUS
<1>1. NotAnswering \in Answering
  BY DEF NotAnswering, Answering
<1> QED BY <1>1 DEF Init, IInv, Shape, CacheIsGranted, RecordedIsAnswered, WaitingIsCovered,
     RunsAreCovered, NotAnswering

(* In a new turn every recorded answer is of one that is over; ...         *)
LEMMA NextTurn ==
  ASSUME Shape, RecordedIsAnswered, turn' = turn + 1, client' = client
  PROVE  RecordedIsAnswered'
<1> SUFFICES ASSUME NEW c \in Clients, client[c].stage = "recorded"
             PROVE  client[c].turn <= turn + 1 /\ client[c].turn # turn + 1
  BY DEF RecordedIsAnswered
<1>1. client[c].turn \in Nat /\ turn \in Nat
  BY DEF Shape, Answering
<1>2. client[c].turn <= turn
  BY DEF RecordedIsAnswered
<1> QED BY <1>1, <1>2

(* ... a run that ends leaves none to resume.                              *)
LEMMA TurnOver ==
  ASSUME IInv, run' = "idle", batch' = <<>>, verdict' = <<>>, answered' = {},
         UNCHANGED <<policy, cache, turn, client, restarts, granted, ran>>
  PROVE  IInv'
<1>1. Shape'
  BY DEF IInv, Shape
<1>2. CacheIsGranted' /\ WaitingIsCovered' /\ RunsAreCovered'
  BY DEF IInv, CacheIsGranted, WaitingIsCovered, RunsAreCovered
<1>3. RecordedIsAnswered'
  BY DEF IInv, RecordedIsAnswered
<1> QED BY <1>1, <1>2, <1>3 DEF IInv

(* A batch goes through the hook.                                          *)
LEMMA AskStep ==
  ASSUME IInv, NEW b \in Batches, Ask(b)
  PROVE  IInv'
<1>1. PICK v \in [DOMAIN b -> {"allow", "deny", "pending"}] :
        /\ \A i \in DOMAIN b : v[i] \in Verdicts(b[i])
        /\ verdict' = v
        /\ LET waits == \E i \in DOMAIN b : v[i] = "pending"
               reviewed == IF policy = "auto_reviewer" THEN {i \in DOMAIN b : Classify(b[i]) = "ask"}
                           ELSE {}
           IN /\ run' = IF waits THEN "paused" ELSE "running"
              /\ ran' = IF waits \/ policy = "allow_all" THEN ran
                        ELSE ran \cup Uncovered(b, {i \in DOMAIN b : v[i] = "allow"}, reviewed)
  BY DEF Ask
<1>2. turn' = turn + 1 /\ batch' = b /\ UNCHANGED <<policy, cache, client, granted, answered>>
  BY DEF Ask
<1>3. \A i \in DOMAIN b : b[i] \in Calls
  BY DEF Batches
<1>4. Shape'
  BY <1>1, <1>2, <1>3 DEF IInv, Shape
<1>5. CacheIsGranted' /\ RecordedIsAnswered'
  BY <1>2, NextTurn DEF IInv, CacheIsGranted
<1>6. \A i \in DOMAIN b : v[i] = "allow" =>
        policy = "allow_all" \/ Covered(b[i]) \/ (policy = "auto_reviewer" /\ Classify(b[i]) = "ask")
  <2> TAKE i \in DOMAIN b
  <2> HAVE v[i] = "allow"
  <2>1. "allow" \in Verdicts(b[i]) /\ b[i] \in Calls
    BY <1>1, <1>3
  <2>2. CASE Classify(b[i]) = "allow"
    BY <2>1, <2>2, AllowedIsCovered
  <2>3. CASE Classify(b[i]) # "allow"
    <3>1. policy = "allow_all" \/ policy = "auto_reviewer"
      BY <2>1, <2>3, AllowedBy
    <3>2. policy = "auto_reviewer" => Classify(b[i]) # "deny"
      BY <2>1, ReviewedWasAsked
    <3> QED BY <2>3, <3>1, <3>2, Classes
  <2> QED BY <2>2, <2>3
<1>7. WaitingIsCovered'
  <2> SUFFICES ASSUME run' = "paused", NEW i \in DOMAIN batch', verdict'[i] = "allow"
               PROVE  Covered(batch[i])'
    BY DEF WaitingIsCovered
  <2>1. PICK k \in DOMAIN b : v[k] = "pending"
    BY <1>1
  <2>2. policy # "allow_all" /\ policy # "auto_reviewer"
    BY <1>1, <2>1, PendingBy
  <2>3. Covered(b[i])
    BY <1>1, <1>2, <1>6, <2>2
  <2> QED BY <1>2, <2>3 DEF Covered, ReadOnly, GrantedBefore
<1>8. RunsAreCovered'
  <2>1. CASE policy = "allow_all" \/ \E i \in DOMAIN b : v[i] = "pending"
    BY <1>1, <2>1 DEF IInv, RunsAreCovered
  <2>2. CASE policy # "allow_all" /\ ~ \E i \in DOMAIN b : v[i] = "pending"
    <3> DEFINE reviewed == IF policy = "auto_reviewer"
                           THEN {i \in DOMAIN b : Classify(b[i]) = "ask"} ELSE {}
               allowed == {i \in DOMAIN b : v[i] = "allow"}
    <3>1. ran' = ran \cup Uncovered(b, allowed, reviewed)
      BY <1>1, <2>2
    <3>2. \A i \in allowed : i \in reviewed \/ Covered(b[i])
      BY <1>6, <2>2
    <3>3. Uncovered(b, allowed, reviewed) = {}
      BY <3>2 DEF Uncovered, Covered
    <3> QED BY <3>1, <3>3 DEF IInv, RunsAreCovered
  <2> QED BY <2>1, <2>2
<1> QED BY <1>4, <1>5, <1>7, <1>8 DEF IInv

(* A client answers: what it allowed is granted before the cache has it.   *)
LEMMA ResolveStep ==
  ASSUME IInv, NEW c \in Clients, NEW i \in 1..MaxBatch, NEW outcome \in {"allow", "deny"},
         Resolve(c, i, outcome)
  PROVE  IInv'
<1> DEFINE answer == [stage |-> "recorded", turn |-> turn, index |-> i, outcome |-> outcome]
<1>1. /\ i \in DOMAIN batch /\ cache' = cache \cup Remembers(batch[i], outcome)
      /\ client' = [client EXCEPT ![c] = answer]
      /\ granted' = IF outcome = "allow" THEN granted \cup {batch[i]} ELSE granted
      /\ answered' = answered \cup {<<turn, i>>}
      /\ UNCHANGED <<run, turn, batch, verdict, ran>>
  BY DEF Resolve, Pending
<1>2. answer \in Answering /\ batch[i] \in Calls
  BY <1>1 DEF IInv, Shape, Answering
<1>3. Shape'
  BY <1>1, <1>2 DEF IInv, Shape
<1>4. CacheIsGranted'
  BY <1>1 DEF IInv, CacheIsGranted, Remembers
<1>5. RecordedIsAnswered'
  BY <1>1 DEF IInv, Shape, RecordedIsAnswered
<1>6. WaitingIsCovered'
  BY <1>1 DEF IInv, WaitingIsCovered, Covered, ReadOnly, GrantedBefore
<1> QED BY <1>1, <1>3, <1>4, <1>5, <1>6 DEF IInv, RunsAreCovered

(* A client resumes: the one call that was pending is the one it answered, *)
(* now or before, and the others were covered all along.                   *)
LEMMA ResumeStep ==
  ASSUME IInv, NEW c \in Clients, Resume(c)
  PROVE  IInv'
<1>1. NotAnswering \in Answering
  BY DEF NotAnswering, Answering
<1>2. /\ client[c].stage = "recorded" /\ client' = [client EXCEPT ![c] = NotAnswering]
      /\ UNCHANGED <<policy, cache, turn, batch, granted, answered>>
  BY DEF Resume
<1>3. CacheIsGranted' /\ RecordedIsAnswered'
  <2>1. CacheIsGranted'
    BY <1>2 DEF IInv, CacheIsGranted
  <2>2. run' = "paused" => run = "paused"
    BY DEF Resume
  <2>3. \A u \in Clients : client'[u] = IF u = c THEN NotAnswering ELSE client[u]
    BY <1>2 DEF IInv, Shape
  <2>4. RecordedIsAnswered'
    BY <1>2, <2>2, <2>3 DEF IInv, RecordedIsAnswered, NotAnswering
  <2> QED BY <2>1, <2>4
<1>4. CASE ~(run = "paused" /\ Resolves(c))
  <2>1. UNCHANGED <<verdict, run, ran>>
    BY <1>4 DEF Resume
  <2>2. Shape'
    BY <1>1, <1>2, <2>1 DEF IInv, Shape
  <2>3. WaitingIsCovered'
    BY <1>2, <2>1 DEF IInv, WaitingIsCovered, Covered, ReadOnly, GrantedBefore
  <2> QED BY <1>3, <2>1, <2>2, <2>3 DEF IInv, RunsAreCovered
<1>5. CASE run = "paused" /\ Resolves(c)
  <2> DEFINE v == [i \in DOMAIN batch |-> IF i \in Pending THEN client[c].outcome ELSE verdict[i]]
             allowed == {i \in DOMAIN batch : v[i] = "allow"}
             passed == {client[c].index} \cap {i \in Pending : <<turn, i>> \in answered}
  <2>1. verdict' = v /\ run' = "running" /\ ran' = ran \cup Uncovered(batch, allowed, passed)
    BY <1>5 DEF Resume
  <2>2. Shape'
    BY <1>1, <1>2, <2>1 DEF IInv, Shape
  <2>3. ASSUME NEW i \in Pending
        PROVE  i \in passed
    <3>1. <<turn, i>> = <<client[c].turn, client[c].index>>
      BY <1>5 DEF Resolves, Approvals
    <3>2. client[c].turn = turn /\ client[c].index = i
      BY <3>1
    <3>3. <<turn, client[c].index>> \in answered
      BY <1>2, <1>5, <3>2 DEF IInv, RecordedIsAnswered
    <3> QED BY <3>2, <3>3
  <2>4. \A i \in allowed : i \in passed \/ Covered(batch[i])
    BY <1>5, <2>3 DEF IInv, WaitingIsCovered
  <2>5. Uncovered(batch, allowed, passed) = {}
    BY <2>4 DEF Uncovered, Covered
  <2> QED BY <1>3, <2>1, <2>2, <2>5 DEF IInv, WaitingIsCovered, RunsAreCovered
<1> QED BY <1>4, <1>5

LEMMA NextInv == IInv /\ [Next]_vars => IInv'
<1> SUFFICES ASSUME IInv, [Next]_vars PROVE IInv'
  OBVIOUS
<1> USE DEF IInv, Shape, CacheIsGranted, RecordedIsAnswered, WaitingIsCovered, RunsAreCovered
<1>1. ASSUME NEW b \in Batches, ReviewFails(b) PROVE IInv'
  <2>1. /\ turn' = turn + 1 /\ batch' = <<>> /\ verdict' = <<>> /\ run = "idle"
        /\ UNCHANGED <<policy, cache, run, client, restarts, granted, answered, ran>>
    BY <1>1 DEF ReviewFails
  <2>2. RecordedIsAnswered'
    BY <2>1, NextTurn
  <2> QED BY <2>1, <2>2
<1>2. CASE TurnEnds
  BY <1>2, TurnOver DEF TurnEnds
<1>3. CASE Abort
  BY <1>3, TurnOver DEF Abort
<1>4. CASE Restart
  <2>1. NotAnswering \in Answering /\ NotAnswering.stage # "recorded"
    BY DEF NotAnswering, Answering
  <2>2. UNCHANGED <<run, turn, batch, verdict, granted, answered, ran>> /\ cache' = {}
        /\ client' = [c \in Clients |-> NotAnswering]
    BY <1>4 DEF Restart
  <2>3. WaitingIsCovered'
    BY <2>2 DEF Covered, ReadOnly, GrantedBefore
  <2> QED BY <2>1, <2>2, <2>3
<1>5. CASE UNCHANGED vars
  BY <1>5 DEF vars, Covered, ReadOnly, GrantedBefore
<1>6. CASE Stop
  BY <1>5, <1>6 DEF Stop
<1> QED BY <1>1, <1>2, <1>3, <1>4, <1>5, <1>6, AskStep, ResolveStep, ResumeStep DEF Next

(* Unless the policy is allow_all, a call that runs is read-only through   *)
(* and through, or it was allowed by a person or the reviewer, or it is a  *)
(* command that somebody allowed word for word earlier in the session, or  *)
(* it controls a job for which somebody allowed the same kind of control   *)
(* (BuiltInApprovalHook, ApprovalCache, approval/resolve).                 *)
THEOREM NothingRunsUncovered == Spec => []RunsAreCovered
<1>1. IInv => RunsAreCovered
  BY DEF IInv
<1> QED BY <1>1, InitInv, NextInv, PTL DEF Spec
=============================================================================
