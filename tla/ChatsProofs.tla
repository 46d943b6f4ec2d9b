----------------------------- MODULE ChatsProofs -----------------------------
(***************************************************************************)
(* The chat bridges and the connection they use, for any values of their   *)
(* constants: the events of a run come before its answer, a button works   *)
(* once, no update of Telegram's is lost and none is handled twice by one  *)
(* process.                                                                *)
(***************************************************************************)
EXTENDS MCChats, SequenceTheorems, FiniteSetTheorems, TLAPS

-----------------------------------------------------------------------------
(* JsonRpcTransport: sequences.                                            *)
Elems(s) == {s[i] : i \in 1..Len(s)}

LEMMA AppendFacts ==
  ASSUME NEW S, NEW s \in Seq(S), NEW x \in S
  PROVE  /\ Append(s, x) \in Seq(S) /\ Len(Append(s, x)) = Len(s) + 1 /\ Len(s) \in Nat
         /\ \A i \in 1..Len(s) : Append(s, x)[i] = s[i]
         /\ Append(s, x)[Len(s) + 1] = x
         /\ Elems(Append(s, x)) = Elems(s) \cup {x}
<1>1. /\ Append(s, x) \in Seq(S) /\ Len(Append(s, x)) = Len(s) + 1 /\ Len(s) \in Nat
      /\ \A i \in 1..Len(s) : Append(s, x)[i] = s[i]
      /\ Append(s, x)[Len(s) + 1] = x
  BY AppendProperties, LenProperties
<1> DEFINE t == Append(s, x)
<1> HIDE DEF t
<1>2. \A i \in 1..Len(t) : i \in 1..Len(s) \/ i = Len(s) + 1
  BY <1>1 DEF t
<1>3. Elems(t) \subseteq Elems(s) \cup {x}
  BY <1>1, <1>2 DEF t, Elems
<1>4. 1..Len(s) \subseteq 1..Len(t) /\ Len(s) + 1 \in 1..Len(t)
  BY <1>1 DEF t
<1>5. Elems(s) \cup {x} \subseteq Elems(t)
  BY <1>1, <1>4 DEF t, Elems
<1> QED BY <1>1, <1>3, <1>5 DEF t

LEMMA TailFacts ==
  ASSUME NEW S, NEW s \in Seq(S), s # <<>>
  PROVE  /\ Tail(s) \in Seq(S) /\ Len(s) \in Nat \ {0} /\ Len(Tail(s)) = Len(s) - 1
         /\ \A i \in 1..Len(s) - 1 : Tail(s)[i] = s[i + 1]
         /\ Head(s) = s[1] /\ Head(s) \in S
         /\ Elems(s) = {Head(s)} \cup Elems(Tail(s))
<1>1. /\ Tail(s) \in Seq(S) /\ Len(s) \in Nat \ {0} /\ Len(Tail(s)) = Len(s) - 1
      /\ \A i \in 1..Len(s) - 1 : Tail(s)[i] = s[i + 1]
      /\ Head(s) = s[1] /\ Head(s) \in S
  BY HeadTailProperties, EmptySeq, LenProperties
<1> DEFINE t == Tail(s)
<1> HIDE DEF t
<1>2. \A i \in 1..Len(s) : i = 1 \/ (i - 1 \in 1..Len(s) - 1 /\ t[i - 1] = s[i])
  <2> TAKE i \in 1..Len(s)
  <2>1. i # 1 => i - 1 \in 1..Len(s) - 1 /\ (i - 1) + 1 = i
    BY <1>1
  <2> QED BY <1>1, <2>1 DEF t
<1>3. Elems(s) \subseteq {Head(s)} \cup Elems(t)
  BY <1>1, <1>2 DEF t, Elems
<1>4. {Head(s)} \cup Elems(t) \subseteq Elems(s)
  <2>1. 1 \in 1..Len(s) /\ \A i \in 1..Len(s) - 1 : i + 1 \in 1..Len(s)
    BY <1>1
  <2> QED BY <1>1, <2>1 DEF t, Elems
<1> QED BY <1>1, <1>3, <1>4 DEF t

LEMMA EmptyElems == \A S : <<>> \in Seq(S) /\ Elems(<<>>) = {} /\ Len(<<>>) = 0
BY DEF Elems

(* No element twice but those of X.                                        *)
Single(s, X) == \A i, j \in 1..Len(s) : s[i] = s[j] /\ s[i] \notin X => i = j

LEMMA SingleAppend ==
  ASSUME NEW S, NEW s \in Seq(S), NEW x \in S, NEW X, Single(s, X),
         x \in X \/ x \notin Elems(s)
  PROVE  Single(Append(s, x), X)
<1>1. \A i \in 1..Len(Append(s, x)) : i \in 1..Len(s) \/ i = Len(s) + 1
  BY AppendFacts
<1>2. /\ \A i \in 1..Len(s) : Append(s, x)[i] = s[i] /\ (s[i] # x \/ x \in X)
      /\ Append(s, x)[Len(s) + 1] = x
  BY AppendFacts DEF Elems
<1> QED BY <1>1, <1>2 DEF Single

LEMMA SingleTail ==
  ASSUME NEW S, NEW s \in Seq(S), s # <<>>, NEW X, Single(s, X)
  PROVE  Single(Tail(s), X) /\ (Head(s) \in X \/ Head(s) \notin Elems(Tail(s)))
<1>1. /\ Len(s) \in Nat \ {0} /\ Len(Tail(s)) = Len(s) - 1
      /\ \A i \in 1..Len(s) - 1 : Tail(s)[i] = s[i + 1]
      /\ Head(s) = s[1]
  BY TailFacts
<1>2. \A i \in 1..Len(Tail(s)) : i + 1 \in 1..Len(s) /\ Tail(s)[i] = s[i + 1] /\ i + 1 # 1
  BY <1>1
<1>3. Head(s) \in X \/ Head(s) \notin Elems(Tail(s))
  <2>1. 1 \in 1..Len(s)
    BY <1>1
  <2> QED BY <1>1, <1>2, <2>1 DEF Elems, Single
<1>4. \A i, j \in 1..Len(Tail(s)) : i + 1 = j + 1 => i = j
  BY <1>1
<1> QED BY <1>2, <1>3, <1>4 DEF Single

(* One listener less.                                                      *)
LEMMA Without ==
  ASSUME NEW S, NEW s \in Seq(S), NEW i \in 1..Len(s), NEW X, Single(s, X)
  PROVE  Transport!RemoveAt(s, i) \in Seq(S) /\ Single(Transport!RemoveAt(s, i), X)
<1> DEFINE a == SubSeq(s, 1, i - 1)
           b == SubSeq(s, i + 1, Len(s))
           t == a \o b
<1>1. Len(s) \in Nat /\ i \in 1..Len(s) /\ i \in Int
  BY LenProperties
<1>2. /\ a \in Seq(S) /\ Len(a) = i - 1 /\ \A k \in 1..i - 1 : a[k] = s[k]
  <2>1. 1 \in 1..Len(s) + 1 /\ i - 1 \in 0..Len(s)
    BY <1>1
  <2>2. a \in Seq(S) /\ (Len(a) = IF 1 <= i - 1 THEN (i - 1) - 1 + 1 ELSE 0)
        /\ \A k \in 1..(i - 1) - 1 + 1 : a[k] = s[1 + k - 1]
    BY <2>1, SubSeqProperties
  <2> HIDE DEF a
  <2> QED BY <1>1, <2>2
<1>3. /\ b \in Seq(S) /\ Len(b) = Len(s) - i /\ \A k \in 1..Len(s) - i : b[k] = s[i + k]
  <2>1. i + 1 \in 1..Len(s) + 1 /\ Len(s) \in 0..Len(s)
    BY <1>1
  <2>2. b \in Seq(S) /\ (Len(b) = IF i + 1 <= Len(s) THEN Len(s) - (i + 1) + 1 ELSE 0)
        /\ \A k \in 1..Len(s) - (i + 1) + 1 : b[k] = s[(i + 1) + k - 1]
    BY <2>1, SubSeqProperties
  <2> HIDE DEF b
  <2> QED BY <1>1, <2>2
<1> HIDE DEF a, b
<1>4. /\ t \in Seq(S) /\ Len(t) = Len(s) - 1
      /\ \A k \in 1..Len(t) : t[k] = IF k <= Len(a) THEN a[k] ELSE b[k - Len(a)]
  <2>1. /\ t \in Seq(S) /\ Len(t) = Len(a) + Len(b)
        /\ \A k \in 1..Len(a) + Len(b) : t[k] = IF k <= Len(a) THEN a[k] ELSE b[k - Len(a)]
    BY <1>2, <1>3, ConcatProperties
  <2> HIDE DEF t
  <2> QED BY <1>1, <1>2, <1>3, <2>1
<1> HIDE DEF t
<1>5. \A k \in 1..Len(t) : (IF k < i THEN k ELSE k + 1) \in 1..Len(s)
                           /\ t[k] = s[IF k < i THEN k ELSE k + 1]
  BY <1>1, <1>2, <1>3, <1>4
<1>6. Single(t, X)
  <2> SUFFICES ASSUME NEW j \in 1..Len(t), NEW k \in 1..Len(t), t[j] = t[k], t[j] \notin X
               PROVE  j = k
    BY DEF Single
  <2>1. (IF j < i THEN j ELSE j + 1) = (IF k < i THEN k ELSE k + 1)
    BY <1>5 DEF Single
  <2> QED BY <1>1, <2>1
<1>7. Transport!RemoveAt(s, i) = t
  BY DEF Transport!RemoveAt, t, a, b
<1> QED BY <1>4, <1>6, <1>7

-----------------------------------------------------------------------------
(* JsonRpcTransport: frames.                                               *)
LEMMA Frames ==
  /\ \A r, q : Transport!RequestFrame(r) = Transport!RequestFrame(q) => r = q
  /\ \A r : /\ Transport!RequestFrame(r) # Transport!CloseFrame
            /\ Transport!RequestFrame(r).type = "request" /\ Transport!RequestFrame(r).id = r
  /\ \A r, q, a, b : Transport!AnswerFrame(r, a) = Transport!AnswerFrame(q, b) => r = q /\ a = b
  /\ \A r, a : /\ Transport!AnswerFrame(r, a) # Transport!CloseFrame
               /\ Transport!AnswerFrame(r, a) # Transport!NoteFrame
               /\ Transport!AnswerFrame(r, a).type = "answer"
               /\ Transport!AnswerFrame(r, a).id = r /\ Transport!AnswerFrame(r, a).ok = a
  /\ Transport!NoteFrame # Transport!CloseFrame
  /\ Transport!NoteFrame.type = "note" /\ Transport!CloseFrame.type = "close"
<1>1. \A r : /\ Transport!RequestFrame(r).type = "request" /\ Transport!RequestFrame(r).id = r
  BY DEF Transport!RequestFrame
<1>2. \A r, a : /\ Transport!AnswerFrame(r, a).type = "answer"
                /\ Transport!AnswerFrame(r, a).id = r /\ Transport!AnswerFrame(r, a).ok = a
  BY DEF Transport!AnswerFrame
<1>3. Transport!NoteFrame.type = "note" /\ Transport!CloseFrame.type = "close"
  BY DEF Transport!NoteFrame, Transport!CloseFrame
<1>4. \A r, q : Transport!RequestFrame(r) = Transport!RequestFrame(q) => r = q
  BY <1>1
<1>5. \A r, q, a, b : Transport!AnswerFrame(r, a) = Transport!AnswerFrame(q, b) => r = q /\ a = b
  BY <1>2
<1>6. "request" # "close" /\ "answer" # "close" /\ "answer" # "note" /\ "note" # "close"
  OBVIOUS
<1>7. \A r : Transport!RequestFrame(r) # Transport!CloseFrame
  BY <1>1, <1>3, <1>6
<1>8. \A r, a : /\ Transport!AnswerFrame(r, a) # Transport!CloseFrame
                /\ Transport!AnswerFrame(r, a) # Transport!NoteFrame
  BY <1>2, <1>3, <1>6
<1>9. Transport!NoteFrame # Transport!CloseFrame
  BY <1>3, <1>6
<1> QED BY <1>1, <1>2, <1>3, <1>4, <1>5, <1>7, <1>8, <1>9

(* What goes to the server about the requests rs, and what comes back.     *)
UpFrames(rs) == {Transport!CloseFrame} \cup {Transport!RequestFrame(r) : r \in rs}
DownFrames(rs) == {Transport!CloseFrame, Transport!NoteFrame}
                  \cup {Transport!AnswerFrame(r, a) : r \in rs, a \in BOOLEAN}

UnderWay(c) == {r \in Reqs : req[r].conn = c /\ transportPc[r] = "sent" /\ task[r] = "none"}
Answered(c) == {r \in Reqs : req[r].conn = c /\ task[r] \in {"close", "done"}}

(* The server's two tasks of a connection, and a run.                      *)
Ends == [reader : {"on", "ending", "awaiting", "gone"}, writer : BOOLEAN]
ARun == [by : Reqs \cup {0}, left : Int, targets : Seq(Conns)]

ConnTypes ==
  /\ transportPc \in [Reqs -> {"unused", "sending", "sent"}]
  /\ req \in [Reqs -> [conn : Conns \cup {"nobody"}, kind : Transport!Kinds \cup {"none"}]]
  /\ task \in [Reqs -> {"none", "handling", "running", "answer", "refuse", "close", "done"}]
  /\ out \in [Reqs -> {"none", "ok", "error", "closed", "timeout"}]
  /\ server \in [Conns -> Ends]
  /\ link \in [Conns -> {"up", "broken"}]
  /\ heard \in [Conns -> Int] /\ transportSeen \in [Conns -> Int] /\ due \in [Reqs -> Int]
  /\ sendq \in [Conns -> Seq(UpFrames(Reqs))] /\ up \in [Conns -> Seq(UpFrames(Reqs))]
  /\ down \in [Conns -> Seq(DownFrames(Reqs))] /\ outq \in [Conns -> Seq(DownFrames(Reqs))]
  /\ lis \in Seq(Conns)
  /\ transportRun \in ARun

(* A request that is not sent is not handled, ...                          *)
SentFirst ==
  \A r \in Reqs : /\ transportPc[r] # "unused" => req[r].conn \in Conns
                  /\ transportPc[r] # "sent" => task[r] = "none"

(* ... its frame is under way once, on its connection, until it is, ...    *)
Asked(c) ==
  /\ Elems(up[c]) \subseteq UpFrames(UnderWay(c)) /\ Elems(sendq[c]) \subseteq UpFrames(UnderWay(c))
  /\ Single(up[c], {Transport!CloseFrame}) /\ Single(sendq[c], {Transport!CloseFrame})
  /\ Elems(up[c]) \cap Elems(sendq[c]) \subseteq {Transport!CloseFrame}

(* ... and nothing comes back for it before it has been.                   *)
Told(c) ==
  Elems(down[c]) \subseteq DownFrames(Answered(c)) /\ Elems(outq[c]) \subseteq DownFrames(Answered(c))

(* A run is that of a prompt, and calls each listener once.                *)
RunOk ==
  /\ Single(lis, {}) /\ Single(transportRun.targets, {})
  /\ transportRun # Transport!Idle =>
       /\ transportRun.by \in Reqs /\ task[transportRun.by] = "running"
       /\ req[transportRun.by].kind = "prompt"

ConnInv == /\ ConnTypes /\ SentFirst /\ RunOk
           /\ \A c \in Conns : Asked(c) /\ Told(c)

(* A step that touches no frame of a connection.                           *)
LEMMA AskedKept ==
  ASSUME NEW c, Asked(c), up'[c] = up[c], sendq'[c] = sendq[c],
         \A r \in UnderWay(c) : r \in UnderWay(c)'
  PROVE  Asked(c)'
<1>1. UpFrames(UnderWay(c)) \subseteq UpFrames(UnderWay(c)')
  BY DEF UpFrames
<1> QED BY <1>1 DEF Asked, Elems, Single, UpFrames

LEMMA ToldKept ==
  ASSUME NEW c, Told(c), down'[c] = down[c], outq'[c] = outq[c],
         \A r \in Answered(c) : r \in Answered(c)'
  PROVE  Told(c)'
<1>1. DownFrames(Answered(c)) \subseteq DownFrames(Answered(c)')
  BY DEF DownFrames
<1> QED BY <1>1 DEF Told, Elems

LEMMA ConnInit == Transport!Init => ConnInv
<1> SUFFICES ASSUME Transport!Init PROVE ConnInv
  OBVIOUS
<1>1. ConnTypes
  BY EmptyElems DEF Transport!Init, ConnTypes, Ends, ARun, Transport!Idle, Transport!Kinds
<1>2. SentFirst
  BY DEF Transport!Init, SentFirst
<1>3. RunOk
  BY DEF Transport!Init, RunOk, Single, Transport!Idle
<1>4. ASSUME NEW c \in Conns PROVE Asked(c) /\ Told(c)
  BY EmptyElems DEF Transport!Init, Asked, Told, Single
<1> QED BY <1>1, <1>2, <1>3, <1>4 DEF ConnInv

(* Steps that leave the frames of every connection alone.                  *)
LEMMA ConnKept ==
  ASSUME ConnInv, ConnTypes', SentFirst', RunOk', UNCHANGED <<up, sendq, down, outq>>,
         \A c \in Conns : \A r \in UnderWay(c) : r \in UnderWay(c)',
         \A c \in Conns : \A r \in Answered(c) : r \in Answered(c)'
  PROVE  ConnInv'
<1>1. ASSUME NEW c \in Conns PROVE Asked(c)' /\ Told(c)'
  BY AskedKept, ToldKept DEF ConnInv
<1> QED BY <1>1 DEF ConnInv

LEMMA CallConn ==
  ASSUME ConnInv, NEW r \in Reqs, NEW c \in Conns, NEW k \in Transport!Kinds,
         Transport!Call(r, c, k)
  PROVE  ConnInv'
<1>1. /\ transportPc[r] = "unused"
      /\ transportPc' = [transportPc EXCEPT ![r] = "sending"]
      /\ req' = [req EXCEPT ![r] = [conn |-> c, kind |-> k]]
      /\ UNCHANGED <<out, sendq, link, up, down, server, outq, task, lis, transportRun, heard,
                     transportSeen, due>>
  BY DEF Transport!Call, Transport!Set, Transport!serverVars
<1>2. ConnTypes'
  BY <1>1 DEF ConnInv, ConnTypes
<1>3. SentFirst'
  BY <1>1 DEF ConnInv, ConnTypes, SentFirst
<1>4. RunOk'
  BY <1>1 DEF ConnInv, ConnTypes, SentFirst, RunOk
<1>5. \A d \in Conns : \A q \in UnderWay(d) : q \in UnderWay(d)'
  BY <1>1 DEF ConnInv, ConnTypes, UnderWay
<1>6. \A d \in Conns : \A q \in Answered(d) : q \in Answered(d)'
  BY <1>1 DEF ConnInv, ConnTypes, SentFirst, Answered
<1> QED BY <1>1, <1>2, <1>3, <1>4, <1>5, <1>6, ConnKept

LEMMA SendConn ==
  ASSUME ConnInv, NEW r \in Reqs, Transport!Send(r)
  PROVE  ConnInv'
<1> DEFINE c == req[r].conn
           x == Transport!RequestFrame(r)
<1>1. /\ transportPc[r] = "sending"
      /\ transportPc' = [transportPc EXCEPT ![r] = "sent"]
      /\ UNCHANGED <<req, link, up, down, server, outq, task, lis, transportRun, heard,
                     transportSeen, due>>
  BY DEF Transport!Send, Transport!Set, Transport!serverVars
<1>2. \/ sendq' = [sendq EXCEPT ![c] = Append(sendq[c], x)] /\ out' = out
      \/ sendq' = sendq /\ out' = [out EXCEPT ![r] = "closed"]
  BY DEF Transport!Send, Transport!Set, Transport!Push
<1>3. c \in Conns /\ task[r] = "none"
  BY <1>1 DEF ConnInv, SentFirst
<1>4. x \in UpFrames(Reqs)
  BY DEF UpFrames
<1>5. ConnTypes'
  <2>1. Append(sendq[c], x) \in Seq(UpFrames(Reqs))
    BY <1>3, <1>4, AppendFacts DEF ConnInv, ConnTypes
  <2> HIDE DEF x, c
  <2> QED BY <1>1, <1>2, <1>3, <2>1 DEF ConnInv, ConnTypes
<1>6. SentFirst' /\ RunOk'
  BY <1>1 DEF ConnInv, ConnTypes, SentFirst, RunOk
<1>7. \A d \in Conns : UnderWay(d)' = IF d = c THEN UnderWay(d) \cup {r} ELSE UnderWay(d)
  BY <1>1, <1>3 DEF ConnInv, ConnTypes, UnderWay
<1>8. \A d \in Conns : Told(d)'
  BY <1>1, ToldKept DEF ConnInv, Answered
<1>9. ASSUME NEW d \in Conns PROVE Asked(d)'
  <2>1. CASE sendq'[d] = sendq[d]
    BY <1>1, <1>7, <2>1, AskedKept DEF ConnInv
  <2>2. CASE sendq'[d] # sendq[d]
    <3>1. d = c /\ sendq'[d] = Append(sendq[d], x)
      BY <1>2, <1>3, <2>2 DEF ConnInv, ConnTypes
    <3>2. r \notin UnderWay(d)
      BY <1>1 DEF UnderWay
    <3>3. x \notin Elems(sendq[d]) /\ x \notin Elems(up[d])
      <4>1. x \notin UpFrames(UnderWay(d))
        BY <3>2, Frames DEF UpFrames
      <4> QED BY <4>1 DEF ConnInv, Asked
    <3>4. sendq[d] \in Seq(UpFrames(Reqs))
      BY DEF ConnInv, ConnTypes
    <3>5. /\ Elems(sendq'[d]) = Elems(sendq[d]) \cup {x}
          /\ Single(sendq'[d], {Transport!CloseFrame})
      <4> HIDE DEF x
      <4>1. Single(sendq[d], {Transport!CloseFrame})
        BY DEF ConnInv, Asked
      <4>2. Elems(Append(sendq[d], x)) = Elems(sendq[d]) \cup {x}
        BY <1>4, <3>4, AppendFacts
      <4>3. Single(Append(sendq[d], x), {Transport!CloseFrame})
        BY <1>4, <3>3, <3>4, <4>1, SingleAppend
      <4> QED BY <3>1, <4>2, <4>3
    <3>6. UpFrames(UnderWay(d)') = UpFrames(UnderWay(d)) \cup {x}
      BY <1>7, <3>1 DEF UpFrames
    <3> HIDE DEF x
    <3> QED BY <1>1, <3>3, <3>5, <3>6 DEF ConnInv, Asked
  <2> QED BY <2>1, <2>2
<1> QED BY <1>5, <1>6, <1>8, <1>9 DEF ConnInv

(* Steps of the connections' ends: a part of a sequence is taken away.     *)
LEMMA AskedLess ==
  ASSUME NEW c, Asked(c), UnderWay(c)' = UnderWay(c),
         \/ up'[c] = up[c] \/ up'[c] = <<>>
         \/ up'[c] = Append(up[c], Transport!CloseFrame),
         up[c] \in Seq(UpFrames(Reqs)), sendq[c] \in Seq(UpFrames(Reqs)),
         \/ sendq'[c] = sendq[c] \/ sendq'[c] = <<>>
         \/ sendq[c] # <<>> /\ sendq'[c] = Tail(sendq[c])
         \/ sendq'[c] = Append(sendq[c], Transport!CloseFrame)
  PROVE  Asked(c)'
<1> DEFINE X == {Transport!CloseFrame}
<1>1. Transport!CloseFrame \in UpFrames(Reqs) /\ Transport!CloseFrame \in UpFrames(UnderWay(c))
  BY DEF UpFrames
<1>2. Elems(up'[c]) \subseteq Elems(up[c]) \cup X /\ Single(up'[c], X)
  <2>1. CASE up'[c] = up[c]
    BY <2>1 DEF Asked
  <2>2. CASE up'[c] = <<>>
    BY <2>2, EmptyElems DEF Single
  <2>3. CASE up'[c] = Append(up[c], Transport!CloseFrame)
    BY <1>1, <2>3, AppendFacts, SingleAppend DEF Asked
  <2> QED BY <2>1, <2>2, <2>3
<1>3. Elems(sendq'[c]) \subseteq Elems(sendq[c]) \cup X /\ Single(sendq'[c], X)
  <2>1. CASE sendq'[c] = sendq[c]
    BY <2>1 DEF Asked
  <2>2. CASE sendq'[c] = <<>>
    BY <2>2, EmptyElems DEF Single
  <2>3. CASE sendq[c] # <<>> /\ sendq'[c] = Tail(sendq[c])
    BY <2>3, TailFacts, SingleTail DEF Asked
  <2>4. CASE sendq'[c] = Append(sendq[c], Transport!CloseFrame)
    BY <1>1, <2>4, AppendFacts, SingleAppend DEF Asked
  <2> QED BY <2>1, <2>2, <2>3, <2>4
<1> QED BY <1>1, <1>2, <1>3 DEF Asked

LEMMA EndsConn ==
  ASSUME ConnInv, NEW c \in Conns,
         UNCHANGED <<transportPc, req, task, server, outq, lis, transportRun, heard,
                     transportSeen, due>>,
         \A d \in Conns : down'[d] = down[d] \/ down'[d] = <<>>,
         link' \in [Conns -> {"up", "broken"}], down' \in [Conns -> Seq(DownFrames(Reqs))],
         out' \in [Reqs -> {"none", "ok", "error", "closed", "timeout"}],
         sendq' \in [Conns -> Seq(UpFrames(Reqs))], up' \in [Conns -> Seq(UpFrames(Reqs))],
         \A d \in Conns : Asked(d)'
  PROVE  ConnInv'
<1>1. ConnTypes' /\ SentFirst' /\ RunOk'
  BY DEF ConnInv, ConnTypes, SentFirst, RunOk
<1>2. ASSUME NEW d \in Conns PROVE Told(d)'
  <2>1. Answered(d)' = Answered(d)
    BY DEF Answered
  <2>2. CASE down'[d] = down[d]
    BY <2>1, <2>2, ToldKept DEF ConnInv
  <2>3. CASE down'[d] = <<>>
    <3>1. Elems(down'[d]) = {}
      BY <2>3, EmptyElems
    <3> QED BY <2>1, <3>1 DEF ConnInv, Told
  <2> QED BY <2>2, <2>3
<1> QED BY <1>1, <1>2 DEF ConnInv

LEMMA ClosesConn ==
  ASSUME ConnInv, NEW c \in Conns, Transport!ClientCloses(c)
  PROVE  ConnInv'
<1>1. /\ sendq' = [sendq EXCEPT ![c] = Append(sendq[c], Transport!CloseFrame)]
      /\ UNCHANGED <<transportPc, req, out, link, up, down, server, outq, task, lis,
                     transportRun, heard, transportSeen, due>>
  BY DEF Transport!ClientCloses, Transport!Push, Transport!serverVars
<1>2. Append(sendq[c], Transport!CloseFrame) \in Seq(UpFrames(Reqs))
  BY AppendFacts DEF ConnInv, ConnTypes, UpFrames
<1>3. \A d \in Conns : Asked(d)'
  BY <1>1, AskedLess DEF ConnInv, ConnTypes, UnderWay
<1>4. sendq' \in [Conns -> Seq(UpFrames(Reqs))]
  BY <1>1, <1>2 DEF ConnInv, ConnTypes
<1> QED BY <1>1, <1>3, <1>4, EndsConn DEF ConnInv, ConnTypes

LEMMA OutTypes ==
  ASSUME out \in [Reqs -> {"none", "ok", "error", "closed", "timeout"}], NEW rs,
         NEW what \in {"ok", "error", "closed"}
  PROVE  Transport!Told(rs, what) \in [Reqs -> {"none", "ok", "error", "closed", "timeout"}]
BY DEF Transport!Told

LEMMA WritesConn ==
  ASSUME ConnInv, NEW c \in Conns, Transport!ClientWrites(c)
  PROVE  ConnInv'
<1> DEFINE x == Head(sendq[c])
<1>1. sendq[c] # <<>>
      /\ UNCHANGED <<transportPc, req, link, down, server, outq, task, lis, transportRun, heard,
                     transportSeen, due>>
  BY DEF Transport!ClientWrites, Transport!serverVars
<1>2. /\ out' \in [Reqs -> {"none", "ok", "error", "closed", "timeout"}]
      /\ \/ /\ x.type = "request"
            /\ sendq' = [sendq EXCEPT ![c] = Tail(sendq[c])]
            /\ up' = up \/ up' = [up EXCEPT ![c] = Append(up[c], x)]
         \/ sendq' = [sendq EXCEPT ![c] = <<>>] /\ up' = up
         \/ /\ x.type = "close" /\ sendq' = [sendq EXCEPT ![c] = <<>>]
            /\ up' = up \/ up' = [up EXCEPT ![c] = Append(up[c], x)]
  <2> HIDE DEF x
  <2>1. out' = out \/ \E rs : out' = Transport!Told(rs, "closed")
    BY DEF Transport!ClientWrites, Transport!WriteFails, Transport!Drain, x
  <2>2. out' \in [Reqs -> {"none", "ok", "error", "closed", "timeout"}]
    BY <2>1, OutTypes DEF ConnInv, ConnTypes
  <2> QED BY <2>2 DEF Transport!ClientWrites, Transport!WriteFails, Transport!Set,
                      Transport!Push, Transport!Pop, x
<1>3. /\ sendq[c] \in Seq(UpFrames(Reqs)) /\ up[c] \in Seq(UpFrames(Reqs))
      /\ sendq \in [Conns -> Seq(UpFrames(Reqs))] /\ up \in [Conns -> Seq(UpFrames(Reqs))]
      /\ Asked(c)
  BY DEF ConnInv, ConnTypes
<1>4. /\ Tail(sendq[c]) \in Seq(UpFrames(Reqs)) /\ x \in UpFrames(Reqs)
      /\ Elems(sendq[c]) = {x} \cup Elems(Tail(sendq[c]))
      /\ Single(Tail(sendq[c]), {Transport!CloseFrame})
      /\ x = Transport!CloseFrame \/ x \notin Elems(Tail(sendq[c]))
  BY <1>1, <1>3, TailFacts, SingleTail DEF Asked
<1> HIDE DEF x
<1>5. /\ Append(up[c], x) \in Seq(UpFrames(Reqs)) /\ Elems(Append(up[c], x)) = Elems(up[c]) \cup {x}
      /\ Single(Append(up[c], x), {Transport!CloseFrame})
  <2>1. x \in {Transport!CloseFrame} \/ x \notin Elems(up[c])
    BY <1>3, <1>4 DEF Asked
  <2>2. Single(up[c], {Transport!CloseFrame})
    BY <1>3 DEF Asked
  <2>3. /\ Append(up[c], x) \in Seq(UpFrames(Reqs))
        /\ Elems(Append(up[c], x)) = Elems(up[c]) \cup {x}
    BY <1>3, <1>4, AppendFacts
  <2>4. Single(Append(up[c], x), {Transport!CloseFrame})
    BY <1>3, <1>4, <2>1, <2>2, SingleAppend
  <2> QED BY <2>3, <2>4
<1>6. <<>> \in Seq(UpFrames(Reqs)) /\ Elems(<<>>) = {} /\ Single(<<>>, {Transport!CloseFrame})
  BY EmptyElems DEF Single
<1>7. sendq' \in [Conns -> Seq(UpFrames(Reqs))] /\ up' \in [Conns -> Seq(UpFrames(Reqs))]
  BY <1>2, <1>3, <1>4, <1>5, <1>6
<1>8. \A d \in Conns : UnderWay(d)' = UnderWay(d)
  BY <1>1 DEF UnderWay
<1>9. ASSUME NEW d \in Conns PROVE Asked(d)'
  <2>1. CASE d # c
    <3>1. up'[d] = up[d] /\ sendq'[d] = sendq[d]
      BY <1>2, <1>3, <2>1
    <3> QED BY <1>8, <3>1, AskedKept DEF ConnInv
  <2>2. CASE d = c
    <3>1. \/ sendq'[c] = Tail(sendq[c]) /\ (up'[c] = up[c] \/ up'[c] = Append(up[c], x))
          \/ sendq'[c] = <<>> /\ (up'[c] = up[c] \/ up'[c] = Append(up[c], x))
      BY <1>2, <1>3
    <3>2. x \in UpFrames(UnderWay(c))
      BY <1>3, <1>4 DEF Asked
    <3>3. /\ Elems(up'[c]) \subseteq Elems(up[c]) \cup {x} /\ Single(up'[c], {Transport!CloseFrame})
      BY <1>3, <1>5, <3>1 DEF Asked
    <3>4. /\ Elems(sendq'[c]) \subseteq Elems(Tail(sendq[c]))
          /\ Single(sendq'[c], {Transport!CloseFrame})
      BY <1>4, <1>6, <3>1
    <3>5. /\ Elems(up'[c]) \subseteq UpFrames(UnderWay(c))
          /\ Elems(sendq'[c]) \subseteq UpFrames(UnderWay(c))
          /\ Elems(up'[c]) \cap Elems(sendq'[c]) \subseteq {Transport!CloseFrame}
      BY <1>3, <1>4, <3>2, <3>3, <3>4 DEF Asked
    <3> QED BY <1>8, <2>2, <3>3, <3>4, <3>5 DEF Asked
  <2> QED BY <2>1, <2>2
<1> QED BY <1>1, <1>2, <1>7, <1>9, EndsConn DEF ConnInv, ConnTypes

LEMMA BreakConn ==
  ASSUME ConnInv, NEW c \in Conns, Transport!Break(c)
  PROVE  ConnInv'
<1>1. /\ link' = [link EXCEPT ![c] = "broken"]
      /\ up' = [up EXCEPT ![c] = <<>>] /\ down' = [down EXCEPT ![c] = <<>>]
      /\ UNCHANGED <<transportPc, req, out, sendq, server, outq, task, lis, transportRun, heard,
                     transportSeen, due>>
  BY DEF Transport!Break, Transport!Set, Transport!clientVars, Transport!serverVars
<1>2. \A d \in Conns : Asked(d)'
  BY <1>1, AskedLess DEF ConnInv, ConnTypes, UnderWay
<1>3. /\ link' \in [Conns -> {"up", "broken"}] /\ down' \in [Conns -> Seq(DownFrames(Reqs))]
      /\ up' \in [Conns -> Seq(UpFrames(Reqs))]
      /\ \A d \in Conns : down'[d] = down[d] \/ down'[d] = <<>>
  BY <1>1, EmptyElems DEF ConnInv, ConnTypes
<1> QED BY <1>1, <1>2, <1>3, EndsConn DEF ConnInv, ConnTypes

LEMMA TimesOutConn ==
  ASSUME ConnInv, NEW r \in Reqs, Transport!RequestTimesOut(r)
  PROVE  ConnInv'
<1>1. /\ out' = [out EXCEPT ![r] = "timeout"]
      /\ UNCHANGED <<transportPc, req, link, sendq, up, down, server, outq, task, lis,
                     transportRun, heard, transportSeen, due>>
  BY DEF Transport!RequestTimesOut, Transport!Set, Transport!serverVars
<1>2. ConnTypes' /\ SentFirst' /\ RunOk'
  BY <1>1 DEF ConnInv, ConnTypes, SentFirst, RunOk
<1> QED BY <1>1, <1>2, ConnKept DEF UnderWay, Answered

LEMMA ReadsConn ==
  ASSUME ConnInv, NEW c \in Conns, Transport!ClientReads(c)
  PROVE  ConnInv'
<1> DEFINE x == Head(down[c])
<1>1. UNCHANGED <<transportPc, req, sendq, link, up, server, outq, task, lis, transportRun, heard,
                  due>>
  BY DEF Transport!ClientReads, Transport!serverVars
<1>2. /\ \/ out' = out
         \/ \E rs : out' = Transport!Told(rs, "closed")
         \/ \E rs : out' = Transport!Told(rs, IF x.ok THEN "ok" ELSE "error")
      /\ transportSeen' = [transportSeen EXCEPT ![c] = transportSeen[c] + 1]
         \/ transportSeen' = transportSeen
      /\ \/ down[c] # <<>> /\ down' = [down EXCEPT ![c] = Tail(down[c])]
         \/ down' = down
  <2> HIDE DEF x
  <2> QED BY DEF Transport!ClientReads, Transport!ReaderEnds, Transport!Drain, Transport!Pop, x
<1>3. out' \in [Reqs -> {"none", "ok", "error", "closed", "timeout"}]
  <2> DEFINE o == IF x.ok THEN "ok" ELSE "error"
  <2>1. o \in {"ok", "error", "closed"} /\ "closed" \in {"ok", "error", "closed"}
    OBVIOUS
  <2>2. \/ out' = out
        \/ \E rs : out' = Transport!Told(rs, "closed")
        \/ \E rs : out' = Transport!Told(rs, o)
    BY <1>2
  <2>3. out \in [Reqs -> {"none", "ok", "error", "closed", "timeout"}]
    BY DEF ConnInv, ConnTypes
  <2> HIDE DEF x, o
  <2>4. \A rs : /\ Transport!Told(rs, "closed") \in [Reqs -> {"none", "ok", "error", "closed", "timeout"}]
                /\ Transport!Told(rs, o) \in [Reqs -> {"none", "ok", "error", "closed", "timeout"}]
    BY <2>1, <2>3, OutTypes
  <2> QED BY <2>2, <2>3, <2>4
<1>4. down[c] # <<>> => /\ Tail(down[c]) \in Seq(DownFrames(Reqs))
                        /\ Elems(Tail(down[c])) \subseteq Elems(down[c])
  BY TailFacts DEF ConnInv, ConnTypes
<1> HIDE DEF x
<1>5. ConnTypes' /\ SentFirst' /\ RunOk'
  <2>1. down' \in [Conns -> Seq(DownFrames(Reqs))] /\ transportSeen' \in [Conns -> Int]
    <3>1. down' = down \/ (down[c] # <<>> /\ down' = [down EXCEPT ![c] = Tail(down[c])])
      BY <1>2
    <3>2. down' \in [Conns -> Seq(DownFrames(Reqs))]
      BY <1>4, <3>1 DEF ConnInv, ConnTypes
    <3>3. transportSeen' \in [Conns -> Int]
      BY <1>2 DEF ConnInv, ConnTypes
    <3> QED BY <3>2, <3>3
  <2>2. ConnTypes'
    BY <1>1, <1>3, <2>1 DEF ConnInv, ConnTypes
  <2> QED BY <1>1, <2>2 DEF ConnInv, SentFirst, RunOk
<1>6. ASSUME NEW d \in Conns PROVE Asked(d)' /\ Told(d)'
  <2>1. UnderWay(d)' = UnderWay(d) /\ Answered(d)' = Answered(d)
    BY <1>1 DEF UnderWay, Answered
  <2>2. Elems(down'[d]) \subseteq Elems(down[d])
    BY <1>2, <1>4 DEF ConnInv, ConnTypes
  <2>3. Asked(d)'
    BY <1>1, <2>1, AskedKept DEF ConnInv
  <2> QED BY <1>1, <2>1, <2>2, <2>3 DEF ConnInv, Told
<1> QED BY <1>5, <1>6 DEF ConnInv

LEMMA ReaderMoves ==
  ASSUME server \in [Conns -> Ends], NEW c \in Conns,
         NEW v \in {"on", "ending", "awaiting", "gone"}
  PROVE  [server EXCEPT ![c].reader = v] \in [Conns -> Ends]
<1>1. server[c] \in Ends
  OBVIOUS
<1>2. [server[c] EXCEPT !.reader = v] \in Ends
  BY <1>1 DEF Ends
<1> HIDE DEF Ends
<1> QED BY <1>2

LEMMA ServerReadsConn ==
  ASSUME ConnInv, NEW c \in Conns, Transport!ServerReads(c)
  PROVE  ConnInv'
<1> DEFINE x == Head(up[c])
<1>1. UNCHANGED <<transportPc, req, out, sendq, link, down, outq, lis, transportRun, heard,
                  transportSeen, due>>
  BY DEF Transport!ServerReads, Transport!clientVars
<1>2. \/ /\ up[c] # <<>> /\ up' = [up EXCEPT ![c] = Tail(up[c])]
         /\ \/ /\ x.type = "request" /\ task' = [task EXCEPT ![x.id] = "handling"]
               /\ server' = server
            \/ task' = task /\ server' = [server EXCEPT ![c].reader = "ending"]
      \/ up' = up /\ task' = task /\ server' = [server EXCEPT ![c].reader = "ending"]
  BY DEF Transport!ServerReads, Transport!Pop, Transport!Set
<1>3. up[c] \in Seq(UpFrames(Reqs)) /\ Asked(c) /\ Single(up[c], {Transport!CloseFrame})
  BY DEF ConnInv, ConnTypes, Asked
<1>4. up[c] # <<>> =>
        /\ Tail(up[c]) \in Seq(UpFrames(Reqs)) /\ Elems(up[c]) = {x} \cup Elems(Tail(up[c]))
        /\ Single(Tail(up[c]), {Transport!CloseFrame})
        /\ x \in {Transport!CloseFrame} \/ x \notin Elems(Tail(up[c]))
  BY <1>3, TailFacts, SingleTail
<1> HIDE DEF x
<1>5. CASE task' = task
  <2>1. /\ up' \in [Conns -> Seq(UpFrames(Reqs))]
        /\ server' \in [Conns -> Ends]
    <3>1. up' = up \/ (up[c] # <<>> /\ up' = [up EXCEPT ![c] = Tail(up[c])])
      BY <1>2
    <3>2. up' \in [Conns -> Seq(UpFrames(Reqs))]
      BY <1>4, <3>1 DEF ConnInv, ConnTypes
    <3>3. server' = server \/ server' = [server EXCEPT ![c].reader = "ending"]
      BY <1>2
    <3>4. server' \in [Conns -> Ends]
      BY <3>3, ReaderMoves DEF ConnInv, ConnTypes
    <3> QED BY <3>2, <3>4
  <2>2. ConnTypes'
    BY <1>1, <1>5, <2>1 DEF ConnInv, ConnTypes
  <2>3. SentFirst' /\ RunOk'
    BY <1>1, <1>5 DEF ConnInv, SentFirst, RunOk
  <2>4. ASSUME NEW d \in Conns PROVE Asked(d)' /\ Told(d)'
    <3>1. UnderWay(d)' = UnderWay(d) /\ Answered(d)' = Answered(d)
      BY <1>1, <1>5 DEF UnderWay, Answered
    <3>2. Told(d)'
      BY <1>1, <3>1, ToldKept DEF ConnInv
    <3>3. CASE up'[d] = up[d]
      BY <1>1, <3>1, <3>2, <3>3, AskedKept DEF ConnInv
    <3>4. CASE up'[d] # up[d]
      <4>1. d = c /\ up[c] # <<>> /\ up'[d] = Tail(up[c])
        BY <1>2, <3>4 DEF ConnInv, ConnTypes
      <4> QED BY <1>1, <1>3, <1>4, <3>1, <3>2, <4>1 DEF Asked
    <3> QED BY <3>3, <3>4
  <2> QED BY <2>2, <2>3, <2>4 DEF ConnInv
<1>6. CASE task' # task
  <2>1. /\ up[c] # <<>> /\ up' = [up EXCEPT ![c] = Tail(up[c])] /\ x.type = "request"
        /\ task' = [task EXCEPT ![x.id] = "handling"] /\ server' = server
    BY <1>2, <1>6
  <2>2. PICK r \in UnderWay(c) : x = Transport!RequestFrame(r)
    <3>1. x \in UpFrames(UnderWay(c))
      BY <1>3, <1>4, <2>1 DEF Asked
    <3>2. x # Transport!CloseFrame
      BY <2>1, Frames
    <3> QED BY <3>1, <3>2 DEF UpFrames
  <2>3. x.id = r /\ x # Transport!CloseFrame
    BY <2>2, Frames
  <2>4. r \in Reqs /\ task[r] = "none" /\ transportPc[r] = "sent" /\ req[r].conn = c
    BY <2>2 DEF UnderWay
  <2>5. task' = [task EXCEPT ![r] = "handling"]
    BY <2>1, <2>3
  <2>6. up' \in [Conns -> Seq(UpFrames(Reqs))]
    BY <1>4, <2>1 DEF ConnInv, ConnTypes
  <2>7. ConnTypes'
    BY <1>1, <2>1, <2>4, <2>5, <2>6 DEF ConnInv, ConnTypes
  <2>8. SentFirst' /\ RunOk'
    BY <1>1, <2>4, <2>5 DEF ConnInv, ConnTypes, SentFirst, RunOk
  <2>9. \A d \in Conns : /\ UnderWay(d)' = IF d = c THEN UnderWay(d) \ {r} ELSE UnderWay(d)
                         /\ Answered(d)' = Answered(d)
    BY <1>1, <2>4, <2>5 DEF ConnInv, ConnTypes, UnderWay, Answered
  <2>10. ASSUME NEW d \in Conns PROVE Told(d)'
    BY <1>1, <2>9, ToldKept DEF ConnInv
  <2>11. ASSUME NEW d \in Conns PROVE Asked(d)'
    <3>1. CASE d # c
      BY <1>1, <2>1, <2>9, <3>1, AskedKept DEF ConnInv, ConnTypes
    <3>2. CASE d = c
      <4>1. UpFrames(UnderWay(c)) \ {x} \subseteq UpFrames(UnderWay(c) \ {r})
        BY <2>2, Frames DEF UpFrames
      <4>2. x \notin Elems(Tail(up[c])) /\ x \notin Elems(sendq[c])
        BY <1>3, <1>4, <2>1, <2>3 DEF Asked
      <4>3. up'[c] = Tail(up[c]) /\ sendq'[c] = sendq[c]
        BY <1>1, <2>1 DEF ConnInv, ConnTypes
      <4>4. UnderWay(c)' = UnderWay(c) \ {r}
        BY <2>9
      <4>5. /\ Elems(Tail(up[c])) \subseteq UpFrames(UnderWay(c) \ {r})
            /\ Elems(sendq[c]) \subseteq UpFrames(UnderWay(c) \ {r})
            /\ Elems(Tail(up[c])) \cap Elems(sendq[c]) \subseteq {Transport!CloseFrame}
            /\ Single(sendq[c], {Transport!CloseFrame})
        BY <1>3, <1>4, <2>1, <4>1, <4>2 DEF Asked
      <4> QED BY <1>4, <2>1, <3>2, <4>3, <4>4, <4>5 DEF Asked
    <3> QED BY <3>1, <3>2
  <2> QED BY <2>7, <2>8, <2>10, <2>11 DEF ConnInv
<1> QED BY <1>5, <1>6

(* Steps by which the server says something.                               *)
LEMMA ToldMore ==
  ASSUME NEW c, Told(c), down'[c] = down[c], outq[c] \in Seq(DownFrames(Reqs)),
         NEW y \in DownFrames(Reqs), y \in DownFrames(Answered(c)'),
         outq'[c] = Append(outq[c], y), \A r \in Answered(c) : r \in Answered(c)'
  PROVE  Told(c)'
<1>1. DownFrames(Answered(c)) \subseteq DownFrames(Answered(c)')
  BY DEF DownFrames
<1>2. Elems(outq'[c]) = Elems(outq[c]) \cup {y}
  BY AppendFacts
<1> QED BY <1>1, <1>2 DEF Told, Elems

LEMMA SaysConn ==
  ASSUME ConnInv, NEW c \in Conns, NEW y \in DownFrames(Reqs),
         UNCHANGED <<transportPc, req, out, sendq, link, up, down, lis, transportSeen, due>>,
         y \in DownFrames(Answered(c)'), outq' = [outq EXCEPT ![c] = Append(outq[c], y)],
         server' \in [Conns -> Ends],
         task' \in [Reqs -> {"none", "handling", "running", "answer", "refuse", "close", "done"}],
         heard' \in [Conns -> Int],
         transportRun' \in ARun,
         SentFirst', RunOk',
         \A d \in Conns : UnderWay(d)' = UnderWay(d),
         \A d \in Conns : \A r \in Answered(d) : r \in Answered(d)'
  PROVE  ConnInv'
<1>1. Append(outq[c], y) \in Seq(DownFrames(Reqs))
  BY AppendFacts DEF ConnInv, ConnTypes
<1>2. outq' \in [Conns -> Seq(DownFrames(Reqs))]
  BY <1>1 DEF ConnInv, ConnTypes
<1>3. ConnTypes'
  BY <1>2 DEF ConnInv, ConnTypes
<1>4. ASSUME NEW d \in Conns PROVE Asked(d)' /\ Told(d)'
  <2>1. Asked(d)'
    BY AskedKept DEF ConnInv
  <2>2. CASE d # c
    <3>1. outq'[d] = outq[d]
      BY <2>2 DEF ConnInv, ConnTypes
    <3> QED BY <2>1, <3>1, ToldKept DEF ConnInv
  <2>3. CASE d = c
    <3>1. outq'[c] = Append(outq[c], y) /\ outq[c] \in Seq(DownFrames(Reqs))
      BY DEF ConnInv, ConnTypes
    <3>2. Told(c)'
      BY <3>1, ToldMore DEF ConnInv
    <3> QED BY <2>1, <2>3, <3>2
  <2> QED BY <2>2, <2>3
<1> QED BY <1>3, <1>4 DEF ConnInv

LEMMA ServerEndsConn ==
  ASSUME ConnInv, NEW c \in Conns, Transport!ServerEnds(c)
  PROVE  ConnInv'
<1>1. UNCHANGED <<transportPc, req, out, sendq, link, up, down, task, lis, transportRun, heard,
                  transportSeen, due>>
  BY DEF Transport!ServerEnds, Transport!clientVars
<1>2. \/ /\ outq' = [outq EXCEPT ![c] = Append(outq[c], Transport!CloseFrame)]
         /\ server' = [server EXCEPT ![c].reader = "awaiting"]
      \/ outq' = outq /\ server' = [server EXCEPT ![c].reader = "gone"]
  BY DEF Transport!ServerEnds, Transport!Push
<1>3. server' \in [Conns -> Ends]
  <2>1. server \in [Conns -> Ends]
    BY DEF ConnInv, ConnTypes
  <2>2. /\ [server EXCEPT ![c].reader = "awaiting"] \in [Conns -> Ends]
        /\ [server EXCEPT ![c].reader = "gone"] \in [Conns -> Ends]
    BY <2>1, ReaderMoves
  <2> QED BY <1>2, <2>2
<1>4. SentFirst' /\ RunOk'
  BY <1>1 DEF ConnInv, SentFirst, RunOk
<1>5. \A d \in Conns : UnderWay(d)' = UnderWay(d) /\ Answered(d)' = Answered(d)
  BY <1>1 DEF UnderWay, Answered
<1>6. CASE outq' = outq
  <2>1. ConnTypes'
    BY <1>1, <1>3, <1>6 DEF ConnInv, ConnTypes
  <2> QED BY <1>1, <1>4, <1>5, <1>6, <2>1, ConnKept
<1>7. CASE outq' = [outq EXCEPT ![c] = Append(outq[c], Transport!CloseFrame)]
  <2>1. /\ Transport!CloseFrame \in DownFrames(Reqs)
        /\ Transport!CloseFrame \in DownFrames(Answered(c)')
    BY DEF DownFrames
  <2>2. /\ task' \in [Reqs -> {"none", "handling", "running", "answer", "refuse", "close", "done"}]
        /\ heard' \in [Conns -> Int]
        /\ transportRun' \in ARun
    BY <1>1 DEF ConnInv, ConnTypes
  <2> QED BY <1>1, <1>3, <1>4, <1>5, <1>7, <2>1, <2>2, SaysConn
<1> QED BY <1>2, <1>6, <1>7

LEMMA ListenersConn ==
  ASSUME lis \in Seq(Conns), Single(lis, {})
  PROVE  /\ \A c : Transport!Unsubscribed(c) \in Seq(Conns) /\ Single(Transport!Unsubscribed(c), {})
         /\ Transport!Range(lis) = Elems(lis)
<1>1. DOMAIN lis = 1..Len(lis)
  OBVIOUS
<1>2. Transport!Range(lis) = Elems(lis)
  BY <1>1 DEF Transport!Range, Elems
<1>3. ASSUME NEW c PROVE Transport!Unsubscribed(c) \in Seq(Conns)
                         /\ Single(Transport!Unsubscribed(c), {})
  <2> DEFINE i == CHOOSE i \in DOMAIN lis : lis[i] = c
  <2>1. CASE c \notin Transport!Range(lis)
    BY <2>1 DEF Transport!Unsubscribed
  <2>2. CASE c \in Transport!Range(lis)
    <3>1. i \in 1..Len(lis)
      BY <1>1, <2>2 DEF Transport!Range
    <3>2. Transport!Unsubscribed(c) = Transport!RemoveAt(lis, i)
      BY <2>2 DEF Transport!Unsubscribed
    <3> HIDE DEF i
    <3> QED BY <3>1, <3>2, Without
  <2> QED BY <2>1, <2>2
<1> QED BY <1>2, <1>3

LEMMA HandleConn ==
  ASSUME ConnInv, NEW r \in Reqs, Transport!Handle(r)
  PROVE  ConnInv'
<1> DEFINE c == req[r].conn
<1>1. /\ task[r] = "handling"
      /\ UNCHANGED <<transportPc, req, out, sendq, link, up, down, server, outq, heard,
                     transportSeen, due>>
  BY DEF Transport!Handle, Transport!clientVars
<1>2. /\ \/ task' = [task EXCEPT ![r] = "answer"] /\ transportRun' = transportRun
         \/ task' = [task EXCEPT ![r] = "refuse"] /\ transportRun' = transportRun
         \/ /\ task' = [task EXCEPT ![r] = "running"] /\ req[r].kind = "prompt"
            /\ transportRun' = [by |-> r, left |-> Events, targets |-> <<>>]
      /\ \/ lis' = lis \/ lis' = Transport!Unsubscribed(c)
         \/ c \notin Transport!Range(lis) /\ lis' = Append(lis, c)
  BY DEF Transport!Handle, Transport!Set
<1>3. c \in Conns /\ transportPc[r] = "sent"
  BY <1>1 DEF ConnInv, SentFirst
<1>4. lis' \in Seq(Conns) /\ Single(lis', {})
  <2>1. /\ lis \in Seq(Conns) /\ Single(lis, {})
    BY DEF ConnInv, ConnTypes, RunOk
  <2>2. CASE lis' = lis
    BY <2>1, <2>2
  <2>3. CASE lis' = Transport!Unsubscribed(c)
    BY <2>1, <2>3, ListenersConn
  <2>4. CASE c \notin Transport!Range(lis) /\ lis' = Append(lis, c)
    <3>1. c \notin Elems(lis)
      BY <2>1, <2>4, ListenersConn
    <3> HIDE DEF c
    <3>2. Append(lis, c) \in Seq(Conns)
      BY <1>3, <2>1, AppendFacts
    <3>3. Single(Append(lis, c), {})
      BY <1>3, <2>1, <3>1, SingleAppend
    <3> QED BY <2>4, <3>2, <3>3
  <2> QED BY <1>2, <2>2, <2>3, <2>4
<1> HIDE DEF c
<1>5. transportRun' \in ARun
  <2>1. Events \in Int /\ <<>> \in Seq(Conns)
    BY ConnectionsAssumption, EmptyElems DEF Transport!TransportAssumption
  <2>2. [by |-> r, left |-> Events, targets |-> <<>>] \in ARun
    BY <2>1 DEF ARun
  <2>3. transportRun \in ARun
    BY DEF ConnInv, ConnTypes
  <2> QED BY <1>2, <2>2, <2>3
<1>6. task' \in [Reqs -> {"none", "handling", "running", "answer", "refuse", "close", "done"}]
  BY <1>2 DEF ConnInv, ConnTypes
<1>7. ConnTypes'
  BY <1>1, <1>4, <1>5, <1>6 DEF ConnInv, ConnTypes
<1>8. SentFirst'
  BY <1>1, <1>2, <1>3 DEF ConnInv, ConnTypes, SentFirst
<1>9. RunOk'
  <2>1. CASE transportRun' = transportRun
    BY <1>1, <1>2, <1>4, <2>1 DEF ConnInv, ConnTypes, RunOk
  <2>2. CASE transportRun' # transportRun
    <3>1. /\ task' = [task EXCEPT ![r] = "running"] /\ req[r].kind = "prompt"
          /\ transportRun' = [by |-> r, left |-> Events, targets |-> <<>>]
      BY <1>2, <2>2
    <3>2. Single(transportRun'.targets, {})
      BY <3>1, EmptyElems DEF Single
    <3> QED BY <1>1, <1>4, <3>1, <3>2 DEF ConnInv, ConnTypes, RunOk
  <2> QED BY <2>1, <2>2
<1>10. \A d \in Conns : UnderWay(d)' = UnderWay(d) /\ Answered(d)' = Answered(d)
  BY <1>1, <1>2 DEF ConnInv, ConnTypes, UnderWay, Answered
<1> QED BY <1>1, <1>7, <1>8, <1>9, <1>10, ConnKept

LEMMA AnswerConn ==
  ASSUME ConnInv, NEW r \in Reqs, Transport!Answer(r)
  PROVE  ConnInv'
<1> DEFINE y == Transport!Reply(r, task[r])
<1>0. task[r] # "none"
  BY DEF Transport!Answer
<1> PICK c \in Conns : c = req[r].conn
  BY <1>0 DEF ConnInv, SentFirst
<1>1. /\ task[r] \in {"answer", "refuse", "close"}
      /\ UNCHANGED <<transportPc, req, out, sendq, link, up, down, lis, transportRun, heard,
                     transportSeen, due>>
  BY DEF Transport!Answer, Transport!clientVars
<1>2. /\ \/ task' = [task EXCEPT ![r] = "close"] \/ task' = [task EXCEPT ![r] = "done"]
      /\ outq' = outq \/ outq' = [outq EXCEPT ![c] = Append(outq[c], y)]
      /\ server' = server \/ server' = [server EXCEPT ![c].reader = "awaiting"]
  BY DEF Transport!Answer, Transport!Set, Transport!Push
<1>3. c \in Conns /\ transportPc[r] = "sent"
  BY <1>1 DEF ConnInv, SentFirst
<1>4. /\ task' \in [Reqs -> {"none", "handling", "running", "answer", "refuse", "close", "done"}]
      /\ server' \in [Conns -> Ends]
      /\ heard' \in [Conns -> Int]
      /\ transportRun' \in ARun
  <2>1. task' \in [Reqs -> {"none", "handling", "running", "answer", "refuse", "close", "done"}]
    BY <1>2 DEF ConnInv, ConnTypes
  <2>2. server' \in [Conns -> Ends]
    <3>1. server \in [Conns -> Ends]
      BY DEF ConnInv, ConnTypes
    <3>2. [server EXCEPT ![c].reader = "awaiting"] \in [Conns -> Ends]
      BY <1>3, <3>1, ReaderMoves
    <3> QED BY <1>2, <3>1, <3>2
  <2> QED BY <1>1, <2>1, <2>2 DEF ConnInv, ConnTypes
<1>5. SentFirst' /\ RunOk'
  <2>1. \A q \in Reqs : task'[q] = task[q] \/ q = r
    BY <1>2 DEF ConnInv, ConnTypes
  <2>2. SentFirst'
    BY <1>1, <1>3, <2>1 DEF ConnInv, SentFirst
  <2>3. transportRun # Transport!Idle => transportRun.by # r
    BY <1>1 DEF ConnInv, RunOk
  <2>4. RunOk'
    BY <1>1, <2>1, <2>3 DEF ConnInv, RunOk
  <2> QED BY <2>2, <2>4
<1>6. ASSUME NEW d \in Conns
      PROVE  UnderWay(d)' = UnderWay(d) /\ \A q \in Answered(d) : q \in Answered(d)'
  <2>1. \A q \in Reqs : task'[q] = "none" <=> task[q] = "none"
    BY <1>1, <1>2 DEF ConnInv, ConnTypes
  <2>2. UnderWay(d)' = UnderWay(d)
    BY <1>1, <2>1 DEF UnderWay
  <2>3. \A q \in Answered(d) : q \in Answered(d)'
    BY <1>1, <1>2 DEF ConnInv, ConnTypes, Answered
  <2> QED BY <2>2, <2>3
<1>7. r \in Answered(c)'
  BY <1>1, <1>2 DEF ConnInv, ConnTypes, Answered
<1>8. y \in DownFrames(Reqs) /\ y \in DownFrames(Answered(c)')
  <2>1. y = Transport!CloseFrame \/ \E a \in BOOLEAN : y = Transport!AnswerFrame(r, a)
    BY DEF Transport!Reply
  <2> HIDE DEF y
  <2> QED BY <1>7, <2>1 DEF DownFrames
<1> HIDE DEF y
<1>9. CASE outq' = outq
  <2>1. ConnTypes'
    BY <1>1, <1>4, <1>9 DEF ConnInv, ConnTypes
  <2> QED BY <1>1, <1>5, <1>6, <1>9, <2>1, ConnKept
<1>10. CASE outq' = [outq EXCEPT ![c] = Append(outq[c], y)]
  <2>1. /\ y \in DownFrames(Answered(c)')
        /\ \A d \in Conns : UnderWay(d)' = UnderWay(d)
        /\ \A d \in Conns : \A q \in Answered(d) : q \in Answered(d)'
    BY <1>6, <1>8
  <2> QED BY <1>1, <1>3, <1>4, <1>5, <1>8, <1>10, <2>1, SaysConn
<1> QED BY <1>2, <1>9, <1>10

LEMMA WriterEnds ==
  ASSUME server \in [Conns -> Ends], NEW c \in Conns, NEW v \in BOOLEAN
  PROVE  [server EXCEPT ![c].writer = v] \in [Conns -> Ends]
<1>1. server[c] \in Ends
  OBVIOUS
<1>2. [server[c] EXCEPT !.writer = v] \in Ends
  BY <1>1 DEF Ends
<1> HIDE DEF Ends
<1> QED BY <1>2

(* The run is over, its request is to be told.                             *)
LEMMA IdlesConn ==
  ASSUME ConnInv, transportRun # Transport!Idle, transportRun' = Transport!Idle,
         NEW t \in {"answer", "refuse"}, task' = [task EXCEPT ![transportRun.by] = t],
         UNCHANGED <<transportPc, req, out, sendq, link, up, down, server, outq, lis,
                     transportSeen>>,
         heard' \in [Conns -> Int], due' \in [Reqs -> Int]
  PROVE  ConnInv'
<1>1. transportRun.by \in Reqs /\ task[transportRun.by] = "running"
  BY DEF ConnInv, RunOk
<1>2. transportPc[transportRun.by] = "sent"
  BY <1>1 DEF ConnInv, SentFirst
<1>3. transportRun' \in ARun /\ Single(transportRun'.targets, {})
  BY EmptyElems DEF Transport!Idle, ARun, Single
<1>4. ConnTypes'
  BY <1>1, <1>3 DEF ConnInv, ConnTypes
<1>5. SentFirst' /\ RunOk'
  BY <1>1, <1>2, <1>3 DEF ConnInv, ConnTypes, SentFirst, RunOk
<1>6. \A d \in Conns : UnderWay(d)' = UnderWay(d) /\ Answered(d)' = Answered(d)
  BY <1>1 DEF ConnInv, ConnTypes, UnderWay, Answered
<1> QED BY <1>4, <1>5, <1>6, ConnKept

LEMMA ServerWritesConn ==
  ASSUME ConnInv, NEW c \in Conns, Transport!ServerWrites(c)
  PROVE  ConnInv'
<1> DEFINE x == Head(outq[c])
           b == x.type # "close"
<1>1. /\ outq[c] # <<>>
      /\ UNCHANGED <<transportPc, req, out, sendq, link, up, task, lis, transportRun, heard,
                     transportSeen, due>>
  BY DEF Transport!ServerWrites, Transport!clientVars
<1>2. /\ down' = down \/ down' = [down EXCEPT ![c] = Append(down[c], x)]
      /\ outq' = [outq EXCEPT ![c] = <<>>] \/ outq' = [outq EXCEPT ![c] = Tail(outq[c])]
      /\ server' = [server EXCEPT ![c].writer = b] \/ server' = [server EXCEPT ![c].writer = FALSE]
  BY DEF Transport!ServerWrites, Transport!Set, Transport!Push, Transport!Pop
<1>3. /\ outq[c] \in Seq(DownFrames(Reqs)) /\ down[c] \in Seq(DownFrames(Reqs)) /\ Told(c)
  BY DEF ConnInv, ConnTypes
<1>4. /\ Tail(outq[c]) \in Seq(DownFrames(Reqs)) /\ x \in DownFrames(Reqs)
      /\ Elems(outq[c]) = {x} \cup Elems(Tail(outq[c]))
  BY <1>1, <1>3, TailFacts
<1>5. b \in BOOLEAN
  OBVIOUS
<1> HIDE DEF x, b
<1>6. /\ Append(down[c], x) \in Seq(DownFrames(Reqs))
      /\ Elems(Append(down[c], x)) = Elems(down[c]) \cup {x}
  BY <1>3, <1>4, AppendFacts
<1>7. <<>> \in Seq(DownFrames(Reqs)) /\ Elems(<<>>) = {}
  BY EmptyElems
<1>8. server' \in [Conns -> Ends]
  <2>1. server \in [Conns -> Ends]
    BY DEF ConnInv, ConnTypes
  <2>2. /\ [server EXCEPT ![c].writer = b] \in [Conns -> Ends]
        /\ [server EXCEPT ![c].writer = FALSE] \in [Conns -> Ends]
    BY <1>5, <2>1, WriterEnds
  <2> QED BY <1>2, <2>2
<1>9. /\ down' \in [Conns -> Seq(DownFrames(Reqs))] /\ outq' \in [Conns -> Seq(DownFrames(Reqs))]
  <2>1. down' \in [Conns -> Seq(DownFrames(Reqs))]
    BY <1>2, <1>6 DEF ConnInv, ConnTypes
  <2>2. outq' \in [Conns -> Seq(DownFrames(Reqs))]
    BY <1>2, <1>4, <1>7 DEF ConnInv, ConnTypes
  <2> QED BY <2>1, <2>2
<1>10. ConnTypes'
  BY <1>1, <1>8, <1>9 DEF ConnInv, ConnTypes
<1>11. SentFirst' /\ RunOk'
  BY <1>1 DEF ConnInv, SentFirst, RunOk
<1>12. ASSUME NEW d \in Conns PROVE Asked(d)' /\ Told(d)'
  <2>1. UnderWay(d)' = UnderWay(d) /\ Answered(d)' = Answered(d)
    BY <1>1 DEF UnderWay, Answered
  <2>2. Asked(d)'
    BY <1>1, <2>1, AskedKept DEF ConnInv
  <2>3. CASE d # c
    <3>1. down'[d] = down[d] /\ outq'[d] = outq[d]
      BY <1>2, <2>3 DEF ConnInv, ConnTypes
    <3> QED BY <2>1, <2>2, <3>1, ToldKept DEF ConnInv
  <2>4. CASE d = c
    <3>1. Elems(down'[c]) \subseteq Elems(down[c]) \cup {x}
      BY <1>2, <1>6 DEF ConnInv, ConnTypes
    <3>2. Elems(outq'[c]) \subseteq Elems(outq[c])
      BY <1>2, <1>4, <1>7 DEF ConnInv, ConnTypes
    <3> QED BY <1>3, <1>4, <2>1, <2>2, <2>4, <3>1, <3>2 DEF Told
  <2> QED BY <2>3, <2>4
<1> QED BY <1>10, <1>11, <1>12 DEF ConnInv

LEMMA DroppedConn ==
  ASSUME ConnInv, NEW c \in Conns, Transport!Dropped(c)
  PROVE  ConnInv'
<1>1. /\ lis' = Transport!Unsubscribed(c)
      /\ UNCHANGED <<transportPc, req, out, sendq, link, up, down, server, outq, task,
                     transportRun, heard, transportSeen, due>>
  BY DEF Transport!Dropped, Transport!clientVars
<1>2. lis' \in Seq(Conns) /\ Single(lis', {})
  <2>1. lis \in Seq(Conns) /\ Single(lis, {})
    BY DEF ConnInv, ConnTypes, RunOk
  <2> QED BY <1>1, <2>1, ListenersConn
<1>3. ConnTypes' /\ SentFirst' /\ RunOk'
  BY <1>1, <1>2 DEF ConnInv, ConnTypes, SentFirst, RunOk
<1> QED BY <1>1, <1>3, ConnKept DEF UnderWay, Answered

LEMMA EmitConn ==
  ASSUME ConnInv, Transport!Emit
  PROVE  ConnInv'
<1>1. /\ transportRun # Transport!Idle
      /\ transportRun' = [transportRun EXCEPT !.left = transportRun.left - 1, !.targets = lis]
      /\ heard' = [c \in Conns |-> heard[c] + (IF c \in Transport!Range(lis) THEN 1 ELSE 0)]
      /\ UNCHANGED <<transportPc, req, out, sendq, link, up, down, server, outq, task, lis,
                     transportSeen, due>>
  BY DEF Transport!Emit, Transport!clientVars, Transport!serverVars
<1>2. /\ transportRun' \in ARun
      /\ transportRun'.by = transportRun.by /\ transportRun'.targets = lis
  <2>1. transportRun \in ARun /\ lis \in Seq(Conns)
    BY DEF ConnInv, ConnTypes
  <2>2. transportRun.left - 1 \in Int
    BY <2>1 DEF ARun
  <2> DEFINE n == transportRun.left - 1
  <2>3. transportRun' = [transportRun EXCEPT !.left = n, !.targets = lis] /\ n \in Int
    BY <1>1, <2>2
  <2> HIDE DEF n
  <2>4. [transportRun EXCEPT !.left = n] \in ARun
    BY <2>1, <2>3 DEF ARun
  <2> QED BY <2>1, <2>3, <2>4 DEF ARun
<1>3. heard' \in [Conns -> Int]
  BY <1>1 DEF ConnInv, ConnTypes
<1>4. ConnTypes'
  BY <1>1, <1>2, <1>3 DEF ConnInv, ConnTypes
<1>5. SentFirst' /\ RunOk'
  BY <1>1, <1>2 DEF ConnInv, SentFirst, RunOk
<1> QED BY <1>1, <1>4, <1>5, ConnKept DEF UnderWay, Answered

LEMMA NotifyConn ==
  ASSUME ConnInv, Transport!Notify
  PROVE  ConnInv'
<1>0. transportRun.targets # <<>> /\ transportRun.targets \in Seq(Conns)
  BY DEF Transport!Notify, ConnInv, ConnTypes, ARun
<1> PICK c \in Conns : c = Head(transportRun.targets)
  BY <1>0, TailFacts
<1>1. /\ transportRun.targets # <<>>
      /\ UNCHANGED <<transportPc, req, out, sendq, link, up, down, server, lis, transportSeen,
                     due>>
  BY DEF Transport!Notify, Transport!clientVars
<1>2. \/ /\ outq' = [outq EXCEPT ![c] = Append(outq[c], Transport!NoteFrame)]
         /\ transportRun' = [transportRun EXCEPT !.targets = Tail(transportRun.targets)]
         /\ task' = task /\ heard' = heard
      \/ /\ transportRun' = Transport!Idle
         /\ task' = [task EXCEPT ![transportRun.by] = "refuse"]
         /\ heard' = [d \in Conns |-> heard[d] - (IF d \in Transport!Range(transportRun.targets)
                                                  THEN 1 ELSE 0)]
         /\ outq' = outq
  BY DEF Transport!Notify, Transport!Set, Transport!Push
<1>3. /\ transportRun \in ARun /\ transportRun.targets \in Seq(Conns)
      /\ Single(transportRun.targets, {})
  BY DEF ConnInv, ConnTypes, RunOk, ARun
<1>4. /\ transportRun # Transport!Idle
      /\ transportRun.by \in Reqs /\ task[transportRun.by] = "running"
  BY <1>1 DEF ConnInv, RunOk, Transport!Idle
<1>5. /\ c \in Conns /\ Tail(transportRun.targets) \in Seq(Conns)
      /\ Single(Tail(transportRun.targets), {})
  BY <1>1, <1>3, TailFacts, SingleTail
<1>6. CASE transportRun' = Transport!Idle
  <2>1. (Transport!Idle).by = 0 /\ (Reqs \cap {0} = {})
    BY ConnectionsAssumption DEF Transport!Idle, Transport!TransportAssumption
  <2>2. /\ task' = [task EXCEPT ![transportRun.by] = "refuse"]
        /\ heard' = [d \in Conns |-> heard[d] - (IF d \in Transport!Range(transportRun.targets)
                                                  THEN 1 ELSE 0)]
        /\ outq' = outq
    <3>1. [transportRun EXCEPT !.targets = Tail(transportRun.targets)].by = transportRun.by
      BY <1>3 DEF ARun
    <3> QED BY <1>2, <1>4, <1>6, <2>1, <3>1
  <2>3. heard' \in [Conns -> Int]
    BY <2>2 DEF ConnInv, ConnTypes
  <2> QED BY <1>1, <1>4, <1>6, <2>2, <2>3, IdlesConn DEF ConnInv, ConnTypes
<1>7. CASE transportRun' # Transport!Idle
  <2>1. /\ outq' = [outq EXCEPT ![c] = Append(outq[c], Transport!NoteFrame)]
        /\ transportRun' = [transportRun EXCEPT !.targets = Tail(transportRun.targets)]
        /\ task' = task /\ heard' = heard
    BY <1>2, <1>7
  <2>2. /\ transportRun' \in ARun /\ transportRun'.by = transportRun.by
        /\ transportRun'.targets = Tail(transportRun.targets)
    BY <1>3, <1>5, <2>1 DEF ARun
  <2>3. SentFirst' /\ RunOk'
    BY <1>1, <1>4, <1>5, <2>1, <2>2 DEF ConnInv, SentFirst, RunOk
  <2>4. /\ Transport!NoteFrame \in DownFrames(Reqs)
        /\ Transport!NoteFrame \in DownFrames(Answered(c)')
    BY DEF DownFrames
  <2>5. \A d \in Conns : UnderWay(d)' = UnderWay(d) /\ Answered(d)' = Answered(d)
    BY <1>1, <2>1 DEF UnderWay, Answered
  <2>6. /\ server' \in [Conns -> Ends]
        /\ task' \in [Reqs -> {"none", "handling", "running", "answer", "refuse", "close", "done"}]
        /\ heard' \in [Conns -> Int]
    BY <1>1, <2>1 DEF ConnInv, ConnTypes
  <2> QED BY <1>1, <1>5, <2>1, <2>2, <2>3, <2>4, <2>5, <2>6, SaysConn
<1> QED BY <1>6, <1>7

LEMMA RunEndsConn ==
  ASSUME ConnInv, Transport!RunEnds
  PROVE  ConnInv'
<1> DEFINE r == transportRun.by
<1>1. /\ transportRun # Transport!Idle /\ transportRun' = Transport!Idle
      /\ task' = [task EXCEPT ![r] = "answer"]
      /\ due' = [due EXCEPT ![r] = heard[req[r].conn]]
      /\ UNCHANGED <<transportPc, req, out, sendq, link, up, down, server, outq, lis, heard,
                     transportSeen>>
  BY DEF Transport!RunEnds, Transport!Set, Transport!clientVars
<1>2. r \in Reqs /\ task[r] = "running"
  BY <1>1 DEF ConnInv, RunOk
<1>3. transportPc[r] = "sent" /\ req[r].conn \in Conns
  BY <1>2 DEF ConnInv, SentFirst
<1>4. due' \in [Reqs -> Int]
  BY <1>1, <1>2, <1>3 DEF ConnInv, ConnTypes
<1> QED BY <1>1, <1>2, <1>4, IdlesConn DEF ConnInv, ConnTypes

LEMMA ConnNext == ConnInv /\ Transport!Next => ConnInv'
BY CallConn, SendConn, TimesOutConn, HandleConn, AnswerConn, ClosesConn, WritesConn, ReadsConn,
   BreakConn, ServerReadsConn, ServerEndsConn, ServerWritesConn, DroppedConn, EmitConn, NotifyConn,
   RunEndsConn DEF Transport!Next

-----------------------------------------------------------------------------
(* JsonRpcTransport: what a queue will have delivered.  Read from a count  *)
(* of a notifications, s leads to z, and an answer to a request of D comes *)
(* after as many as D says.                                                *)
Step(y) == IF y = Transport!NoteFrame THEN 1 ELSE 0

Delivers(s, a, z, D) ==
  \E n \in [0..Len(s) -> Int] :
     /\ n[0] = a /\ n[Len(s)] = z
     /\ \A i \in 1..Len(s) : n[i] = n[i - 1] + Step(s[i])
     /\ \A i \in 1..Len(s) : \A r \in DOMAIN D : s[i] = Transport!AnswerFrame(r, TRUE) => D[r] <= n[i]

LEMMA DeliversNothing == \A a \in Int : \A D : Delivers(<<>>, a, a, D)
<1> SUFFICES ASSUME NEW a \in Int, NEW D PROVE Delivers(<<>>, a, a, D)
  OBVIOUS
<1> DEFINE n == [i \in 0..0 |-> a]
<1>1. Len(<<>>) = 0
  OBVIOUS
<1>2. n \in [0..0 -> Int] /\ n[0] = a /\ 1..0 = {}
  OBVIOUS
<1> HIDE DEF n
<1>3. n \in [0..Len(<<>>) -> Int] /\ n[Len(<<>>)] = a /\ 1..Len(<<>>) = {}
  BY <1>1, <1>2
<1> QED BY <1>2, <1>3 DEF Delivers

LEMMA DeliversOther ==
  ASSUME NEW s, NEW a, NEW z, NEW D, NEW F, Delivers(s, a, z, D),
         \A r \in DOMAIN F : Transport!AnswerFrame(r, TRUE) \in Elems(s)
                             => r \in DOMAIN D /\ F[r] = D[r]
  PROVE  Delivers(s, a, z, F)
BY DEF Delivers, Elems

LEMMA DeliversAppend ==
  ASSUME NEW S, NEW s \in Seq(S), NEW y \in S, NEW a \in Int, NEW z \in Int, NEW D,
         Delivers(s, a, z, D),
         \A r \in DOMAIN D : y = Transport!AnswerFrame(r, TRUE) => D[r] <= z + Step(y)
  PROVE  Delivers(Append(s, y), a, z + Step(y), D)
<1> DEFINE t == Append(s, y)
           v == z + Step(y)
<1>1. PICK n \in [0..Len(s) -> Int] :
        /\ n[0] = a /\ n[Len(s)] = z
        /\ \A i \in 1..Len(s) : n[i] = n[i - 1] + Step(s[i])
        /\ \A i \in 1..Len(s) : \A r \in DOMAIN D : s[i] = Transport!AnswerFrame(r, TRUE) => D[r] <= n[i]
  BY DEF Delivers
<1>2. /\ Len(t) = Len(s) + 1 /\ Len(s) \in Nat
      /\ \A i \in 1..Len(s) : t[i] = s[i]
      /\ t[Len(s) + 1] = y
  BY AppendFacts
<1>3. v \in Int
  BY DEF Step
<1> HIDE DEF t
<1> DEFINE k == [i \in 0..Len(t) |-> IF i = Len(t) THEN v ELSE n[i]]
<1>4. k \in [0..Len(t) -> Int] /\ k[0] = a /\ k[Len(t)] = v
  BY <1>1, <1>2, <1>3
<1>5. ASSUME NEW i \in 1..Len(t) PROVE k[i] = k[i - 1] + Step(t[i])
  <2>1. CASE i = Len(t)
    BY <1>1, <1>2, <2>1
  <2>2. CASE i # Len(t)
    BY <1>1, <1>2, <2>2
  <2> QED BY <2>1, <2>2
<1>6. ASSUME NEW i \in 1..Len(t), NEW r \in DOMAIN D, t[i] = Transport!AnswerFrame(r, TRUE)
      PROVE  D[r] <= k[i]
  <2>1. CASE i = Len(t)
    <3>1. t[i] = y /\ k[i] = v
      BY <1>2, <2>1
    <3> QED BY <1>6, <3>1
  <2>2. CASE i # Len(t)
    <3>1. i \in 1..Len(s) /\ t[i] = s[i] /\ k[i] = n[i]
      BY <1>2, <2>2
    <3> HIDE DEF k
    <3> QED BY <1>1, <1>6, <3>1
  <2> QED BY <2>1, <2>2
<1> HIDE DEF k, v
<1>7. Delivers(t, a, v, D)
  BY <1>4, <1>5, <1>6 DEF Delivers
<1> QED BY <1>7 DEF t, v

LEMMA DeliversTail ==
  ASSUME NEW S, NEW s \in Seq(S), s # <<>>, NEW a \in Int, NEW z, NEW D, Delivers(s, a, z, D)
  PROVE  /\ Delivers(Tail(s), a + Step(Head(s)), z, D)
         /\ \A r \in DOMAIN D : Head(s) = Transport!AnswerFrame(r, TRUE) => D[r] <= a + Step(Head(s))
<1> DEFINE t == Tail(s)
           b == a + Step(Head(s))
<1>1. PICK n \in [0..Len(s) -> Int] :
        /\ n[0] = a /\ n[Len(s)] = z
        /\ \A i \in 1..Len(s) : n[i] = n[i - 1] + Step(s[i])
        /\ \A i \in 1..Len(s) : \A r \in DOMAIN D : s[i] = Transport!AnswerFrame(r, TRUE) => D[r] <= n[i]
  BY DEF Delivers
<1>2. /\ Len(t) = Len(s) - 1 /\ Len(s) \in Nat \ {0}
      /\ \A i \in 1..Len(s) - 1 : t[i] = s[i + 1]
      /\ Head(s) = s[1]
  BY TailFacts
<1> HIDE DEF t
<1> DEFINE k == [i \in 0..Len(t) |-> n[i + 1]]
<1>3. 1 \in 1..Len(s) /\ n[1] = b
  BY <1>1, <1>2
<1>4. k \in [0..Len(t) -> Int] /\ k[0] = b /\ k[Len(t)] = z
  <2>1. \A i \in 0..Len(t) : i + 1 \in 0..Len(s)
    BY <1>2
  <2> QED BY <1>1, <1>2, <1>3, <2>1
<1>5. ASSUME NEW i \in 1..Len(t) PROVE k[i] = k[i - 1] + Step(t[i])
  <2>1. i + 1 \in 1..Len(s) /\ (i + 1) - 1 = i /\ (i - 1) + 1 = i /\ i - 1 \in 0..Len(t)
        /\ i \in 0..Len(t)
    BY <1>2
  <2>2. n[i + 1] = n[i] + Step(s[i + 1]) /\ t[i] = s[i + 1]
    BY <1>1, <1>2, <2>1
  <2> QED BY <2>1, <2>2
<1>6. ASSUME NEW i \in 1..Len(t), NEW r \in DOMAIN D, t[i] = Transport!AnswerFrame(r, TRUE)
      PROVE  D[r] <= k[i]
  <2>1. i + 1 \in 1..Len(s) /\ i \in 0..Len(t)
    BY <1>2
  <2> QED BY <1>1, <1>2, <1>6, <2>1
<1>7. \A r \in DOMAIN D : Head(s) = Transport!AnswerFrame(r, TRUE) => D[r] <= b
  BY <1>1, <1>2, <1>3
<1> HIDE DEF k, b
<1>8. Delivers(t, b, z, D)
  BY <1>4, <1>5, <1>6 DEF Delivers
<1> QED BY <1>7, <1>8 DEF t, b

-----------------------------------------------------------------------------
(* JsonRpcTransport: the invariant.                                        *)

LEMMA OkFrames ==
  ASSUME NEW rs, NEW x \in DownFrames(rs), x.type = "answer"
  PROVE  x.id \in rs
<1>1. x # Transport!CloseFrame /\ x # Transport!NoteFrame
  BY Frames
<1>2. PICK r \in rs, a \in BOOLEAN : x = Transport!AnswerFrame(r, a)
  BY <1>1, Frames DEF DownFrames
<1>3. x.id = r
  BY <1>2, Frames
<1> QED BY <1>3

(* The events a prompt's answer comes after.                               *)
Owed == [r \in {q \in Reqs : req[q].kind = "prompt"} |-> due[r]]

(* The run still has to call the listener.                                 *)
Behind(c) == IF c \in Elems(transportRun.targets) THEN 1 ELSE 0
HeardSoFar(c) == heard[c] - Behind(c)

(* What is under way to a client brings it, in order, to every event its   *)
(* listener was called with; a prompt to be answered has no more.          *)
Flow(c) ==
  /\ link[c] = "broken" => down[c] = <<>>
  /\ link[c] = "up" =>
       \E m, z \in Int :
          /\ Delivers(down[c], transportSeen[c], m, Owed) /\ Delivers(outq[c], m, z, Owed)
          /\ server[c].writer =>
               /\ z = HeardSoFar(c)
               /\ \A r \in DOMAIN Owed : req[r].conn = c /\ task[r] = "answer" => Owed[r] <= z

(* The caller that was told "ok" had read as much.                         *)
OutOk ==
  \A r \in Reqs : out[r] = "ok" =>
     /\ task[r] \in {"close", "done"}
     /\ req[r].kind = "prompt" => transportSeen[req[r].conn] >= due[r]

TransportInv == ConnInv /\ OutOk /\ \A c \in Conns : Flow(c)

LEMMA OwedFacts ==
  /\ DOMAIN Owed = {q \in Reqs : req[q].kind = "prompt"}
  /\ \A r \in DOMAIN Owed : Owed[r] = due[r]
BY DEF Owed

(* A step that touches no frame under way to the client.                   *)
LEMMA FlowKept ==
  ASSUME ConnInv, NEW c \in Conns, Flow(c),
         down'[c] = down[c], outq'[c] = outq[c], transportSeen'[c] = transportSeen[c],
         link'[c] = link[c], server'[c].writer = server[c].writer,
         HeardSoFar(c)' = HeardSoFar(c),
         \A r \in DOMAIN (Owed') : r \in Answered(c) => r \in DOMAIN Owed /\ Owed'[r] = Owed[r],
         \A r \in DOMAIN (Owed') : req'[r].conn = c /\ task'[r] = "answer" =>
            \/ req[r].conn = c /\ task[r] = "answer" /\ r \in DOMAIN Owed /\ Owed'[r] = Owed[r]
            \/ Owed'[r] <= HeardSoFar(c)
  PROVE  Flow(c)'
<1>1. CASE link[c] = "broken"
  BY <1>1 DEF Flow
<1>2. CASE link[c] = "up"
  <2>1. PICK m \in Int, z \in Int :
          /\ Delivers(down[c], transportSeen[c], m, Owed) /\ Delivers(outq[c], m, z, Owed)
          /\ server[c].writer =>
               /\ z = HeardSoFar(c)
               /\ \A r \in DOMAIN Owed : req[r].conn = c /\ task[r] = "answer" => Owed[r] <= z
    BY <1>2 DEF Flow
  <2>2. \A r : Transport!AnswerFrame(r, TRUE) \in Elems(down[c]) \cup Elems(outq[c])
               => r \in Answered(c)
    <3> SUFFICES ASSUME NEW r,
                        Transport!AnswerFrame(r, TRUE) \in Elems(down[c]) \cup Elems(outq[c])
                 PROVE  r \in Answered(c)
      OBVIOUS
    <3>1. Transport!AnswerFrame(r, TRUE) \in DownFrames(Answered(c))
      BY DEF ConnInv, Told
    <3>2. /\ Transport!AnswerFrame(r, TRUE).type = "answer"
          /\ Transport!AnswerFrame(r, TRUE).id = r
      BY DEF Transport!AnswerFrame
    <3> HIDE DEF Transport!AnswerFrame
    <3>3. Transport!AnswerFrame(r, TRUE).id \in Answered(c)
      BY <3>1, <3>2, OkFrames
    <3> QED BY <3>2, <3>3
  <2> DEFINE F == Owed'
  <2>3. \A r \in DOMAIN F : r \in Answered(c) => r \in DOMAIN Owed /\ F[r] = Owed[r]
    OBVIOUS
  <2>4. \A r \in DOMAIN F : req'[r].conn = c /\ task'[r] = "answer" =>
            \/ req[r].conn = c /\ task[r] = "answer" /\ r \in DOMAIN Owed /\ F[r] = Owed[r]
            \/ F[r] <= HeardSoFar(c)
    OBVIOUS
  <2> HIDE DEF F
  <2>5. Delivers(down[c], transportSeen[c], m, F)
    BY <2>1, <2>2, <2>3, DeliversOther
  <2>6. Delivers(outq[c], m, z, F)
    BY <2>1, <2>2, <2>3, DeliversOther
  <2>7. server[c].writer => \A r \in DOMAIN F : req'[r].conn = c /\ task'[r] = "answer" => F[r] <= z
    BY <2>1, <2>4
  <2>8. link'[c] # "broken"
    BY <1>2
  <2> QED BY <2>1, <2>5, <2>6, <2>7, <2>8 DEF Flow, F
<1> QED BY <1>1, <1>2 DEF ConnInv, ConnTypes

(* Most steps: what is owed stays, and so does what is told.               *)
LEMMA KeepsFlow ==
  ASSUME TransportInv,
         UNCHANGED <<req, down, outq, link, due>>,
         \A c \in Conns : server'[c].writer = server[c].writer /\ HeardSoFar(c)' = HeardSoFar(c),
         transportSeen' = transportSeen,
         \A r \in Reqs : task'[r] = "answer" /\ req[r].kind = "prompt" => task[r] = "answer",
         \A r \in Reqs : task[r] \in {"close", "done"} => task'[r] \in {"close", "done"},
         \A r \in Reqs : out'[r] = "ok" => out[r] = "ok"
  PROVE  OutOk' /\ \A c \in Conns : Flow(c)'
<1>1. Owed' = Owed
  BY DEF Owed
<1>2. ASSUME NEW c \in Conns PROVE Flow(c)'
  BY <1>1, OwedFacts, FlowKept DEF TransportInv
<1>3. OutOk'
  BY DEF TransportInv, OutOk
<1> QED BY <1>2, <1>3

LEMMA FlowInit == Transport!Init => TransportInv
<1> SUFFICES ASSUME Transport!Init PROVE TransportInv
  OBVIOUS
<1>1. OutOk
  BY DEF Transport!Init, OutOk
<1>2. ASSUME NEW c \in Conns PROVE Flow(c)
  <2>1. /\ down[c] = <<>> /\ outq[c] = <<>> /\ transportSeen[c] = 0 /\ heard[c] = 0
        /\ transportRun.targets = <<>> /\ \A r \in Reqs : task[r] = "none"
    BY DEF Transport!Init, Transport!Idle
  <2>2. HeardSoFar(c) = 0
    <3>1. Elems(transportRun.targets) = {}
      BY <2>1, EmptyElems
    <3>2. Behind(c) = 0
      BY <3>1 DEF Behind
    <3> QED BY <2>1, <3>2 DEF HeardSoFar
  <2>3. Delivers(<<>>, 0, 0, Owed)
    BY DeliversNothing
  <2>4. \A r \in DOMAIN Owed : task[r] # "answer"
    BY <2>1, OwedFacts
  <2> QED BY <2>1, <2>2, <2>3, <2>4 DEF Flow
<1> QED BY <1>1, <1>2, ConnInit DEF TransportInv

LEMMA CallFlow ==
  ASSUME TransportInv, NEW r \in Reqs, NEW c \in Conns, NEW k \in Transport!Kinds,
         Transport!Call(r, c, k)
  PROVE  OutOk' /\ \A d \in Conns : Flow(d)'
<1>1. /\ transportPc[r] = "unused"
      /\ req' = [req EXCEPT ![r] = [conn |-> c, kind |-> k]]
      /\ UNCHANGED <<out, link, down, server, outq, task, transportRun, heard, transportSeen, due>>
  BY DEF Transport!Call, Transport!Set, Transport!serverVars
<1>2. task[r] = "none" /\ ConnTypes
  BY <1>1 DEF TransportInv, ConnInv, SentFirst
<1>3. \A q \in Reqs : q # r => req'[q] = req[q]
  BY <1>1, <1>2 DEF ConnTypes
<1>4. OutOk'
  BY <1>1, <1>2, <1>3 DEF TransportInv, OutOk
<1>5. /\ DOMAIN Owed' = {q \in Reqs : req'[q].kind = "prompt"}
      /\ \A q \in DOMAIN (Owed') : Owed'[q] = due[q]
  BY <1>1 DEF Owed
<1>6. \A q \in DOMAIN (Owed') : q # r => q \in DOMAIN Owed /\ Owed'[q] = Owed[q]
  BY <1>3, <1>5, OwedFacts
<1>7. ASSUME NEW d \in Conns PROVE Flow(d)'
  <2>1. HeardSoFar(d)' = HeardSoFar(d)
    BY <1>1 DEF HeardSoFar, Behind
  <2>2. r \notin Answered(d)
    BY <1>2 DEF Answered
  <2>3. \A q \in DOMAIN (Owed') : q \in Reqs /\ (req'[q].conn = d /\ task'[q] = "answer" =>
           q # r /\ req[q].conn = d /\ task[q] = "answer")
    BY <1>1, <1>2, <1>3, <1>5
  <2> QED BY <1>1, <1>6, <2>1, <2>2, <2>3, FlowKept DEF TransportInv
<1> QED BY <1>4, <1>7

LEMMA SendFlow ==
  ASSUME TransportInv, NEW r \in Reqs, Transport!Send(r) \/ Transport!RequestTimesOut(r)
  PROVE  OutOk' /\ \A d \in Conns : Flow(d)'
<1>1. UNCHANGED <<req, link, down, server, outq, task, transportRun, heard, transportSeen, due>>
  BY DEF Transport!Send, Transport!RequestTimesOut, Transport!serverVars
<1>2. \/ out' = out \/ out' = [out EXCEPT ![r] = "closed"] \/ out' = [out EXCEPT ![r] = "timeout"]
  BY DEF Transport!Send, Transport!RequestTimesOut, Transport!Set
<1>3. \A q \in Reqs : out'[q] = "ok" => out[q] = "ok"
  BY <1>2 DEF TransportInv, ConnInv, ConnTypes
<1>4. \A d \in Conns : HeardSoFar(d)' = HeardSoFar(d)
  BY <1>1 DEF HeardSoFar, Behind
<1> QED BY <1>1, <1>3, <1>4, KeepsFlow

LEMMA ToldOk ==
  \A rs, what : \A q \in Reqs : Transport!Told(rs, what)[q] = out[q]
                                \/ (q \in rs /\ Transport!Told(rs, what)[q] = what)
BY DEF Transport!Told

LEMMA ClientFlow ==
  ASSUME TransportInv, NEW c \in Conns, Transport!ClientCloses(c) \/ Transport!ClientWrites(c)
  PROVE  OutOk' /\ \A d \in Conns : Flow(d)'
<1>1. UNCHANGED <<req, link, down, server, outq, task, transportRun, heard, transportSeen, due>>
  BY DEF Transport!ClientCloses, Transport!ClientWrites, Transport!serverVars
<1>2. out' = out \/ \E rs : out' = Transport!Told(rs, "closed")
  BY DEF Transport!ClientCloses, Transport!ClientWrites, Transport!WriteFails, Transport!Drain
<1>3. \A q \in Reqs : out'[q] = "ok" => out[q] = "ok"
  BY <1>2, ToldOk
<1>4. \A d \in Conns : HeardSoFar(d)' = HeardSoFar(d)
  BY <1>1 DEF HeardSoFar, Behind
<1> QED BY <1>1, <1>3, <1>4, KeepsFlow

LEMMA BreakFlow ==
  ASSUME TransportInv, NEW c \in Conns, Transport!Break(c)
  PROVE  OutOk' /\ \A d \in Conns : Flow(d)'
<1>1. /\ link' = [link EXCEPT ![c] = "broken"] /\ down' = [down EXCEPT ![c] = <<>>]
      /\ UNCHANGED <<req, out, server, outq, task, transportRun, heard, transportSeen, due>>
  BY DEF Transport!Break, Transport!Set, Transport!clientVars, Transport!serverVars
<1>2. Owed' = Owed
  BY <1>1 DEF Owed
<1>3. ASSUME NEW d \in Conns PROVE Flow(d)'
  <2>1. CASE d = c
    BY <1>1, <2>1 DEF TransportInv, ConnInv, ConnTypes, Flow
  <2>2. CASE d # c
    <3>1. down'[d] = down[d] /\ link'[d] = link[d]
      BY <1>1, <2>2 DEF TransportInv, ConnInv, ConnTypes
    <3>2. HeardSoFar(d)' = HeardSoFar(d)
      BY <1>1 DEF HeardSoFar, Behind
    <3> QED BY <1>1, <1>2, <3>1, <3>2, FlowKept DEF TransportInv
  <2> QED BY <2>1, <2>2
<1>4. OutOk'
  BY <1>1 DEF TransportInv, OutOk
<1> QED BY <1>3, <1>4

LEMMA ReadsFlow ==
  ASSUME TransportInv, NEW c \in Conns, Transport!ClientReads(c)
  PROVE  OutOk' /\ \A d \in Conns : Flow(d)'
<1> DEFINE x == Head(down[c])
<1>1. UNCHANGED <<req, link, server, outq, task, transportRun, heard, due>>
  BY DEF Transport!ClientReads, Transport!serverVars
<1>2. \/ /\ down[c] # <<>> /\ down' = [down EXCEPT ![c] = Tail(down[c])]
         /\ \/ /\ x.type = "note" /\ out' = out
               /\ transportSeen' = [transportSeen EXCEPT ![c] = transportSeen[c] + 1]
            \/ /\ x.type = "answer" /\ transportSeen' = transportSeen
               /\ \E rs : /\ rs \subseteq {x.id}
                          /\ out' = Transport!Told(rs, IF x.ok THEN "ok" ELSE "error")
            \/ /\ x.type = "close" /\ transportSeen' = transportSeen
               /\ \E rs : out' = Transport!Told(rs, "closed")
      \/ /\ down' = down /\ transportSeen' = transportSeen
         /\ \E rs : out' = Transport!Told(rs, "closed")
  <2> HIDE DEF x
  <2> QED BY DEF Transport!ClientReads, Transport!ReaderEnds, Transport!Drain, Transport!Pop, x
<1>3. Owed' = Owed /\ \A d \in Conns : HeardSoFar(d)' = HeardSoFar(d)
  BY <1>1 DEF Owed, HeardSoFar, Behind
<1>4. CASE down' = down /\ transportSeen' = transportSeen /\ \E rs : out' = Transport!Told(rs, "closed")
  <2>1. \A q \in Reqs : out'[q] = "ok" => out[q] = "ok"
    BY <1>4, ToldOk
  <2> QED BY <1>1, <1>3, <1>4, <2>1, KeepsFlow
<1>5. CASE down[c] # <<>> /\ down' = [down EXCEPT ![c] = Tail(down[c])]
  <2>1. /\ down[c] \in Seq(DownFrames(Reqs)) /\ link[c] \in {"up", "broken"}
        /\ transportSeen \in [Conns -> Int] /\ down \in [Conns -> Seq(DownFrames(Reqs))]
    BY DEF TransportInv, ConnInv, ConnTypes
  <2>2. PICK m \in Int, z \in Int :
          /\ Delivers(down[c], transportSeen[c], m, Owed) /\ Delivers(outq[c], m, z, Owed)
          /\ server[c].writer =>
               /\ z = HeardSoFar(c)
               /\ \A r \in DOMAIN Owed : req[r].conn = c /\ task[r] = "answer" => Owed[r] <= z
    BY <1>5, <2>1 DEF TransportInv, Flow
  <2>3. x \in DownFrames(Answered(c))
    BY <1>5, <2>1, TailFacts DEF TransportInv, ConnInv, Told
  <2> HIDE DEF x
  <2>4. transportSeen'[c] = transportSeen[c] + Step(x)
    <3>1. x.type = "note" <=> x = Transport!NoteFrame
      BY <2>3, Frames DEF DownFrames
    <3>2. x.type = "note" => transportSeen'[c] = transportSeen[c] + 1
      BY <1>2, <1>5, <2>1
    <3>3. x.type # "note" => transportSeen' = transportSeen
      BY <1>2
    <3> QED BY <2>1, <3>1, <3>2, <3>3 DEF Step
  <2>5. /\ Delivers(Tail(down[c]), transportSeen'[c], m, Owed)
        /\ \A r \in DOMAIN Owed : x = Transport!AnswerFrame(r, TRUE) => Owed[r] <= transportSeen'[c]
    BY <1>5, <2>1, <2>2, <2>4, DeliversTail DEF x
  <2>6. Flow(c)'
    <3>1. down'[c] = Tail(down[c])
      BY <1>5, <2>1
    <3>2. link[c] # "broken" /\ HeardSoFar(c)' = HeardSoFar(c)
      BY <1>3, <1>5 DEF TransportInv, Flow
    <3> QED BY <1>1, <1>3, <2>2, <2>5, <3>1, <3>2 DEF Flow
  <2>7. \A d \in Conns : d # c => down'[d] = down[d] /\ transportSeen'[d] = transportSeen[d]
    BY <1>2, <1>5, <2>1
  <2>8. ASSUME NEW d \in Conns, d # c PROVE Flow(d)'
    <3>1. down'[d] = down[d] /\ transportSeen'[d] = transportSeen[d]
      BY <2>7, <2>8
    <3>2. Owed' = Owed /\ HeardSoFar(d)' = HeardSoFar(d)
      BY <1>3
    <3> QED BY <1>1, <3>1, <3>2, FlowKept DEF TransportInv
  <2>9. OutOk'
    <3> SUFFICES ASSUME NEW r \in Reqs, out'[r] = "ok"
                 PROVE  /\ task[r] \in {"close", "done"}
                        /\ req[r].kind = "prompt" => transportSeen'[req[r].conn] >= due[r]
      BY <1>1 DEF OutOk
    <3>1. CASE out[r] = "ok"
      <4>1. /\ task[r] \in {"close", "done"}
            /\ req[r].kind = "prompt" => transportSeen[req[r].conn] >= due[r]
        BY <3>1 DEF TransportInv, OutOk
      <4>2. req[r].conn \in Conns /\ due[r] \in Int
        BY <4>1 DEF TransportInv, ConnInv, ConnTypes, SentFirst
      <4>3. transportSeen'[req[r].conn] >= transportSeen[req[r].conn]
        BY <2>1, <2>4, <2>7, <4>2 DEF Step
      <4>4. /\ transportSeen[req[r].conn] \in Int /\ transportSeen'[req[r].conn] \in Int
        BY <2>1, <2>4, <2>7, <4>2 DEF Step
      <4> QED BY <4>1, <4>2, <4>3, <4>4
    <3>2. CASE out[r] # "ok"
      <4>1. x.type = "answer" /\ x.id = r /\ x.ok
        BY <1>2, <3>2, ToldOk
      <4>2. PICK q \in Answered(c), a \in BOOLEAN : x = Transport!AnswerFrame(q, a)
        BY <2>3, <4>1, Frames DEF DownFrames
      <4>3. q = r /\ a = TRUE
        BY <4>1, <4>2, Frames
      <4>4. req[r].conn = c /\ task[r] \in {"close", "done"}
        BY <4>2, <4>3 DEF Answered
      <4>5. req[r].kind = "prompt" => due[r] <= transportSeen'[c]
        BY <2>5, <4>2, <4>3, OwedFacts
      <4>6. due[r] \in Int /\ transportSeen'[c] \in Int
        BY <2>1, <2>4 DEF TransportInv, ConnInv, ConnTypes, Step
      <4> QED BY <4>4, <4>5, <4>6
    <3> QED BY <3>1, <3>2
  <2> QED BY <2>6, <2>8, <2>9
<1> QED BY <1>2, <1>4, <1>5

LEMMA ReaderOnly ==
  ASSUME server \in [Conns -> Ends], NEW c \in Conns, NEW v,
         server' = server \/ server' = [server EXCEPT ![c].reader = v]
  PROVE  \A d \in Conns : server'[d].writer = server[d].writer
<1> SUFFICES ASSUME NEW d \in Conns PROVE server'[d].writer = server[d].writer
  OBVIOUS
<1>1. server[d] \in Ends
  OBVIOUS
<1>2. [server[d] EXCEPT !.reader = v].writer = server[d].writer
  BY <1>1 DEF Ends
<1> QED BY <1>2

LEMMA ServerReadsFlow ==
  ASSUME TransportInv, NEW c \in Conns, Transport!ServerReads(c)
  PROVE  OutOk' /\ \A d \in Conns : Flow(d)'
<1> DEFINE x == Head(up[c])
<1>1. UNCHANGED <<req, out, link, down, outq, transportRun, heard, transportSeen, due>>
  BY DEF Transport!ServerReads, Transport!clientVars
<1>2. /\ server' = server \/ server' = [server EXCEPT ![c].reader = "ending"]
      /\ \/ task' = task
         \/ up[c] # <<>> /\ x.type = "request" /\ task' = [task EXCEPT ![x.id] = "handling"]
  BY DEF Transport!ServerReads, Transport!Set
<1>3. \A d \in Conns : server'[d].writer = server[d].writer
  BY <1>2, ReaderOnly DEF TransportInv, ConnInv, ConnTypes
<1>4. \A d \in Conns : HeardSoFar(d)' = HeardSoFar(d)
  BY <1>1 DEF HeardSoFar, Behind
<1>5. \A r \in Reqs : task'[r] = task[r] \/ (task[r] = "none" /\ task'[r] = "handling")
  <2>1. CASE task' = task
    BY <2>1
  <2>2. CASE up[c] # <<>> /\ x.type = "request" /\ task' = [task EXCEPT ![x.id] = "handling"]
    <3>1. x \in UpFrames(UnderWay(c))
      BY <2>2, TailFacts DEF TransportInv, ConnInv, ConnTypes, Asked
    <3> HIDE DEF x
    <3>2. x # Transport!CloseFrame
      BY <2>2, Frames
    <3>3. PICK q \in UnderWay(c) : x = Transport!RequestFrame(q)
      BY <3>1, <3>2 DEF UpFrames
    <3>4. x.id = q
      BY <3>3, Frames
    <3>5. task[q] = "none"
      BY DEF UnderWay
    <3> QED BY <2>2, <3>4, <3>5 DEF TransportInv, ConnInv, ConnTypes
  <2> QED BY <1>2, <2>1, <2>2
<1> QED BY <1>1, <1>3, <1>4, <1>5, KeepsFlow

LEMMA HandleFlow ==
  ASSUME TransportInv, NEW r \in Reqs, Transport!Handle(r)
  PROVE  OutOk' /\ \A d \in Conns : Flow(d)'
<1>1. /\ task[r] = "handling"
      /\ UNCHANGED <<req, out, link, down, server, outq, heard, transportSeen, due>>
  BY DEF Transport!Handle, Transport!clientVars
<1>2. /\ \/ req[r].kind # "prompt" /\ task' = [task EXCEPT ![r] = "answer"]
         \/ task' = [task EXCEPT ![r] = "refuse"]
         \/ task' = [task EXCEPT ![r] = "running"]
      /\ transportRun'.targets = transportRun.targets
  BY DEF Transport!Handle, Transport!Set, Transport!Idle
<1>3. \A d \in Conns : HeardSoFar(d)' = HeardSoFar(d)
  BY <1>1, <1>2 DEF HeardSoFar, Behind
<1>4. /\ \A q \in Reqs : task'[q] = "answer" /\ req[q].kind = "prompt" => task[q] = "answer"
      /\ \A q \in Reqs : task[q] \in {"close", "done"} => task'[q] \in {"close", "done"}
  BY <1>1, <1>2 DEF TransportInv, ConnInv, ConnTypes
<1> QED BY <1>1, <1>3, <1>4, KeepsFlow

LEMMA EmitFlow ==
  ASSUME TransportInv, Transport!Emit \/ \E c \in Conns : Transport!Dropped(c)
  PROVE  OutOk' /\ \A d \in Conns : Flow(d)'
<1>1. UNCHANGED <<req, out, link, down, server, outq, task, transportSeen, due>>
  BY DEF Transport!Emit, Transport!Dropped, Transport!clientVars, Transport!serverVars
<1>2. \A d \in Conns : HeardSoFar(d)' = HeardSoFar(d)
  <2>1. CASE Transport!Emit
    <3>1. /\ transportRun.targets = <<>>
          /\ transportRun' = [transportRun EXCEPT !.left = transportRun.left - 1, !.targets = lis]
          /\ heard' = [c \in Conns |-> heard[c] + (IF c \in Transport!Range(lis) THEN 1 ELSE 0)]
      BY <2>1 DEF Transport!Emit
    <3>2. /\ transportRun \in ARun /\ lis \in Seq(Conns) /\ heard \in [Conns -> Int]
          /\ Transport!Range(lis) = Elems(lis)
      BY ListenersConn DEF TransportInv, ConnInv, ConnTypes, RunOk
    <3>3. transportRun'.targets = lis
      BY <3>1, <3>2 DEF ARun
    <3>4. \A d \in Conns : Behind(d) = 0 /\ Behind(d)' = IF d \in Elems(lis) THEN 1 ELSE 0
      <4>1. Elems(transportRun.targets) = {}
        BY <3>1, EmptyElems
      <4> QED BY <3>3, <4>1 DEF Behind
    <3> QED BY <3>1, <3>2, <3>4 DEF HeardSoFar
  <2>2. CASE \E c \in Conns : Transport!Dropped(c)
    BY <2>2 DEF Transport!Dropped, HeardSoFar, Behind
  <2> QED BY <2>1, <2>2
<1> QED BY <1>1, <1>2, KeepsFlow

(* A step that says y to a client.                                         *)
LEMMA SaysFlow ==
  ASSUME TransportInv, NEW c \in Conns, NEW y \in DownFrames(Reqs), server[c].writer,
         UNCHANGED <<req, out, link, down, transportSeen, due>>,
         outq' = [outq EXCEPT ![c] = Append(outq[c], y)],
         \A d \in Conns : /\ server'[d].writer = server[d].writer
                          /\ HeardSoFar(d)' = HeardSoFar(d) + (IF d = c THEN Step(y) ELSE 0),
         \A r \in Reqs : y = Transport!AnswerFrame(r, TRUE) => req[r].conn = c /\ task[r] = "answer",
         \A r \in Reqs : task'[r] = "answer" /\ req[r].kind = "prompt" => task[r] = "answer",
         \A r \in Reqs : task[r] \in {"close", "done"} => task'[r] \in {"close", "done"}
  PROVE  OutOk' /\ \A d \in Conns : Flow(d)'
<1>1. Owed' = Owed
  BY DEF Owed
<1>2. OutOk'
  BY DEF TransportInv, OutOk
<1>3. heard \in [Conns -> Int] /\ \A d \in Conns : HeardSoFar(d) \in Int
  BY DEF TransportInv, ConnInv, ConnTypes, HeardSoFar, Behind
<1>4. ASSUME NEW d \in Conns, d # c PROVE Flow(d)'
  <2>1. outq'[d] = outq[d] /\ HeardSoFar(d)' = HeardSoFar(d)
    BY <1>3, <1>4 DEF TransportInv, ConnInv, ConnTypes
  <2> QED BY <1>1, <2>1, OwedFacts, FlowKept DEF TransportInv
<1>5. Flow(c)'
  <2>1. CASE link[c] = "broken"
    BY <2>1 DEF TransportInv, Flow
  <2>2. CASE link[c] = "up"
    <3>1. PICK m \in Int, z \in Int :
            /\ Delivers(down[c], transportSeen[c], m, Owed) /\ Delivers(outq[c], m, z, Owed)
            /\ server[c].writer =>
                 /\ z = HeardSoFar(c)
                 /\ \A r \in DOMAIN Owed : req[r].conn = c /\ task[r] = "answer" => Owed[r] <= z
      BY <2>2 DEF TransportInv, Flow
    <3>2. /\ outq[c] \in Seq(DownFrames(Reqs)) /\ outq'[c] = Append(outq[c], y)
          /\ due \in [Reqs -> Int]
      BY DEF TransportInv, ConnInv, ConnTypes
    <3>3. Step(y) \in {0, 1}
      BY DEF Step
    <3>4. \A r \in DOMAIN Owed : Owed[r] \in Int /\ r \in Reqs
      BY <3>2, OwedFacts
    <3>5. ASSUME NEW r \in DOMAIN Owed, y = Transport!AnswerFrame(r, TRUE)
          PROVE  Owed[r] <= z + Step(y)
      <4>1. req[r].conn = c /\ task[r] = "answer"
        BY <3>4, <3>5
      <4>2. Owed[r] <= z
        BY <3>1, <4>1
      <4> QED BY <3>3, <3>4, <4>2
    <3>6. Delivers(outq'[c], m, z + Step(y), Owed)
      <4> DEFINE D == Owed
      <4>1. \A r \in DOMAIN D : y = Transport!AnswerFrame(r, TRUE) => D[r] <= z + Step(y)
        BY <3>5
      <4>2. Delivers(outq[c], m, z, D)
        BY <3>1
      <4> HIDE DEF D
      <4>3. Delivers(Append(outq[c], y), m, z + Step(y), D)
        BY <3>2, <4>1, <4>2, DeliversAppend
      <4> QED BY <3>2, <4>3 DEF D
    <3>7. z + Step(y) = HeardSoFar(c)' /\ z + Step(y) \in Int
      BY <3>1, <3>3
    <3>8. \A r \in DOMAIN Owed : req[r].conn = c /\ task'[r] = "answer" => Owed[r] <= z + Step(y)
      <4>1. \A r \in DOMAIN Owed : task'[r] = "answer" => task[r] = "answer"
        BY OwedFacts
      <4> QED BY <3>1, <3>3, <3>4, <4>1
    <3>9. link'[c] # "broken"
      BY <2>2
    <3> QED BY <1>1, <3>1, <3>6, <3>7, <3>8, <3>9 DEF Flow
  <2> QED BY <2>1, <2>2 DEF TransportInv, ConnInv, ConnTypes
<1> QED BY <1>2, <1>4, <1>5

LEMMA ServerEndsFlow ==
  ASSUME TransportInv, NEW c \in Conns, Transport!ServerEnds(c)
  PROVE  OutOk' /\ \A d \in Conns : Flow(d)'
<1>1. UNCHANGED <<req, out, link, down, task, transportRun, heard, transportSeen, due>>
  BY DEF Transport!ServerEnds, Transport!clientVars
<1>2. /\ \/ server[c].writer /\ outq' = [outq EXCEPT ![c] = Append(outq[c], Transport!CloseFrame)]
         \/ outq' = outq
      /\ \/ server' = [server EXCEPT ![c].reader = "awaiting"]
         \/ server' = [server EXCEPT ![c].reader = "gone"]
  BY DEF Transport!ServerEnds, Transport!Push
<1>3. \A d \in Conns : server'[d].writer = server[d].writer
  <2>1. server \in [Conns -> Ends]
    BY DEF TransportInv, ConnInv, ConnTypes
  <2>2. CASE server' = [server EXCEPT ![c].reader = "awaiting"]
    BY <2>1, <2>2, ReaderOnly
  <2>3. CASE server' = [server EXCEPT ![c].reader = "gone"]
    BY <2>1, <2>3, ReaderOnly
  <2> QED BY <1>2, <2>2, <2>3
<1>4. \A d \in Conns : HeardSoFar(d)' = HeardSoFar(d)
  BY <1>1 DEF HeardSoFar, Behind
<1>5. CASE outq' = outq
  BY <1>1, <1>3, <1>4, <1>5, KeepsFlow
<1>6. CASE server[c].writer /\ outq' = [outq EXCEPT ![c] = Append(outq[c], Transport!CloseFrame)]
  <2>1. Transport!CloseFrame \in DownFrames(Reqs) /\ Step(Transport!CloseFrame) = 0
    BY Frames DEF DownFrames, Step
  <2>2. \A d \in Conns : HeardSoFar(d)' = HeardSoFar(d)
                                          + (IF d = c THEN Step(Transport!CloseFrame) ELSE 0)
    BY <1>4, <2>1 DEF TransportInv, ConnInv, ConnTypes, HeardSoFar, Behind
  <2>3. \A r : Transport!CloseFrame # Transport!AnswerFrame(r, TRUE)
    BY Frames
  <2> QED BY <1>1, <1>3, <1>6, <2>1, <2>2, <2>3, SaysFlow
<1> QED BY <1>2, <1>5, <1>6

LEMMA AnswerFlow ==
  ASSUME TransportInv, NEW r \in Reqs, Transport!Answer(r)
  PROVE  OutOk' /\ \A d \in Conns : Flow(d)'
<1> DEFINE y == Transport!Reply(r, task[r])
<1>0. task[r] \in {"answer", "refuse", "close"}
  BY DEF Transport!Answer
<1> PICK c \in Conns : c = req[r].conn
  BY <1>0 DEF TransportInv, ConnInv, SentFirst
<1>1. UNCHANGED <<req, out, link, down, transportRun, heard, transportSeen, due>>
  BY DEF Transport!Answer, Transport!clientVars
<1>2. /\ \/ task' = [task EXCEPT ![r] = "close"] \/ task' = [task EXCEPT ![r] = "done"]
      /\ outq' = outq \/ (server[c].writer /\ outq' = [outq EXCEPT ![c] = Append(outq[c], y)])
      /\ server' = server \/ server' = [server EXCEPT ![c].reader = "awaiting"]
  BY DEF Transport!Answer, Transport!Set, Transport!Push
<1>3. \A d \in Conns : server'[d].writer = server[d].writer
  BY <1>2, ReaderOnly DEF TransportInv, ConnInv, ConnTypes
<1>4. \A d \in Conns : HeardSoFar(d)' = HeardSoFar(d)
  BY <1>1 DEF HeardSoFar, Behind
<1>5. /\ \A q \in Reqs : task'[q] = "answer" => task[q] = "answer"
      /\ \A q \in Reqs : task[q] \in {"close", "done"} => task'[q] \in {"close", "done"}
  BY <1>2 DEF TransportInv, ConnInv, ConnTypes
<1>6. CASE outq' = outq
  BY <1>1, <1>3, <1>4, <1>5, <1>6, KeepsFlow
<1>7. CASE server[c].writer /\ outq' = [outq EXCEPT ![c] = Append(outq[c], y)]
  <2>1. \/ y = Transport!CloseFrame
        \/ \E a \in BOOLEAN : /\ y = Transport!AnswerFrame(r, a)
                              /\ a = TRUE => task[r] = "answer"
    BY DEF Transport!Reply
  <2> HIDE DEF y
  <2>2. y \in DownFrames(Reqs) /\ Step(y) = 0
    BY <2>1, Frames DEF DownFrames, Step
  <2>3. ASSUME NEW q \in Reqs, y = Transport!AnswerFrame(q, TRUE)
        PROVE  req[q].conn = c /\ task[q] = "answer"
    <3>1. y.type = "answer" /\ y.id = q /\ y.ok = TRUE
      BY <2>3 DEF Transport!AnswerFrame
    <3>2. PICK a \in BOOLEAN : y = Transport!AnswerFrame(r, a) /\ (a = TRUE => task[r] = "answer")
      BY <2>1, <3>1, Frames
    <3>3. y.id = r /\ y.ok = a
      BY <3>2, Frames
    <3> QED BY <3>1, <3>2, <3>3
  <2>4. \A d \in Conns : HeardSoFar(d)' = HeardSoFar(d) + (IF d = c THEN Step(y) ELSE 0)
    BY <1>4, <2>2 DEF TransportInv, ConnInv, ConnTypes, HeardSoFar, Behind
  <2> QED BY <1>1, <1>3, <1>5, <1>7, <2>2, <2>3, <2>4, SaysFlow
<1> QED BY <1>2, <1>6, <1>7

LEMMA ServerWritesFlow ==
  ASSUME TransportInv, NEW c \in Conns, Transport!ServerWrites(c)
  PROVE  OutOk' /\ \A d \in Conns : Flow(d)'
<1> DEFINE x == Head(outq[c])
           b == x.type # "close"
<1>1. /\ server[c].writer /\ outq[c] # <<>>
      /\ UNCHANGED <<req, out, link, task, transportRun, heard, transportSeen, due>>
  BY DEF Transport!ServerWrites, Transport!clientVars
<1>2. \/ /\ down' = IF link[c] = "up" THEN [down EXCEPT ![c] = Append(down[c], x)] ELSE down
         /\ server' = [server EXCEPT ![c].writer = b]
         /\ outq' = [outq EXCEPT ![c] = IF b THEN Tail(outq[c]) ELSE <<>>]
      \/ /\ link[c] = "broken" /\ down' = down
         /\ server' = [server EXCEPT ![c].writer = FALSE] /\ outq' = [outq EXCEPT ![c] = <<>>]
  BY DEF Transport!ServerWrites, Transport!Set, Transport!Push, Transport!Pop
<1>3. /\ outq[c] \in Seq(DownFrames(Reqs)) /\ down[c] \in Seq(DownFrames(Reqs))
      /\ server \in [Conns -> Ends] /\ transportSeen[c] \in Int /\ link[c] \in {"up", "broken"}
      /\ outq \in [Conns -> Seq(DownFrames(Reqs))] /\ down \in [Conns -> Seq(DownFrames(Reqs))]
  BY DEF TransportInv, ConnInv, ConnTypes
<1>4. x \in DownFrames(Reqs)
  BY <1>1, <1>3, TailFacts
<1>5. Owed' = Owed /\ \A d \in Conns : HeardSoFar(d)' = HeardSoFar(d)
  BY <1>1 DEF Owed, HeardSoFar, Behind
<1>6. b \in BOOLEAN
  OBVIOUS
<1>7. OutOk'
  BY <1>1 DEF TransportInv, OutOk
<1>8. ASSUME NEW d \in Conns, d # c PROVE Flow(d)'
  <2> HIDE DEF x, b
  <2>1. outq'[d] = outq[d] /\ down'[d] = down[d] /\ server'[d].writer = server[d].writer
    BY <1>2, <1>3, <1>8
  <2> QED BY <1>1, <1>5, <2>1, FlowKept DEF TransportInv
<1>9. CASE link[c] = "broken"
  <2>1. down' = down
    BY <1>2, <1>9
  <2>2. Flow(c)'
    BY <1>1, <1>9, <2>1 DEF TransportInv, Flow
  <2> QED BY <1>7, <1>8, <2>2
<1>10. CASE link[c] = "up"
  <2>1. /\ down'[c] = Append(down[c], x) /\ server' = [server EXCEPT ![c].writer = b]
        /\ outq'[c] = IF b THEN Tail(outq[c]) ELSE <<>>
    BY <1>2, <1>3, <1>10
  <2> HIDE DEF x, b
  <2>2. server'[c].writer = b
    <3>1. server[c] \in Ends
      BY <1>3
    <3>2. [server[c] EXCEPT !.writer = b].writer = b
      BY <3>1 DEF Ends
    <3> QED BY <1>3, <2>1, <3>2
  <2>3. PICK m \in Int, z \in Int :
          /\ Delivers(down[c], transportSeen[c], m, Owed) /\ Delivers(outq[c], m, z, Owed)
          /\ server[c].writer =>
               /\ z = HeardSoFar(c)
               /\ \A r \in DOMAIN Owed : req[r].conn = c /\ task[r] = "answer" => Owed[r] <= z
    BY <1>10 DEF TransportInv, Flow
  <2> DEFINE D == Owed
  <2> HIDE DEF D
  <2>4. /\ Delivers(Tail(outq[c]), m + Step(x), z, D)
        /\ \A r \in DOMAIN D : x = Transport!AnswerFrame(r, TRUE) => D[r] <= m + Step(x)
    BY <1>1, <1>3, <2>3, DeliversTail DEF x, D
  <2>5. Delivers(Append(down[c], x), transportSeen[c], m + Step(x), D)
    <3>1. Delivers(down[c], transportSeen[c], m, D)
      BY <2>3 DEF D
    <3> QED BY <1>3, <1>4, <2>4, <3>1, DeliversAppend
  <2>6. m + Step(x) \in Int
    BY DEF Step
  <2>7. link'[c] # "broken"
    BY <1>1, <1>10
  <2>8. CASE b
    <3>1. outq'[c] = Tail(outq[c]) /\ down'[c] = Append(down[c], x)
      BY <2>1, <2>8
    <3>2. Delivers(down'[c], transportSeen'[c], m + Step(x), Owed')
      BY <1>1, <1>5, <2>5, <3>1 DEF D
    <3>3. Delivers(outq'[c], m + Step(x), z, Owed')
      BY <1>5, <2>4, <3>1 DEF D
    <3>4. /\ z = HeardSoFar(c)'
          /\ \A r \in DOMAIN (Owed') : req'[r].conn = c /\ task'[r] = "answer" => Owed'[r] <= z
      BY <1>1, <1>5, <2>3
    <3>5. Flow(c)'
      BY <2>6, <2>7, <3>2, <3>3, <3>4 DEF Flow
    <3> QED BY <1>7, <1>8, <3>5
  <2>9. CASE ~b
    <3>1. Delivers(<<>>, m + Step(x), m + Step(x), D)
      BY <2>6, DeliversNothing
    <3> QED BY <1>1, <1>5, <1>7, <1>8, <2>1, <2>2, <2>5, <2>6, <2>7, <2>9, <3>1 DEF Flow, D
  <2> QED BY <2>8, <2>9
<1> QED BY <1>3, <1>9, <1>10

LEMMA NotifyFlow ==
  ASSUME TransportInv, Transport!Notify
  PROVE  OutOk' /\ \A d \in Conns : Flow(d)'
<1>0. transportRun.targets # <<>> /\ transportRun.targets \in Seq(Conns) /\ transportRun \in ARun
  BY DEF Transport!Notify, TransportInv, ConnInv, ConnTypes, ARun
<1> PICK c \in Conns : c = Head(transportRun.targets)
  BY <1>0, TailFacts
<1>1. UNCHANGED <<req, out, link, down, server, transportSeen, due>>
  BY DEF Transport!Notify, Transport!clientVars
<1>2. \/ /\ server[c].writer /\ task' = task /\ heard' = heard
         /\ outq' = [outq EXCEPT ![c] = Append(outq[c], Transport!NoteFrame)]
         /\ transportRun' = [transportRun EXCEPT !.targets = Tail(transportRun.targets)]
      \/ /\ transportRun' = Transport!Idle /\ outq' = outq
         /\ task' = [task EXCEPT ![transportRun.by] = "refuse"]
         /\ heard' = [d \in Conns |-> heard[d] - (IF d \in Transport!Range(transportRun.targets)
                                                  THEN 1 ELSE 0)]
  BY DEF Transport!Notify, Transport!Set, Transport!Push
<1>3. heard \in [Conns -> Int] /\ task \in [Reqs -> {"none", "handling", "running", "answer", "refuse", "close", "done"}]
  BY DEF TransportInv, ConnInv, ConnTypes
<1>4. CASE server[c].writer /\ task' = task /\ heard' = heard
           /\ outq' = [outq EXCEPT ![c] = Append(outq[c], Transport!NoteFrame)]
           /\ transportRun' = [transportRun EXCEPT !.targets = Tail(transportRun.targets)]
  <2>1. transportRun'.targets = Tail(transportRun.targets)
    BY <1>0, <1>4 DEF ARun
  <2>2. /\ Elems(transportRun.targets) = {c} \cup Elems(Tail(transportRun.targets))
        /\ c \notin Elems(Tail(transportRun.targets))
    BY <1>0, TailFacts, SingleTail DEF TransportInv, ConnInv, RunOk
  <2>3. \A d \in Conns : Behind(d)' = Behind(d) - (IF d = c THEN 1 ELSE 0)
    BY <2>1, <2>2 DEF Behind
  <2>4. Transport!NoteFrame \in DownFrames(Reqs) /\ Step(Transport!NoteFrame) = 1
    BY DEF DownFrames, Step
  <2>5. \A d \in Conns : HeardSoFar(d)' = HeardSoFar(d)
                                          + (IF d = c THEN Step(Transport!NoteFrame) ELSE 0)
    <3>1. \A d \in Conns : Behind(d) \in Int
      BY DEF Behind
    <3> QED BY <1>3, <1>4, <2>3, <2>4, <3>1 DEF HeardSoFar
  <2>6. \A r : Transport!NoteFrame # Transport!AnswerFrame(r, TRUE)
    BY Frames
  <2> QED BY <1>1, <1>4, <2>4, <2>5, <2>6, SaysFlow
<1>5. CASE transportRun' = Transport!Idle /\ outq' = outq
           /\ task' = [task EXCEPT ![transportRun.by] = "refuse"]
           /\ heard' = [d \in Conns |-> heard[d] - (IF d \in Transport!Range(transportRun.targets)
                                                    THEN 1 ELSE 0)]
  <2>1. Transport!Range(transportRun.targets) = Elems(transportRun.targets)
    <3>1. DOMAIN transportRun.targets = 1..Len(transportRun.targets)
      BY <1>0
    <3> QED BY <3>1 DEF Transport!Range, Elems
  <2>2. \A d \in Conns : HeardSoFar(d)' = HeardSoFar(d)
    <3>1. transportRun'.targets = <<>>
      BY <1>5 DEF Transport!Idle
    <3>2. \A d \in Conns : Behind(d)' = 0
      <4>1. Elems(transportRun'.targets) = {}
        BY <3>1, EmptyElems
      <4> QED BY <4>1 DEF Behind
    <3> QED BY <1>3, <1>5, <2>1, <3>2 DEF HeardSoFar, Behind
  <2>3. transportRun.by \in Reqs /\ task[transportRun.by] = "running"
    <3>1. transportRun # Transport!Idle
      BY <1>0 DEF Transport!Idle
    <3> QED BY <3>1 DEF TransportInv, ConnInv, RunOk
  <2>4. /\ \A q \in Reqs : task'[q] = "answer" => task[q] = "answer"
        /\ \A q \in Reqs : task[q] \in {"close", "done"} => task'[q] \in {"close", "done"}
    BY <1>3, <1>5, <2>3
  <2> QED BY <1>1, <1>5, <2>2, <2>4, KeepsFlow
<1> QED BY <1>2, <1>4, <1>5

LEMMA RunEndsFlow ==
  ASSUME TransportInv, Transport!RunEnds
  PROVE  OutOk' /\ \A d \in Conns : Flow(d)'
<1> DEFINE r == transportRun.by
<1>1. /\ transportRun # Transport!Idle /\ transportRun.targets = <<>>
      /\ transportRun' = Transport!Idle /\ task' = [task EXCEPT ![r] = "answer"]
      /\ due' = [due EXCEPT ![r] = heard[req[r].conn]]
      /\ UNCHANGED <<req, out, link, down, server, outq, heard, transportSeen>>
  BY DEF Transport!RunEnds, Transport!EveryEventOut, Transport!Set, Transport!clientVars
<1>2. r \in Reqs /\ task[r] = "running"
  BY <1>1 DEF TransportInv, ConnInv, RunOk
<1>3. ConnTypes
  BY DEF TransportInv, ConnInv
<1> HIDE DEF r
<1>4. OutOk'
  <2>1. \A q \in Reqs : out[q] = "ok" => q # r
    BY <1>2 DEF TransportInv, OutOk
  <2>2. \A q \in Reqs : q # r => task'[q] = task[q] /\ due'[q] = due[q]
    BY <1>1, <1>3 DEF ConnTypes
  <2> QED BY <1>1, <2>1, <2>2 DEF TransportInv, OutOk
<1>5. \A d \in Conns : HeardSoFar(d) = heard[d] /\ HeardSoFar(d)' = heard[d]
  <2>1. Elems(transportRun.targets) = {} /\ Elems(transportRun'.targets) = {}
    BY <1>1, EmptyElems DEF Transport!Idle
  <2>2. \A d \in Conns : Behind(d) = 0 /\ Behind(d)' = 0
    BY <2>1 DEF Behind
  <2> QED BY <1>1, <1>3, <2>2 DEF HeardSoFar, ConnTypes
<1>6. /\ DOMAIN (Owed') = DOMAIN Owed /\ DOMAIN Owed \subseteq Reqs
      /\ \A q \in DOMAIN Owed : q # r => Owed'[q] = Owed[q]
      /\ r \in DOMAIN Owed => Owed'[r] = heard[req[r].conn]
  BY <1>1, <1>2, <1>3 DEF Owed, ConnTypes
<1>7. ASSUME NEW d \in Conns PROVE Flow(d)'
  <2>1. r \notin Answered(d)
    BY <1>2 DEF Answered
  <2>2. \A q \in DOMAIN (Owed') : q \in Answered(d) => q \in DOMAIN Owed /\ Owed'[q] = Owed[q]
    BY <1>6, <2>1
  <2>3. ASSUME NEW q \in DOMAIN (Owed'), req'[q].conn = d, task'[q] = "answer"
        PROVE  \/ req[q].conn = d /\ task[q] = "answer" /\ q \in DOMAIN Owed /\ Owed'[q] = Owed[q]
               \/ Owed'[q] <= HeardSoFar(d)
    <3>1. CASE q = r
      <4>1. Owed'[q] = heard[d] /\ heard[d] \in Int
        BY <1>1, <1>3, <1>6, <2>3, <3>1 DEF ConnTypes
      <4> QED BY <1>5, <4>1
    <3>2. CASE q # r
      BY <1>1, <1>3, <1>6, <2>3, <3>2 DEF ConnTypes
    <3> QED BY <3>1, <3>2
  <2> QED BY <1>1, <1>5, <2>2, <2>3, FlowKept DEF TransportInv
<1> QED BY <1>4, <1>7

LEMMA TransportNext == TransportInv /\ Transport!Next => TransportInv'
<1> SUFFICES ASSUME TransportInv, Transport!Next PROVE TransportInv'
  OBVIOUS
<1>1. OutOk' /\ \A d \in Conns : Flow(d)'
  BY CallFlow, SendFlow, HandleFlow, AnswerFlow, ClientFlow, ReadsFlow, BreakFlow,
     ServerReadsFlow, ServerEndsFlow, ServerWritesFlow, EmitFlow, NotifyFlow, RunEndsFlow
     DEF Transport!Next
<1> QED BY <1>1, ConnNext DEF TransportInv

LEMMA TransportKept == TransportInv /\ UNCHANGED transportVars => TransportInv'
<1> SUFFICES ASSUME TransportInv, UNCHANGED transportVars PROVE TransportInv'
  OBVIOUS
<1>1. UNCHANGED <<transportPc, req, out, sendq, link, up, down, server, outq, task, lis,
                  transportRun, heard, transportSeen, due>>
  BY DEF transportVars
<1>2. ConnInv'
  BY <1>1, ConnKept DEF TransportInv, ConnInv, ConnTypes, SentFirst, RunOk, UnderWay, Answered
<1>3. OutOk' /\ \A d \in Conns : Flow(d)'
  BY <1>1, KeepsFlow DEF HeardSoFar, Behind
<1> QED BY <1>2, <1>3 DEF TransportInv

(* The events of a run reach the client before the answer to the request   *)
(* that started it, for any connections, their ends, breaks and timeouts.  *)
THEOREM AnswersFollowEvents == MCSpec => []EventsBeforeAnswer
<1> DEFINE I == part = "transport" => TransportInv
<1>1. MCInit => I
  BY FlowInit DEF MCInit
<1>2. I /\ [MCNext]_mcVars => I'
  <2> SUFFICES ASSUME I, [MCNext]_mcVars, part' = "transport" PROVE TransportInv'
    OBVIOUS
  <2>1. CASE MCNext
    BY <2>1, TransportNext, TransportKept DEF MCNext
  <2>2. CASE UNCHANGED mcVars
    BY <2>2, TransportKept DEF mcVars
  <2> QED BY <2>1, <2>2
<1>3. I => EventsBeforeAnswer
  <2>1. TransportInv => Transport!EventsBeforeAnswer
    BY DEF TransportInv, OutOk, Transport!EventsBeforeAnswer
  <2> QED BY <2>1 DEF EventsBeforeAnswer
<1> QED BY <1>1, <1>2, <1>3, PTL DEF MCSpec

-----------------------------------------------------------------------------
(* TelegramActions: a button is used up by what it does.                   *)

(* Entries differ in their birth; what was done, and what is about to be,  *)
(* has one that no entry has any more.                                     *)
Entries ==
  /\ born \in Nat
  /\ \A e \in entries : e.born \in Nat /\ e.born <= born
  /\ \A e, f \in entries : e.born = f.born => e = f
DoneIsPast ==
  \A d \in done : /\ d.times = 1 /\ d.born \in Nat /\ d.born <= born
                  /\ \A e \in entries : e.born # d.born
InHand ==
  /\ tActionsHandler = [pc |-> tActionsHandler.pc, button |-> tActionsHandler.button,
                        entry |-> tActionsHandler.entry]
  /\ tActionsHandler.pc = "perform" =>
       /\ tActionsHandler.entry.born \in Nat /\ tActionsHandler.entry.born <= born
       /\ \A e \in entries : e.born # tActionsHandler.entry.born
       /\ \A d \in done : d.born # tActionsHandler.entry.born
ActionsInv == Entries /\ DoneIsPast /\ InHand

LEMMA SameCardinality == \A S : TActions!Cardinality(S) = Cardinality(S)
BY Zenon DEF TActions!Cardinality, Cardinality

(* New buttons have numbers of their own.                                  *)
LEMMA NumberedFacts ==
  ASSUME NEW K, IsFiniteSet(K)
  PROVE  /\ Cardinality(K) \in Nat
         /\ \A k \in K : TActions!Numbered(K)[k] \in 1..Cardinality(K)
         /\ \A j, k \in K : TActions!Numbered(K)[j] = TActions!Numbered(K)[k] => j = k
<1> DEFINE n == Cardinality(K)
           P(f) == \A a, b \in K : a # b => f[a] # f[b]
<1>1. n \in Nat /\ ExistsBijection(1..n, K)
  BY FS_CardinalityType
<1>2. PICK m \in [1..n -> K] : \A k \in K : \E i \in 1..n : m[i] = k
  BY <1>1 DEF ExistsBijection, Bijection, Surjection
<1> DEFINE g == [k \in K |-> CHOOSE i \in 1..n : m[i] = k]
<1> HIDE DEF n
<1>3. \A k \in K : g[k] \in 1..n /\ m[g[k]] = k
  BY <1>2
<1>4. g \in [K -> 1..n] /\ P(g)
  BY <1>3
<1> HIDE DEF g
<1>5. /\ (CHOOSE f \in [K -> 1..n] : P(f)) \in [K -> 1..n]
      /\ P(CHOOSE f \in [K -> 1..n] : P(f))
  BY <1>4
<1>6. TActions!Numbered(K) = CHOOSE f \in [K -> 1..n] : P(f)
  BY SameCardinality DEF TActions!Numbered, n
<1>7. TActions!Numbered(K) \in [K -> 1..n] /\ P(TActions!Numbered(K))
  BY <1>5, <1>6
<1> QED BY <1>1, <1>7 DEF n

LEMMA FewKinds ==
  /\ \A c \in Commands : IsFiniteSet(TActions!Offers[c])
  /\ \A k : IsFiniteSet(TActions!FollowUps(k))
<1>1. \A x : IsFiniteSet({x})
  BY FS_Singleton
<1>2. \A x, y : IsFiniteSet({x, y})
  <2> SUFFICES ASSUME NEW x, NEW y PROVE IsFiniteSet({x, y})
    OBVIOUS
  <2>1. IsFiniteSet({x} \cup {y})
    BY <1>1, FS_AddElement
  <2>2. {x} \cup {y} = {x, y}
    OBVIOUS
  <2> QED BY <2>1, <2>2
<1>3. \A x, y, z : IsFiniteSet({x, y, z})
  <2> SUFFICES ASSUME NEW x, NEW y, NEW z PROVE IsFiniteSet({x, y, z})
    OBVIOUS
  <2>1. IsFiniteSet({x, y} \cup {z})
    BY <1>2, FS_AddElement
  <2>2. {x, y} \cup {z} = {x, y, z}
    OBVIOUS
  <2> QED BY <2>1, <2>2
<1>4. ASSUME NEW c \in Commands PROVE IsFiniteSet(TActions!Offers[c])
  <2>1. c \in DOMAIN TActions!Offers
    BY CommandsAreKnown DEF TActions!CommandsAssumption
  <2>2. c \in {"sessions", "profiles", "abort", "queue", "processes", "process", "manifest"}
    BY <2>1 DEF TActions!Offers
  <2>3. \/ TActions!Offers[c] = {"select_profile"}
        \/ TActions!Offers[c] = {"confirm_abort"} \/ TActions!Offers[c] = {"open_process"}
        \/ TActions!Offers[c] = {"confirm_write"} \/ TActions!Offers[c] = {"approve_proposal"}
        \/ TActions!Offers[c] = {"switch_session", "request_delete"}
        \/ TActions!Offers[c] = {"clear_queue", "set_queue_mode"}
    BY <2>2 DEF TActions!Offers
  <2> QED BY <1>1, <1>2, <2>3
<1>5. ASSUME NEW k PROVE IsFiniteSet(TActions!FollowUps(k))
  <2>1. \/ TActions!FollowUps(k) = {}
        \/ TActions!FollowUps(k) = {"confirm_delete"} \/ TActions!FollowUps(k) = {"confirm_terminate"}
        \/ TActions!FollowUps(k) = {"request_apply"} \/ TActions!FollowUps(k) = {"confirm_apply"}
        \/ TActions!FollowUps(k) = {"read_process", "wait_process", "request_terminate"}
    BY DEF TActions!FollowUps
  <2>2. IsFiniteSet({})
    BY FS_EmptySet
  <2>3. \A s : s = {} => IsFiniteSet(s)
    BY <2>2
  <2>4. IsFiniteSet({"read_process", "wait_process", "request_terminate"})
    BY <1>3
  <2>5. /\ IsFiniteSet({"confirm_delete"}) /\ IsFiniteSet({"confirm_terminate"})
        /\ IsFiniteSet({"request_apply"}) /\ IsFiniteSet({"confirm_apply"})
    BY <1>1
  <2> HIDE DEF TActions!FollowUps
  <2> QED BY <2>1, <2>3, <2>4, <2>5
<1> QED BY <1>4, <1>5

(* A card with new buttons.                                                *)
LEMMA ShowsKeep ==
  ASSUME ActionsInv, NEW K, IsFiniteSet(K), TActions!Shows(K), done' = done,
         \/ tActionsHandler' = tActionsHandler /\ tActionsHandler.pc # "perform"
         \/ tActionsHandler' = TActions!IdleHandler
  PROVE  ActionsInv'
<1> DEFINE N(k) == TActions!Numbered(K)[k]
           new == {[key |-> nextId + N(k), kind |-> k, born |-> born + N(k)] : k \in K}
<1>1. /\ Cardinality(K) \in Nat
      /\ \A k \in K : N(k) \in 1..Cardinality(K)
      /\ \A j, k \in K : N(j) = N(k) => j = k
  BY NumberedFacts
<1>2. born' = born + Cardinality(K) /\ entries' \subseteq entries \cup new
  <2>1. entries' = TActions!Newest(entries \cup new) /\ born' = born + Cardinality(K)
    BY SameCardinality DEF TActions!Shows
  <2> HIDE DEF new
  <2> QED BY <2>1 DEF TActions!Newest
<1> HIDE DEF N
<1>3. \A e \in new : \E k \in K : /\ e = [key |-> nextId + N(k), kind |-> k, born |-> born + N(k)]
                                  /\ e.born = born + N(k)
  OBVIOUS
<1> HIDE DEF new
<1>4. born \in Nat /\ born' \in Nat /\ born <= born'
  BY <1>1, <1>2 DEF ActionsInv, Entries
<1>5. \A e \in new : e.born \in Nat /\ e.born <= born' /\ e.born > born
  BY <1>1, <1>2, <1>3, <1>4
<1>6. \A e, f \in new : e.born = f.born => e = f
  <2> SUFFICES ASSUME NEW e \in new, NEW f \in new, e.born = f.born PROVE e = f
    OBVIOUS
  <2>1. PICK j \in K : e = [key |-> nextId + N(j), kind |-> j, born |-> born + N(j)]
                       /\ e.born = born + N(j)
    BY <1>3
  <2>2. PICK k \in K : f = [key |-> nextId + N(k), kind |-> k, born |-> born + N(k)]
                       /\ f.born = born + N(k)
    BY <1>3
  <2>3. N(j) = N(k)
    BY <1>1, <1>4, <2>1, <2>2
  <2> QED BY <1>1, <2>1, <2>2, <2>3
<1>7. \A e \in entries : e.born \in Nat /\ e.born <= born /\ e.born <= born'
  BY <1>4 DEF ActionsInv, Entries
<1>8. Entries'
  <2>1. ASSUME NEW e \in entries', NEW f \in entries', e.born = f.born PROVE e = f
    <3>1. CASE e \in entries /\ f \in entries
      BY <2>1, <3>1 DEF ActionsInv, Entries
    <3>2. CASE e \in new /\ f \in new
      BY <1>6, <2>1, <3>2
    <3>3. CASE (e \in entries /\ f \in new) \/ (e \in new /\ f \in entries)
      BY <1>4, <1>5, <1>7, <2>1, <3>3
    <3> QED BY <1>2, <3>1, <3>2, <3>3
  <2> QED BY <1>2, <1>4, <1>5, <1>7, <2>1 DEF Entries
<1>9. DoneIsPast'
  <2>1. \A d \in done : d.born \in Nat /\ d.born <= born /\ d.times = 1
                        /\ \A e \in entries : e.born # d.born
    BY DEF ActionsInv, DoneIsPast
  <2> QED BY <1>2, <1>4, <1>5, <2>1 DEF DoneIsPast
<1>10. InHand'
  BY DEF ActionsInv, InHand, TActions!IdleHandler
<1> QED BY <1>8, <1>9, <1>10 DEF ActionsInv

(* Less in the store, and a handler that performs nothing.                 *)
LEMMA FewerEntries ==
  ASSUME ActionsInv, entries' \subseteq entries, done' = done, born' = born,
         \/ tActionsHandler' = tActionsHandler
         \/ tActionsHandler' = TActions!IdleHandler
         \/ \E b : \E e \in entries : /\ entries' = entries \ {e}
                                      /\ tActionsHandler' = [pc |-> "perform", button |-> b, entry |-> e]
  PROVE  ActionsInv'
<1>1. Entries' /\ DoneIsPast'
  BY DEF ActionsInv, Entries, DoneIsPast
<1>2. InHand'
  <2>1. CASE tActionsHandler' = tActionsHandler \/ tActionsHandler' = TActions!IdleHandler
    BY <2>1 DEF ActionsInv, InHand, TActions!IdleHandler
  <2>2. ASSUME NEW b, NEW e \in entries, entries' = entries \ {e},
               tActionsHandler' = [pc |-> "perform", button |-> b, entry |-> e]
        PROVE  InHand'
    <3>1. /\ e.born \in Nat /\ e.born <= born
          /\ \A f \in entries \ {e} : f.born # e.born
          /\ \A d \in done : d.born # e.born
      BY DEF ActionsInv, Entries, DoneIsPast
    <3> QED BY <2>2, <3>1 DEF InHand
  <2> QED BY <2>1, <2>2
<1> QED BY <1>1, <1>2 DEF ActionsInv

LEMMA TakesKeep ==
  ASSUME ActionsInv, NEW b, TActions!Takes(b), done' = done, born' = born
  PROVE  ActionsInv'
<1>1. \/ tActionsHandler' = TActions!IdleHandler /\ entries' = entries
      \/ \E e \in entries : /\ tActionsHandler' = [pc |-> "perform", button |-> b, entry |-> e]
                            /\ entries' = entries \ {e}
  BY DEF TActions!Takes, TActions!Resolve
<1> QED BY <1>1, FewerEntries

LEMMA PerformKeep ==
  ASSUME ActionsInv, TActions!Perform
  PROVE  ActionsInv'
<1> DEFINE e == tActionsHandler.entry
           b == tActionsHandler.button
<1>1. /\ tActionsHandler.pc = "perform"
      /\ done' = TActions!Performed(b, e)
      /\ tActionsHandler' = [tActionsHandler EXCEPT !.pc = "edit"]
      /\ entries' = entries /\ born' = born
  BY DEF TActions!Perform
<1>2. /\ e.born \in Nat /\ e.born <= born
      /\ \A f \in entries : f.born # e.born
      /\ \A d \in done : d.born # e.born
  BY <1>1 DEF ActionsInv, InHand
<1>3. TActions!Times(e) = 0
  <2>1. {d \in done : d.born = e.born} = {}
    BY <1>2
  <2> QED BY <2>1 DEF TActions!Times
<1>4. \A d \in done' : d \in done \/ (d.born = e.born /\ d.times = 1)
  BY <1>1, <1>3 DEF TActions!Performed
<1> HIDE DEF e, b
<1>5. Entries' /\ DoneIsPast'
  BY <1>1, <1>2, <1>4 DEF ActionsInv, Entries, DoneIsPast
<1>6. /\ tActionsHandler'.pc = "edit"
      /\ tActionsHandler' = [pc |-> "edit", button |-> tActionsHandler.button,
                             entry |-> tActionsHandler.entry]
  BY <1>1 DEF ActionsInv, InHand
<1>7. InHand'
  BY <1>6 DEF InHand
<1> QED BY <1>5, <1>7 DEF ActionsInv

LEMMA ActionsNext == ActionsInv /\ TActions!Next => ActionsInv'
<1> SUFFICES ASSUME ActionsInv, TActions!Next PROVE ActionsInv'
  OBVIOUS
<1>1. ASSUME NEW c \in Commands, TActions!Command(c) PROVE ActionsInv'
  BY <1>1, FewKinds, ShowsKeep DEF TActions!Command
<1>2. ASSUME NEW e \in entries, TActions!Expire(e) PROVE ActionsInv'
  BY <1>2, FewerEntries DEF TActions!Expire
<1>3. ASSUME NEW b, TActions!Press(b) \/ TActions!PressAgain(b) PROVE ActionsInv'
  BY <1>3, TakesKeep DEF TActions!Press, TActions!PressAgain
<1>4. CASE TActions!Perform
  BY <1>4, PerformKeep
<1>5. CASE TActions!RequestFails
  BY <1>5, FewerEntries DEF TActions!RequestFails
<1>6. CASE TActions!EditCard
  BY <1>6, FewKinds, ShowsKeep DEF TActions!EditCard
<1>7. CASE TActions!Restart
  BY <1>7, FewerEntries DEF TActions!Restart
<1> QED BY <1>1, <1>2, <1>3, <1>4, <1>5, <1>6, <1>7 DEF TActions!Next

(* What a button stands for is done at most once, for any commands, any    *)
(* size of the store, and any presses, repeats and restarts.               *)
THEOREM ButtonsWorkOnce == MCSpec => []DoneOnce
<1> DEFINE I == part = "telegramActions" => ActionsInv
<1>1. MCInit => I
  BY DEF MCInit, TActions!Init, TActions!IdleHandler, ActionsInv, Entries, DoneIsPast, InHand
<1>2. I /\ [MCNext]_mcVars => I'
  <2> SUFFICES ASSUME I, [MCNext]_mcVars, part' = "telegramActions" PROVE ActionsInv'
    OBVIOUS
  <2>1. ActionsInv /\ UNCHANGED telegramActionsVars => ActionsInv'
    BY DEF telegramActionsVars, ActionsInv, Entries, DoneIsPast, InHand
  <2>2. CASE MCNext
    BY <2>1, <2>2, ActionsNext DEF MCNext
  <2>3. CASE UNCHANGED mcVars
    BY <2>1, <2>3 DEF mcVars
  <2> QED BY <2>2, <2>3
<1>3. I => DoneOnce
  BY DEF ActionsInv, DoneIsPast, DoneOnce, TActions!DoneOnce
<1> QED BY <1>1, <1>2, <1>3, PTL DEF MCSpec

-----------------------------------------------------------------------------
(* TelegramPolling: the offset passes only what is settled.                *)

(* The answer in hand: not empty before it is handled, used up before its  *)
(* offset is stored.                                                       *)
BatchInHand ==
  /\ pc \in {"batch", "skip"} => batch.next <= batch.last
  /\ pc \in {"batch", "skip"} => batch.last <= arrived /\ batch.next >= 1
  /\ pc = "save" => batch.next = batch.last + 1

(* An update that any offset has passed is settled: those Telegram was     *)
(* asked with, the stored one, the poller's, and the place in the answer.  *)
Passed(u) ==
  \/ u <= confirmed \/ u < stored \/ u < offset
  \/ pc \in {"batch", "skip", "save"} /\ u < batch.next
PassedIsSettled == \A u \in Updates : Passed(u) => Settled(u)

(* The poller's offset is behind the answer in hand, and none when a       *)
(* process begins.                                                         *)
OffsetBehind ==
  /\ pc \in {"batch", "skip", "save"} => offset <= batch.next
  /\ pc \in {"init", "down"} => offset = 0

(* A process has not handled what its offset has not passed, which leaves  *)
(* the one time that the update in hand needs.                             *)
NotYetHandled ==
  \A u \in Updates : /\ handled[u] <= deaths + 1
                     /\ pc # "down" /\ u >= offset => handled[u] <= deaths

IInv == TypeOK /\ BatchInHand /\ PassedIsSettled /\ OffsetBehind /\ NotYetHandled

-----------------------------------------------------------------------------
USE BoundsAssumption DEF Updates

LEMMA AnswerType ==
  ASSUME TypeOK, NEW o \in Nat
  PROVE  /\ Forgets(o) \in Nat /\ Answer(o) \in [next : Nat, last : Nat]
         /\ Answer(o).next = Forgets(o) + 1 /\ Answer(o).next >= 1
         /\ Answer(o).last <= arrived
         /\ Forgets(o) >= confirmed /\ o <= Answer(o).next
         /\ \A u \in Nat : u <= Forgets(o) <=> u <= confirmed \/ u < o
<1>1. /\ Forgets(o) \in Nat /\ Forgets(o) >= confirmed /\ o <= Forgets(o) + 1
      /\ \A u \in Nat : u <= Forgets(o) <=> u <= confirmed \/ u < o
  BY DEF Forgets, Upper, TypeOK
<1>2. Lower(arrived, Forgets(o) + Page) \in Nat /\ Lower(arrived, Forgets(o) + Page) <= arrived
  BY <1>1 DEF Lower, TypeOK
<1> QED BY <1>1, <1>2 DEF Answer

LEMMA Keep ==
  ASSUME IInv, UNCHANGED <<confirmed, stored, offset, batch, deaths, handled, skipped>>,
         arrived' \in arrived..MaxUpdates, pc' \in {"poll", "sleep"} \/ pc' = pc,
         pc \in {"poll", "sleep"} \/ pc' = pc
  PROVE  IInv'
BY DEF IInv, TypeOK, BatchInHand, PassedIsSettled, Passed, Settled, OffsetBehind, NotYetHandled

(* The poller has asked with its offset.                                   *)
LEMMA Asks ==
  ASSUME IInv, confirmed' = Forgets(offset), handled' = handled,
         UNCHANGED <<arrived, stored, offset, deaths, skipped>>, pc' \in {"poll", "batch", "skip"},
         pc # "down",
         \/ batch' = batch /\ pc' = "poll"
         \/ batch' = Answer(offset) /\ (pc' # "poll" => Answer(offset).next <= Answer(offset).last)
  PROVE  IInv'
<1>0. TypeOK /\ offset \in Nat
  BY DEF IInv, TypeOK
<1>1. /\ Forgets(offset) \in Nat /\ Answer(offset) \in [next : Nat, last : Nat]
      /\ Answer(offset).next = Forgets(offset) + 1 /\ Answer(offset).next >= 1
      /\ Answer(offset).last <= arrived /\ offset <= Answer(offset).next
      /\ \A u \in Nat : u <= Forgets(offset) <=> u <= confirmed \/ u < offset
  BY <1>0, AnswerType
<1>2. TypeOK'
  BY <1>0, <1>1 DEF TypeOK
<1>3. BatchInHand' /\ OffsetBehind'
  BY <1>0, <1>1 DEF IInv, TypeOK, BatchInHand, OffsetBehind
<1>4. \A u \in Updates : Passed(u)' => Passed(u)
  BY <1>0, <1>1 DEF Passed, TypeOK
<1>5. PassedIsSettled'
  BY <1>4 DEF IInv, PassedIsSettled, Settled
<1>6. NotYetHandled'
  BY DEF IInv, NotYetHandled
<1> QED BY <1>2, <1>3, <1>5, <1>6 DEF IInv

LEMMA InitializeStep == ASSUME IInv, Initialize PROVE IInv'
<1>1. CASE stored # 0
  BY <1>1 DEF Initialize, IInv, TypeOK, BatchInHand, PassedIsSettled, Passed, Settled, OffsetBehind, NotYetHandled
<1>2. CASE stored = 0 /\ SkipPending
  <2>1. offset = 0 /\ pc = "init"
    BY DEF Initialize, IInv, OffsetBehind
  <2>2. /\ confirmed' = Forgets(offset) /\ batch' = Answer(offset)
        /\ pc' = IF Answer(offset).last < Answer(offset).next THEN "poll" ELSE "skip"
        /\ UNCHANGED <<arrived, stored, offset, deaths, handled, skipped>>
    BY <1>2, <2>1 DEF Initialize
  <2>3. Answer(offset) \in [next : Nat, last : Nat]
    BY AnswerType DEF IInv, TypeOK
  <2> QED BY <2>1, <2>2, <2>3, Asks
<1>3. CASE stored = 0 /\ ~SkipPending
  BY <1>3 DEF Initialize, IInv, TypeOK, BatchInHand, PassedIsSettled, Passed, Settled, OffsetBehind, NotYetHandled
<1> QED BY <1>1, <1>2, <1>3

LEMMA SavesSkipStep == ASSUME IInv, SavesSkip PROVE IInv'
<1>1. /\ pc = "skip" /\ pc' = "poll" /\ batch' = NoBatch
      /\ stored' = batch.last + 1 /\ offset' = batch.last + 1
      /\ skipped' = skipped \cup (batch.next..batch.last)
      /\ UNCHANGED <<arrived, confirmed, deaths, handled>>
  BY DEF SavesSkip
<1>2. /\ batch.next \in Nat /\ batch.last \in Nat /\ batch.next >= 1 /\ batch.last <= arrived
      /\ batch.next <= batch.last /\ offset \in Nat /\ offset <= batch.next
  BY <1>1 DEF IInv, TypeOK, BatchInHand, OffsetBehind
<1>3. TypeOK'
  BY <1>1, <1>2 DEF NoBatch, IInv, TypeOK
<1>4. BatchInHand' /\ OffsetBehind'
  BY <1>1 DEF BatchInHand, OffsetBehind
<1>5. PassedIsSettled'
  <2>1. \A u \in Updates : Passed(u)' => Passed(u) \/ u \in batch.next..batch.last
    BY <1>1, <1>2 DEF Passed
  <2>2. \A u \in Updates : Settled(u) \/ u \in batch.next..batch.last => Settled(u)'
    BY <1>1 DEF Settled
  <2> QED BY <2>1, <2>2 DEF IInv, PassedIsSettled
<1>6. NotYetHandled'
  <2>1. \A u \in Updates : u >= offset' => u >= offset
    BY <1>1, <1>2
  <2> QED BY <1>1, <2>1 DEF IInv, NotYetHandled
<1> QED BY <1>3, <1>4, <1>5, <1>6 DEF IInv

LEMMA PollOnceStep == ASSUME IInv, PollOnce PROVE IInv'
<1>1. /\ confirmed' = Forgets(offset) /\ batch' = Answer(offset)
      /\ Answer(offset).next <= Answer(offset).last /\ pc = "poll" /\ pc' = "batch"
      /\ UNCHANGED <<arrived, stored, offset, deaths, handled, skipped>>
  BY DEF PollOnce
<1> QED BY <1>1, Asks

LEMMA EmptyPollStep == ASSUME IInv, EmptyPoll PROVE IInv'
<1>1. /\ confirmed' = Forgets(offset) /\ pc = "poll" /\ pc' = "poll"
      /\ UNCHANGED <<arrived, stored, offset, batch, deaths, handled, skipped>>
  BY DEF EmptyPoll
<1> QED BY <1>1, Asks

(* The handler is given the update in hand.                                *)
LEMMA Gives ==
  ASSUME IInv, pc = "batch",
         handled' = handled \/ handled' = [handled EXCEPT ![batch.next] = @ + 1]
  PROVE  /\ batch.next \in Updates /\ handled' \in [Updates -> Nat]
         /\ \A u \in Updates : /\ handled'[u] >= handled[u] /\ handled'[u] <= deaths + 1
                               /\ u # batch.next => handled'[u] = handled[u]
<1>1. batch.next \in Updates /\ batch.next >= offset
  BY DEF IInv, TypeOK, BatchInHand, OffsetBehind
<1>2. handled \in [Updates -> Nat] /\ deaths \in Nat
  BY DEF IInv, TypeOK
<1>3. /\ \A u \in Updates : handled[u] <= deaths + 1
      /\ handled[batch.next] <= deaths
  BY <1>1 DEF IInv, NotYetHandled
<1>4. CASE handled' = handled
  BY <1>1, <1>2, <1>3, <1>4
<1>5. CASE handled' = [handled EXCEPT ![batch.next] = @ + 1]
  <2>1. handled[batch.next] + 1 \in Nat
    BY <1>1, <1>2
  <2>2. \A u \in Updates : handled'[u] = IF u = batch.next THEN handled[u] + 1 ELSE handled[u]
    BY <1>2, <1>5
  <2>3. handled' \in [Updates -> Nat]
    BY <1>2, <1>5, <2>1
  <2>4. ASSUME NEW u \in Updates
        PROVE  /\ handled'[u] >= handled[u] /\ handled'[u] <= deaths + 1
               /\ u # batch.next => handled'[u] = handled[u]
    <3>1. handled[u] \in Nat /\ handled[u] <= deaths + 1
      BY <1>2, <1>3
    <3>2. CASE u = batch.next
      BY <1>2, <1>3, <2>2, <3>1, <3>2
    <3>3. CASE u # batch.next
      BY <2>2, <3>1, <3>3
    <3> QED BY <3>2, <3>3
  <2> QED BY <1>1, <2>3, <2>4
<1> QED BY <1>4, <1>5

LEMMA HandleUpdateStep == ASSUME IInv, HandleUpdate PROVE IInv'
<1>1. /\ batch.next \in Updates /\ handled' \in [Updates -> Nat]
      /\ \A u \in Updates : /\ handled'[u] >= handled[u] /\ handled'[u] <= deaths + 1
                            /\ u # batch.next => handled'[u] = handled[u]
  BY Gives DEF HandleUpdate
<1>2. batch.next \notin Unsupported => handled'[batch.next] > 0
  BY <1>1 DEF HandleUpdate, IInv, TypeOK
<1>3. /\ offset' = batch.next + 1 /\ batch' = [batch EXCEPT !.next = batch.next + 1]
      /\ pc = "batch" /\ pc' = IF batch.next = batch.last THEN "save" ELSE "batch"
      /\ UNCHANGED <<arrived, confirmed, stored, deaths, skipped>>
  BY DEF HandleUpdate, OffsetAfter
<1>4. batch \in [next : Nat, last : Nat] /\ batch'.next = batch.next + 1 /\ batch'.last = batch.last
  BY <1>3 DEF IInv, TypeOK
<1>5. TypeOK'
  <2>1. batch' \in [next : Nat, last : Nat] /\ offset' \in Nat
    BY <1>3, <1>4
  <2>2. pc' \in {"save", "batch"}
    BY <1>3
  <2> QED BY <1>1, <1>3, <2>1, <2>2 DEF IInv, TypeOK
<1>6. BatchInHand' /\ OffsetBehind'
  BY <1>3, <1>4 DEF IInv, TypeOK, BatchInHand, OffsetBehind
<1>7. \A u \in Updates : Passed(u)' => Passed(u) \/ u = batch.next
  BY <1>3, <1>4 DEF IInv, TypeOK, Passed
<1>8. PassedIsSettled'
  <2>1. \A u \in Updates : Settled(u) => Settled(u)'
    <3>1. \A u \in Updates : handled[u] \in Nat /\ handled'[u] \in Nat /\ handled'[u] >= handled[u]
      BY <1>1 DEF IInv, TypeOK
    <3> QED BY <1>3, <3>1 DEF Settled
  <2>2. \A u \in Updates : u = batch.next => Settled(u)'
    BY <1>2, <1>3 DEF Settled
  <2> QED BY <1>7, <2>1, <2>2 DEF IInv, PassedIsSettled
<1>9. NotYetHandled'
  <2>1. offset \in Nat /\ offset <= batch.next /\ batch.next \in Nat
    BY <1>3, <1>4 DEF IInv, TypeOK, OffsetBehind
  <2>2. ASSUME NEW u \in Updates, u >= offset'
        PROVE  handled'[u] <= deaths
    <3>1. u # batch.next /\ u >= offset
      BY <1>3, <2>1, <2>2
    <3> QED BY <1>1, <1>3, <3>1 DEF IInv, NotYetHandled
  <2> QED BY <1>1, <1>3, <2>2 DEF NotYetHandled
<1> QED BY <1>5, <1>6, <1>8, <1>9 DEF IInv

LEMMA SaveOffsetStep == ASSUME IInv, SaveOffset PROVE IInv'
BY DEF SaveOffset, SavedOffset, NoBatch, IInv, TypeOK, BatchInHand, PassedIsSettled, Passed, Settled, OffsetBehind, NotYetHandled

-----------------------------------------------------------------------------
(* The process ends, perhaps in the middle of a handler.                   *)
LEMMA DiesStep ==
  ASSUME IInv, Dies, UNCHANGED <<arrived, confirmed, stored, deaths, skipped>>,
         \/ handled' = handled
         \/ pc = "batch" /\ handled' = [handled EXCEPT ![batch.next] = @ + 1]
  PROVE  IInv'
<1>1. /\ handled' \in [Updates -> Nat]
      /\ \A u \in Updates : handled'[u] >= handled[u] /\ handled'[u] <= deaths + 1
  <2>1. CASE handled' = handled
    BY <2>1 DEF IInv, TypeOK, NotYetHandled
  <2>2. CASE pc = "batch" /\ handled' = [handled EXCEPT ![batch.next] = @ + 1]
    BY <2>2, Gives
  <2> QED BY <2>1, <2>2
<1>2. TypeOK' /\ BatchInHand' /\ OffsetBehind'
  BY <1>1 DEF Dies, NoBatch, IInv, TypeOK, BatchInHand, OffsetBehind
<1>3. PassedIsSettled'
  BY <1>1 DEF Dies, IInv, TypeOK, PassedIsSettled, Passed, Settled
<1>4. NotYetHandled'
  BY <1>1 DEF Dies, NotYetHandled
<1> QED BY <1>2, <1>3, <1>4 DEF IInv

LEMMA RestartStep == ASSUME IInv, Restart PROVE IInv'
BY DEF Restart, IInv, TypeOK, BatchInHand, PassedIsSettled, Passed, Settled, OffsetBehind, NotYetHandled

LEMMA Inductive == Spec => []IInv
<1>1. Init => IInv
  BY DEF Init, NoBatch, IInv, TypeOK, BatchInHand, PassedIsSettled, Passed, Settled, OffsetBehind, NotYetHandled
<1>2. IInv /\ [Next]_vars => IInv'
  <2> SUFFICES ASSUME IInv, [Next]_vars PROVE IInv'
    OBVIOUS
  <2>1. CASE UNCHANGED vars
    BY <2>1 DEF vars, IInv, TypeOK, BatchInHand, PassedIsSettled, Passed, Settled, OffsetBehind, NotYetHandled
  <2>2. CASE Arrive
    BY <2>2, Keep DEF Arrive, IInv, TypeOK
  <2>3. CASE RetryAfter \/ WakeUp
    <3>1. /\ UNCHANGED <<confirmed, stored, offset, batch, deaths, handled, skipped, arrived>>
          /\ pc \in {"poll", "sleep"} /\ pc' \in {"poll", "sleep"}
      BY <2>3 DEF RetryAfter, WakeUp
    <3>2. arrived' \in arrived..MaxUpdates
      BY <3>1 DEF IInv, TypeOK
    <3> QED BY <3>1, <3>2, Keep
  <2>4. CASE Conflict
    <3>1. CASE Dies
      BY <2>4, <3>1, DiesStep DEF Conflict
    <3>2. CASE ~Dies
      BY <2>4, <3>2, Keep DEF Conflict, IInv, TypeOK
    <3> QED BY <3>1, <3>2
  <2>5. CASE NetworkError
    <3>1. CASE Dies
      BY <2>5, <3>1, DiesStep DEF NetworkError
    <3>2. CASE ~Dies
      BY <2>5, <3>2, Keep DEF NetworkError, IInv, TypeOK
    <3> QED BY <3>1, <3>2
  <2>6. CASE Death
    BY <2>6, DiesStep DEF Death
  <2> QED BY <2>1, <2>2, <2>3, <2>4, <2>5, <2>6, InitializeStep, SavesSkipStep, PollOnceStep,
             EmptyPollStep, HandleUpdateStep, SaveOffsetStep, RestartStep DEF Next, Poller
<1> QED BY <1>1, <1>2, PTL DEF Spec

(* The state is well typed, for any bounds.                                *)
THEOREM TypeCorrect == Spec => []TypeOK
<1>1. IInv => TypeOK
  BY DEF IInv
<1> QED BY <1>1, Inductive, PTL

(* However polls fail and whenever the process dies, Telegram forgets an   *)
(* update and the stored offset passes it only after the handler was given *)
(* it, unless it is of no known kind or was passed over at the start.      *)
THEOREM NothingLost == Spec => []NoUpdateLost
<1>1. IInv => NoUpdateLost
  BY DEF IInv, PassedIsSettled, Passed, NoUpdateLost
<1> QED BY <1>1, Inductive, PTL

(* An update is handled at most once in the life of a process.             *)
THEOREM OncePerLife == Spec => []HandledOncePerLife
<1>1. IInv => HandledOncePerLife
  BY DEF IInv, NotYetHandled, HandledOncePerLife
<1> QED BY <1>1, Inductive, PTL
==============================================================================
