---------------------------- MODULE ChatTurnProofs ---------------------------
(***************************************************************************)
(* Proofs about the chat path, for every number of turns, text length,     *)
(* catalog, buffer size and timeout: types, the history's alternation,     *)
(* failed turns that have shown nothing, and, if every event fits the line *)
(* buffer, replies without a hole.                                         *)
(***************************************************************************)
EXTENDS ChatTurn, SequenceTheorems, TLAPS

----------------------------------------------------------------------------
(* Lemmas about the wire.                                                  *)

(* The first n elements of a sequence.                                     *)
LEMMA FrontProperties ==
  ASSUME NEW S, NEW s \in Seq(S), NEW n \in 0..Len(s)
  PROVE  /\ SubSeq(s, 1, n) \in Seq(S)
         /\ Len(SubSeq(s, 1, n)) = n
         /\ \A i \in 1..n : SubSeq(s, 1, n)[i] = s[i]
<1>1. Len(s) \in Nat /\ n \in Nat /\ n \in Int /\ 1 \in Int
  BY LenProperties
<1>2. \A i \in 1..n : s[i] \in S
  BY <1>1, ElementOfSeq
<1>3. /\ SubSeq(s, 1, n) \in Seq(S)
      /\ Len(SubSeq(s, 1, n)) = IF 1 <= n THEN n - 1 + 1 ELSE 0
      /\ \A i \in 1..(n - 1 + 1) : SubSeq(s, 1, n)[i] = s[1 + i - 1]
  BY <1>1, <1>2, SubSeqProperties
<1> QED
  BY <1>1, <1>3

(* The constructors of lines build lines.                                  *)
LEMMA LineTypes ==
  /\ \A c \in Codes : StatusLine(c) \in Line
  /\ \A k \in {"blank", "done", "rest"} : Other(k) \in Line
  /\ \A lo \in 1..(MaxText + 1), hi \in 0..MaxText :
       lo <= hi + 1 => DataLine(lo, hi) \in Line
BY TurnAssumption DEF Line, StatusLine, Other, DataLine, Codes

(* The text a line shows is text of its turn: the units lo, lo + 1, ...    *)
LEMMA ShownProperties ==
  ASSUME NEW t \in Turns, NEW line \in Line, NEW n \in Nat
  PROVE  /\ Shown(t, line, n) \in Text
         /\ Len(Shown(t, line, n)) \in Nat
         /\ Len(Shown(t, line, n)) <= line.hi - line.lo + 1
         /\ \A i \in 1..Len(Shown(t, line, n)) :
              Shown(t, line, n)[i] = <<t, line.lo + i - 1>>
<1> DEFINE whole == line.hi - line.lo + 1
           len   == IF whole < n THEN whole ELSE n
<1>1. /\ line.lo \in 1..(MaxText + 1) /\ line.hi \in 0..MaxText
      /\ line.lo <= line.hi + 1
  BY TurnAssumption DEF Line
<1>2. len \in Nat /\ len <= whole /\ whole \in Nat
  BY <1>1, TurnAssumption
<1>3. Shown(t, line, n) = [i \in 1..len |-> <<t, line.lo + i - 1>>]
  BY DEF Shown
<1>4. \A i \in 1..len : <<t, line.lo + i - 1>> \in Unit
  BY <1>1, <1>2, TurnAssumption DEF Unit
<1>5. Shown(t, line, n) \in [1..len -> Unit]
  BY <1>3, <1>4
<1>6. Shown(t, line, n) \in Seq(Unit) /\ Len(Shown(t, line, n)) = len
  BY <1>2, <1>5
<1> QED
  BY <1>1, <1>2, <1>3, <1>6 DEF Text

(* Writing lines and hanging up keep the wire and the sockets well typed.  *)
LEMMA WriteType ==
  ASSUME WireTypeOK, NEW t \in Turns, NEW lines \in Seq(Line), Write(t, lines)
  PROVE  wire' \in [Turns -> Seq(Line)]
<1>1. wire[t] \o lines \in Seq(Line)
  BY ConcatProperties DEF WireTypeOK
<1> QED
  BY <1>1 DEF Write, WireTypeOK

LEMMA HangupType ==
  ASSUME WireTypeOK, NEW t \in Turns, Hangup(t)
  PROVE  sock' \in [Turns -> {"none", "open", "eof", "closed"}]
BY DEF Hangup, WireTypeOK

LEMMA RespondType ==
  ASSUME WireTypeOK, ProxyTypeOK, NEW t \in Turns, NEW c \in Codes, Respond(t, c)
  PROVE  /\ sock' \in [Turns -> {"none", "open", "eof", "closed"}]
         /\ wire' \in [Turns -> Seq(Line)]
         /\ handler' \in [Turns -> {"none", "first", "stream", "finish", "ended"}]
<1>1. ResponseHead(c) \in Seq(Line)
  BY LineTypes DEF ResponseHead
<1> QED
  BY <1>1, WriteType, HangupType DEF Respond, ProxyTypeOK

----------------------------------------------------------------------------
(* Type correctness of the network and of the proxy.                       *)

\* Where a chunk of letters may be cut: before its last letter at the latest.
LEMMA CutWithin ==
  ASSUME NEW lo \in 1..(MaxText + 1), NEW hi \in 0..MaxText,
         NEW cut \in (lo - 1)..(hi - 1)
  PROVE  cut \in 0..MaxText /\ lo <= cut + 1 /\ cut <= hi
  BY TurnAssumption

LEMMA ResetType ==
  ASSUME WireTypeOK, NEW t \in Turns, Reset(t)
  PROVE  WireTypeOK'
<1>1. sock' \in [Turns -> {"none", "open", "eof", "closed"}]
  BY DEF Reset, WireTypeOK
<1>2. wire' \in [Turns -> Seq(Line)]
  <2>1. PICK k \in 0..Len(wire[t]) :
          \/ wire' = [wire EXCEPT ![t] = SubSeq(@, 1, k)]
          \/ /\ k > 0
             /\ \E cut \in (wire[t][k].lo - 1)..(wire[t][k].hi - 1) :
                  wire' = [wire EXCEPT ![t] =
                             Append(SubSeq(@, 1, k - 1),
                                    DataLine(wire[t][k].lo, cut))]
    BY DEF Reset
  <2>2. wire[t] \in Seq(Line)
    BY DEF WireTypeOK
  <2>3. SubSeq(wire[t], 1, k) \in Seq(Line)
    BY <2>2, SubSeqProperties, ElementOfSeq
  <2>4. CASE wire' = [wire EXCEPT ![t] = SubSeq(@, 1, k)]
    BY <2>3, <2>4 DEF WireTypeOK
  <2>5. CASE /\ k > 0
             /\ \E cut \in (wire[t][k].lo - 1)..(wire[t][k].hi - 1) :
                  wire' = [wire EXCEPT ![t] =
                             Append(SubSeq(@, 1, k - 1),
                                    DataLine(wire[t][k].lo, cut))]
    <3>1. PICK cut \in (wire[t][k].lo - 1)..(wire[t][k].hi - 1) :
                  wire' = [wire EXCEPT ![t] =
                             Append(SubSeq(@, 1, k - 1),
                                    DataLine(wire[t][k].lo, cut))]
      BY <2>5
    <3>2. wire[t][k] \in Line
      BY <2>2, <2>5, ElementOfSeq
    <3>3. DataLine(wire[t][k].lo, cut) \in Line
      <4>1. /\ wire[t][k].lo \in 1..(MaxText + 1) /\ wire[t][k].hi \in 0..MaxText
            /\ wire[t][k].lo <= wire[t][k].hi + 1
        BY <3>2 DEF Line
      <4>2. cut \in 0..MaxText /\ wire[t][k].lo <= cut + 1
        BY <4>1, CutWithin
      <4> QED
        BY <4>1, <4>2, LineTypes
    <3>4. SubSeq(wire[t], 1, k - 1) \in Seq(Line)
      BY <2>2, <2>5, SubSeqProperties, ElementOfSeq
    <3>5. Append(SubSeq(wire[t], 1, k - 1), DataLine(wire[t][k].lo, cut)) \in Seq(Line)
      BY <3>3, <3>4, AppendProperties
    <3> QED
      BY <3>1, <3>5 DEF WireTypeOK
  <2> QED
    BY <2>1, <2>4, <2>5
<1> QED
  BY <1>1, <1>2 DEF Reset, WireTypeOK

LEMMA ProxyType ==
  ASSUME WireTypeOK, ProxyTypeOK, ProxyNext
  PROVE  WireTypeOK' /\ ProxyTypeOK'
<1>1. ASSUME NEW t \in Turns, Accept(t)
      PROVE  WireTypeOK' /\ ProxyTypeOK'
  <2>1. Refusal(via[t]) \in Codes
    BY DEF Refusal, Codes, WireTypeOK, ProxyTypeOK
  <2>2. CASE Refusal(via[t]) # 200
    BY <1>1, <2>1, <2>2, RespondType DEF Accept, WireTypeOK, ProxyTypeOK
  <2>3. CASE Refusal(via[t]) = 200
    <3>1. /\ handler' = [handler EXCEPT ![t] = "first"]
          /\ UNCHANGED <<sock, wire, asked, via, bearer, gen, role>>
      BY <1>1, <2>3 DEF Accept
    <3> QED
      BY <3>1 DEF WireTypeOK, ProxyTypeOK
  <2> QED
    BY <2>2, <2>3
<1>2. ASSUME NEW t \in Turns, NEW e \in UpstreamEvents, StreamEvent(t, e)
      PROVE  WireTypeOK' /\ ProxyTypeOK'
  <2>1. e.n \in Nat
    BY DeltaAssumption DEF UpstreamEvents, Events, WireTypeOK, ProxyTypeOK
  <2>2. gen[t] + e.n \in 0..MaxText /\ gen' \in [Turns -> 0..MaxText]
    BY <1>2, <2>1, TurnAssumption DEF StreamEvent, WireTypeOK, ProxyTypeOK
  <2>3. role' \in [Turns -> BOOLEAN]
    BY <1>2 DEF StreamEvent, WireTypeOK, ProxyTypeOK
  <2>4. Chunk(t, e) \in Line
    <3>1. gen[t] + 1 \in 1..(MaxText + 1) /\ gen[t] + 1 <= gen[t] + e.n + 1
      BY <2>1, TurnAssumption DEF WireTypeOK, ProxyTypeOK
    <3> QED
      BY <2>2, <3>1, LineTypes DEF Chunk, WireTypeOK, ProxyTypeOK
  <2>5. CASE handler[t] = "first" /\ ~Yields(via[t], e, role[t])
    <3>1. 502 \in Codes
      BY DEF Codes, WireTypeOK, ProxyTypeOK
    <3>2. Respond(t, 502) /\ UNCHANGED <<asked, via, bearer>>
      BY <1>2, <2>5 DEF StreamEvent, WireTypeOK, ProxyTypeOK
    <3> QED
      BY <2>2, <2>3, <3>1, <3>2, RespondType DEF WireTypeOK, ProxyTypeOK
  <2>6. CASE ~(handler[t] = "first" /\ ~Yields(via[t], e, role[t]))
    <3> DEFINE chunk == IF Yields(via[t], e, role[t]) THEN <<Chunk(t, e)>> ELSE << >>
               lines == Opening(handler[t] = "first", chunk)
    <3>1. chunk \in Seq(Line)
      BY <2>4 DEF WireTypeOK, ProxyTypeOK
    <3>2. ResponseHead(200) \in Seq(Line)
      BY LineTypes DEF Codes, ResponseHead
    <3>3. lines \in Seq(Line)
      BY <3>1, <3>2, ConcatProperties DEF Opening, WireTypeOK, ProxyTypeOK
    <3>4. Write(t, lines)
      BY <1>2, <2>6 DEF StreamEvent, WireTypeOK, ProxyTypeOK
    <3>5. wire' \in [Turns -> Seq(Line)]
      BY <3>3, <3>4, WriteType DEF WireTypeOK, ProxyTypeOK
    <3>6. handler' \in [Turns -> {"none", "first", "stream", "finish", "ended"}]
      BY <1>2, <2>6 DEF StreamEvent, WireTypeOK, ProxyTypeOK
    <3> QED
      BY <1>2, <2>2, <2>3, <2>6, <3>5, <3>6 DEF StreamEvent, WireTypeOK, ProxyTypeOK
  <2> QED
    BY <2>5, <2>6
<1>3. ASSUME NEW t \in Turns, SendDone(t)
      PROVE  WireTypeOK' /\ ProxyTypeOK'
  <2>1. <<Other("done")>> \in Seq(Line)
    BY LineTypes DEF WireTypeOK, ProxyTypeOK
  <2> QED
    BY <1>3, <2>1, WriteType, HangupType DEF SendDone, WireTypeOK, ProxyTypeOK
<1>4. ASSUME NEW t \in Turns, UpstreamFails(t)
      PROVE  WireTypeOK' /\ ProxyTypeOK'
  <2>1. {502, 500} \subseteq Codes
    BY DEF Codes, WireTypeOK, ProxyTypeOK
  <2>2. CASE handler[t] = "first"
    BY <1>4, <2>1, <2>2, RespondType DEF UpstreamFails, WireTypeOK, ProxyTypeOK
  <2>3. CASE handler[t] = "stream"
    BY <1>4, <2>3, HangupType DEF UpstreamFails, WireTypeOK, ProxyTypeOK
  <2> QED
    BY <1>4, <2>2, <2>3 DEF UpstreamFails, WireTypeOK, ProxyTypeOK
<1>5. ASSUME NEW t \in Turns, Cancelled(t)
      PROVE  WireTypeOK' /\ ProxyTypeOK'
  BY <1>5 DEF Cancelled, WireTypeOK, ProxyTypeOK
<1> QED
  BY <1>1, <1>2, <1>3, <1>4, <1>5 DEF ProxyNext, WireTypeOK, ProxyTypeOK

----------------------------------------------------------------------------
(* The device: its types and the shape of its history are inductive only   *)
(* together, because Fail pops a message that must be there.               *)

HistoryInv == TypeOK /\ HistoryAlternates

(* Parity, for the lengths of histories.                                   *)
LEMMA Parity ==
  ASSUME NEW n \in Nat
  PROVE  /\ n % 2 \in {0, 1}
         /\ n % 2 = 1 => n >= 1 /\ (n - 1) % 2 = 0 /\ (n + 1) % 2 = 0
         /\ n % 2 = 0 => (n + 1) % 2 = 1
OBVIOUS

(* A turn that ends in an error pops exactly the question it pushed.       *)
LEMMA FailKeepsHistory ==
  ASSUME HistoryInv, pc # "idle", Fail
  PROVE  history' \in Seq(Message) /\ HistoryAlternates'
<1>1. history \in Seq(Message) /\ Len(history) \in Nat /\ Len(history) % 2 = 1
  BY LenProperties DEF HistoryInv, TypeOK, DeviceTypeOK, HistoryAlternates
<1>2. Len(history) - 1 \in 0..Len(history)
  BY <1>1, Parity
<1>3. /\ history' \in Seq(Message) /\ Len(history') = Len(history) - 1
      /\ \A i \in 1..(Len(history) - 1) : history'[i] = history[i]
  BY <1>1, <1>2, FrontProperties DEF Fail
<1>4. Len(history') % 2 = 0 /\ pc' = "idle"
  BY <1>1, <1>3, Parity DEF Fail, Return
<1>5. \A i \in 1..Len(history') :
        history'[i].role = IF i % 2 = 1 THEN "user" ELSE "assistant"
  BY <1>1, <1>3 DEF HistoryInv, HistoryAlternates, Alternates
<1> QED
  BY <1>3, <1>4, <1>5 DEF HistoryAlternates, Alternates

(* A turn that succeeds appends its answer after its question.             *)
LEMMA SucceedKeepsHistory ==
  ASSUME HistoryInv, pc # "idle", Succeed
  PROVE  history' \in Seq(Message) /\ HistoryAlternates'
<1>1. history \in Seq(Message) /\ Len(history) \in Nat /\ Len(history) % 2 = 1
  BY LenProperties DEF HistoryInv, TypeOK, DeviceTypeOK, HistoryAlternates
<1>2. AssistantMessage(reply) \in Message
  BY DEF HistoryInv, TypeOK, DeviceTypeOK, AssistantMessage, Message
<1>3. /\ history' \in Seq(Message) /\ Len(history') = Len(history) + 1
      /\ \A i \in 1..Len(history) : history'[i] = history[i]
      /\ history'[Len(history) + 1] = AssistantMessage(reply)
  BY <1>1, <1>2, AppendProperties DEF Succeed
<1>4. Len(history') % 2 = 0 /\ (Len(history) + 1) % 2 = 0
  BY <1>1, <1>3, Parity
<1>5. \A i \in 1..Len(history') :
        history'[i].role = IF i % 2 = 1 THEN "user" ELSE "assistant"
  BY <1>1, <1>3, <1>4 DEF HistoryInv, HistoryAlternates, Alternates, AssistantMessage
<1> QED
  BY <1>3, <1>4, <1>5 DEF Succeed, Return, HistoryAlternates, Alternates

(* Reading a line takes it off the wire; closing the socket drops the rest. *)
LEMMA SocketType ==
  ASSUME WireTypeOK, turn \in Turns
  PROVE  /\ CloseSocket => /\ sock' \in [Turns -> {"none", "open", "eof", "closed"}]
                           /\ wire' \in [Turns -> Seq(Line)]
         /\ Consume /\ wire[turn] # << >> => wire' \in [Turns -> Seq(Line)]
<1>1. wire[turn] # << >> => Tail(wire[turn]) \in Seq(Line)
  BY HeadTailProperties DEF WireTypeOK
<1>2. << >> \in Seq(Line)
  OBVIOUS
<1>3. ASSUME CloseSocket
      PROVE  /\ sock' \in [Turns -> {"none", "open", "eof", "closed"}]
             /\ wire' \in [Turns -> Seq(Line)]
  BY <1>2, <1>3 DEF CloseSocket, WireTypeOK
<1>4. ASSUME Consume, wire[turn] # << >> PROVE wire' \in [Turns -> Seq(Line)]
  BY <1>1, <1>4 DEF Consume, WireTypeOK
<1> QED
  BY <1>3, <1>4

LEMMA FinishBodyHistory ==
  ASSUME HistoryInv, pc \in {"body", "line"}, FinishBody, ended' \in BOOLEAN
  PROVE  WireTypeOK' /\ DeviceTypeOK' /\ HistoryAlternates'
<1>1. turn \in Turns /\ WireTypeOK
  BY DEF HistoryInv, TypeOK, DeviceTypeOK
<1>2. history' \in Seq(Message) /\ HistoryAlternates'
  BY SucceedKeepsHistory DEF FinishBody
<1>3. WireTypeOK'
  BY <1>1, SocketType DEF FinishBody, WireTypeOK
<1>4. DeviceTypeOK'
  BY <1>2 DEF FinishBody, Succeed, Return, HistoryInv, TypeOK, DeviceTypeOK, Codes
<1> QED
  BY <1>2, <1>3, <1>4

(* Every step of a turn keeps the types and the shape of the history.      *)
LEMMA TurnStepHistory ==
  ASSUME HistoryInv, TurnStep
  PROVE  WireTypeOK' /\ DeviceTypeOK' /\ HistoryAlternates'
<1> DEFINE Goal == WireTypeOK' /\ DeviceTypeOK' /\ HistoryAlternates'
<1>0. /\ WireTypeOK /\ DeviceTypeOK /\ HistoryAlternates
      /\ wire \in [Turns -> Seq(Line)]
      /\ pc # "idle" => turn \in Turns
  BY DEF HistoryInv, TypeOK, WireTypeOK, DeviceTypeOK
<1>1. ASSUME ConnectFails PROVE Goal
  <2>1. pc = "connect" /\ Fail /\ UNCHANGED <<active, turn, reply, ended, wireVars>>
    BY <1>1 DEF ConnectFails
  <2>2. history' \in Seq(Message) /\ HistoryAlternates'
    BY <2>1, FailKeepsHistory
  <2>3. WireTypeOK'
    BY <1>0, <2>1 DEF WireTypeOK, wireVars
  <2>4. DeviceTypeOK'
    BY <1>0, <2>1, <2>2 DEF Fail, Return, DeviceTypeOK, Codes
  <2> QED
    BY <2>2, <2>3, <2>4
<1>2. ASSUME Connect PROVE Goal
  <2>1. turn \in Turns /\ history \in Seq(Message) /\ active \in Profiles
    BY <1>0, <1>2 DEF Connect, DeviceTypeOK
  <2>2. WireTypeOK'
    BY <1>0, <1>2, <2>1 DEF Connect, WireTypeOK
  <2>3. DeviceTypeOK'
    BY <1>0, <1>2 DEF Connect, DeviceTypeOK
  <2>4. HistoryAlternates'
    BY <1>0, <1>2 DEF Connect, HistoryAlternates, Alternates
  <2> QED
    BY <2>2, <2>3, <2>4
<1>3. ASSUME ReadStatus PROVE Goal
  <2>1. turn \in Turns /\ wire[turn] # << >> /\ wire[turn] \in Seq(Line)
    BY <1>0, <1>3 DEF ReadStatus, HasLine
  <2>2. Head(wire[turn]).code \in Codes
    BY <2>1, HeadTailProperties DEF Line
  <2>3. WireTypeOK'
    BY <1>0, <1>3, <2>1, SocketType DEF ReadStatus, WireTypeOK
  <2>4. DeviceTypeOK'
    BY <1>0, <1>3, <2>2 DEF ReadStatus, DeviceTypeOK
  <2>5. HistoryAlternates'
    BY <1>0, <1>3 DEF ReadStatus, HistoryAlternates, Alternates
  <2> QED
    BY <2>3, <2>4, <2>5
<1>4. ASSUME NoStatusLine PROVE Goal
  <2>1. /\ pc = "status" /\ Fail /\ CloseSocket /\ turn \in Turns
        /\ UNCHANGED <<active, turn, reply, ended, asked, via>>
    BY <1>0, <1>4 DEF NoStatusLine
  <2>2. history' \in Seq(Message) /\ HistoryAlternates'
    BY <2>1, FailKeepsHistory
  <2>3. WireTypeOK'
    BY <1>0, <2>1, SocketType DEF WireTypeOK
  <2>4. DeviceTypeOK'
    BY <1>0, <2>1, <2>2 DEF Fail, Return, DeviceTypeOK, Codes
  <2> QED
    BY <2>2, <2>3, <2>4
<1>5. ASSUME ReadHeaders PROVE Goal
  <2>1. /\ pc = "headers" /\ turn \in Turns
        /\ UNCHANGED <<active, turn, reply, ended, asked, via>>
    BY <1>0, <1>5 DEF ReadHeaders
  <2>2. CASE code = 200
    <3>1. /\ IF HasLine(HeadTicks) THEN Consume ELSE UNCHANGED wire
          /\ pc' = "body" /\ wait' = 0 /\ elapsed' = 0
          /\ UNCHANGED <<history, code, status, sock>>
      BY <1>5, <2>2 DEF ReadHeaders
    <3>2. WireTypeOK'
      BY <1>0, <2>1, <3>1, SocketType DEF HasLine, WireTypeOK
    <3>3. DeviceTypeOK'
      BY <1>0, <2>1, <3>1 DEF DeviceTypeOK
    <3>4. HistoryAlternates'
      BY <1>0, <2>1, <3>1 DEF HistoryAlternates, Alternates
    <3> QED
      BY <3>2, <3>3, <3>4
  <2>3. CASE code # 200
    <3>1. Fail /\ CloseSocket
      BY <1>5, <2>3 DEF ReadHeaders
    <3>2. history' \in Seq(Message) /\ HistoryAlternates'
      BY <2>1, <3>1, FailKeepsHistory
    <3>3. WireTypeOK'
      BY <1>0, <2>1, <3>1, SocketType DEF WireTypeOK
    <3>4. DeviceTypeOK'
      BY <1>0, <2>1, <3>1, <3>2 DEF Fail, Return, DeviceTypeOK, Codes
    <3> QED
      BY <3>2, <3>3, <3>4
  <2> QED
    BY <2>2, <2>3
<1>6. ASSUME BodyLoop PROVE Goal
  <2>1. WireTypeOK' /\ DeviceTypeOK'
    BY <1>0, <1>6 DEF BodyLoop, WireTypeOK, DeviceTypeOK, wireVars
  <2>2. HistoryAlternates'
    BY <1>0, <1>6 DEF BodyLoop, HistoryAlternates, Alternates
  <2> QED
    BY <2>1, <2>2
<1>7. ASSUME BodyDeadline \/ BodyQuiet \/ ReadDone PROVE Goal
  <2>1. pc \in {"body", "line"} /\ FinishBody
    BY <1>7 DEF BodyDeadline, BodyQuiet, ReadDone
  <2>2. ended' \in BOOLEAN
    BY <1>0, <1>7 DEF BodyDeadline, BodyQuiet, ReadDone, DeviceTypeOK
  <2> QED
    BY <2>1, <2>2, FinishBodyHistory
<1>8. ASSUME ReadData PROVE Goal
  <2> DEFINE line == Head(wire[turn])
             tail == IF line.hi - line.lo + 1 > LineCap THEN <<Other("rest")>> ELSE << >>
  <2>1. /\ turn \in Turns /\ wire[turn] # << >> /\ wire[turn] \in Seq(Line)
        /\ pc = "line" /\ pc' = "body" /\ wait' = 0
        /\ reply' = reply \o Shown(turn, line, LineCap)
        /\ wire' = [wire EXCEPT ![turn] = tail \o Tail(@)]
        /\ UNCHANGED <<history, active, turn, code, ended, status, elapsed, sock, asked, via>>
    BY <1>0, <1>8 DEF ReadData, HasLine
  <2>2. line \in Line /\ Tail(wire[turn]) \in Seq(Line)
    BY <2>1, HeadTailProperties
  <2>3. tail \in Seq(Line)
    BY LineTypes
  <2>4. tail \o Tail(wire[turn]) \in Seq(Line)
    BY <2>2, <2>3, ConcatProperties
  <2>5. WireTypeOK'
    BY <1>0, <2>1, <2>4 DEF WireTypeOK
  <2>6. LineCap \in Nat /\ Shown(turn, line, LineCap) \in Text
    BY <2>1, <2>2, ShownProperties, TickAssumption
  <2>7. reply' \in Text
    BY <1>0, <2>1, <2>6, ConcatProperties DEF DeviceTypeOK, Text
  <2>8. DeviceTypeOK'
    BY <1>0, <2>1, <2>7 DEF DeviceTypeOK
  <2>9. HistoryAlternates'
    BY <1>0, <2>1 DEF HistoryAlternates, Alternates
  <2> QED
    BY <2>5, <2>8, <2>9
<1>9. ASSUME SkipLine PROVE Goal
  <2>1. turn \in Turns /\ wire[turn] # << >>
    BY <1>0, <1>9 DEF SkipLine, HasLine
  <2>2. WireTypeOK'
    BY <1>0, <1>9, <2>1, SocketType DEF SkipLine, WireTypeOK
  <2>3. DeviceTypeOK'
    BY <1>0, <1>9 DEF SkipLine, DeviceTypeOK
  <2>4. HistoryAlternates'
    BY <1>0, <1>9 DEF SkipLine, HistoryAlternates, Alternates
  <2> QED
    BY <2>2, <2>3, <2>4
<1> QED
  BY <1>1, <1>2, <1>3, <1>4, <1>5, <1>6, <1>7, <1>8, <1>9 DEF TurnStep

LEMMA DeviceHistory ==
  ASSUME HistoryInv, DeviceNext
  PROVE  WireTypeOK' /\ DeviceTypeOK' /\ HistoryAlternates'
<1> DEFINE Goal == WireTypeOK' /\ DeviceTypeOK' /\ HistoryAlternates'
<1>0. /\ WireTypeOK /\ DeviceTypeOK /\ HistoryAlternates
      /\ history \in Seq(Message) /\ Len(history) \in Nat
  BY LenProperties DEF HistoryInv, TypeOK, DeviceTypeOK
<1>1. ASSUME Tick PROVE Goal
  <2>1. WireTypeOK' /\ DeviceTypeOK'
    BY <1>0, <1>1 DEF Tick, WireTypeOK, DeviceTypeOK, wireVars
  <2>2. HistoryAlternates'
    BY <1>0, <1>1 DEF Tick, HistoryAlternates, Alternates
  <2> QED
    BY <2>1, <2>2
<1>2. ASSUME Send PROVE Goal
  <2>1. /\ turn + 1 \in Turns /\ pc = "idle" /\ turn' = turn + 1 /\ pc' = "connect"
        /\ history' = Append(history, UserMessage(turn + 1))
    BY <1>0, <1>2, TurnAssumption DEF Send, DeviceTypeOK, Turns
  <2>2. UserMessage(turn + 1) \in Message
    <3>1. << <<turn + 1, 0>> >> \in Seq(Unit)
      BY <2>1, TurnAssumption DEF Unit
    <3> QED
      BY <3>1 DEF UserMessage, Message, Text
  <2>3. /\ history' \in Seq(Message) /\ Len(history') = Len(history) + 1
        /\ \A i \in 1..Len(history) : history'[i] = history[i]
        /\ history'[Len(history) + 1] = UserMessage(turn + 1)
    BY <1>0, <2>1, <2>2, AppendProperties
  <2>4. Len(history') % 2 = 1
    BY <1>0, <2>1, <2>3, Parity DEF HistoryAlternates
  <2>5. \A i \in 1..Len(history') :
          history'[i].role = IF i % 2 = 1 THEN "user" ELSE "assistant"
    BY <1>0, <2>3, <2>4 DEF HistoryAlternates, Alternates, UserMessage
  <2>6. HistoryAlternates'
    BY <2>1, <2>4, <2>5 DEF HistoryAlternates, Alternates
  <2>7. WireTypeOK'
    BY <1>0, <1>2 DEF Send, WireTypeOK, wireVars
  <2>8. << >> \in Text
    BY DEF Text
  <2>9. DeviceTypeOK'
    <3>1. turn' \in 0..MaxTurns /\ turn' \in Turns
      BY <2>1, TurnAssumption DEF Turns
    <3>2. /\ status' = "sending" /\ reply' = << >> /\ ended' = FALSE
          /\ UNCHANGED <<active, code, wait, elapsed>>
      BY <1>2 DEF Send
    <3> QED
      BY <1>0, <2>1, <2>3, <2>8, <3>1, <3>2 DEF DeviceTypeOK
  <2> QED
    BY <2>6, <2>7, <2>9
<1>3. ASSUME PickProfile PROVE Goal
  <2>1. WireTypeOK' /\ DeviceTypeOK'
    BY <1>0, <1>3 DEF PickProfile, WireTypeOK, DeviceTypeOK, wireVars
  <2>2. HistoryAlternates'
    BY <1>0, <1>3 DEF PickProfile, HistoryAlternates, Alternates
  <2> QED
    BY <2>1, <2>2
<1>4. ASSUME Reboot PROVE Goal
  <2>1. WireTypeOK'
    <3>1. CASE pc \in {"status", "headers", "body", "line"}
      <4>1. CloseSocket /\ UNCHANGED <<asked, via>> /\ turn \in Turns
        BY <1>0, <1>4, <3>1 DEF Reboot, DeviceTypeOK
      <4> QED
        BY <1>0, <4>1, SocketType DEF WireTypeOK
    <3>2. CASE pc \notin {"status", "headers", "body", "line"}
      BY <1>0, <1>4, <3>2 DEF Reboot, WireTypeOK
    <3> QED
      BY <3>1, <3>2
  <2>2. << >> \in Text /\ << >> \in Seq(Message) /\ Len(<< >>) = 0
    BY DEF Text
  <2>3. DeviceTypeOK'
    BY <1>0, <1>4, <2>2 DEF Reboot, Return, DeviceTypeOK, Codes
  <2>4. HistoryAlternates'
    BY <1>4, <2>2 DEF Reboot, Return, HistoryAlternates, Alternates
  <2> QED
    BY <2>1, <2>3, <2>4
<1> QED
  BY <1>1, <1>2, <1>3, <1>4, TurnStepHistory DEF DeviceNext

LEMMA HistoryInvInit == Init => HistoryInv
<1> SUFFICES ASSUME Init PROVE HistoryInv
  OBVIOUS
<1>1. << >> \in Text /\ << >> \in Seq(Message) /\ << >> \in Seq(Line) /\ Len(<< >>) = 0
  BY DEF Text
<1>2. WireTypeOK
  BY <1>1 DEF Init, WireInit, WireTypeOK
<1>3. DeviceTypeOK
  <2>1. 0 \in 0..MaxTurns /\ 0 \in Nat /\ 200 \in Codes
    BY TurnAssumption DEF Codes
  <2>2. /\ history = << >> /\ active \in Profiles /\ pc = "idle" /\ turn = 0
        /\ code = 200 /\ reply = << >> /\ ended = FALSE /\ status = "ready"
        /\ wait = 0 /\ elapsed = 0
    BY DEF Init, DeviceInit
  <2> QED
    BY <1>1, <2>1, <2>2 DEF DeviceTypeOK
<1>4. ProxyTypeOK
  BY TurnAssumption DEF Init, ProxyInit, ProxyTypeOK
<1>5. HistoryAlternates
  BY <1>1 DEF Init, DeviceInit, HistoryAlternates, Alternates
<1> QED
  BY <1>2, <1>3, <1>4, <1>5 DEF HistoryInv, TypeOK

LEMMA HistoryInvNext == HistoryInv /\ [Next]_vars => HistoryInv'
<1> SUFFICES ASSUME HistoryInv, [Next]_vars PROVE HistoryInv'
  OBVIOUS
<1>0. WireTypeOK /\ DeviceTypeOK /\ ProxyTypeOK /\ HistoryAlternates
  BY DEF HistoryInv, TypeOK
<1>1. CASE Device
  <2>1. WireTypeOK' /\ DeviceTypeOK' /\ HistoryAlternates'
    BY <1>1, DeviceHistory DEF Device
  <2>2. ProxyTypeOK'
    BY <1>0, <1>1 DEF Device, proxyVars, ProxyTypeOK
  <2> QED
    BY <2>1, <2>2 DEF HistoryInv, TypeOK
<1>2. ASSUME UNCHANGED deviceVars PROVE DeviceTypeOK' /\ HistoryAlternates'
  BY <1>0, <1>2 DEF deviceVars, DeviceTypeOK, HistoryAlternates, Alternates
<1>3. CASE Proxy
  BY <1>0, <1>2, <1>3, ProxyType DEF Proxy, HistoryInv, TypeOK
<1>4. CASE Network
  <2>1. WireTypeOK'
    BY <1>0, <1>4, ResetType DEF Network
  <2>2. ProxyTypeOK'
    BY <1>0, <1>4 DEF Network, proxyVars, ProxyTypeOK
  <2> QED
    BY <1>2, <1>4, <2>1, <2>2 DEF Network, HistoryInv, TypeOK
<1>5. CASE UNCHANGED vars
  <2>1. UNCHANGED deviceVars /\ UNCHANGED wireVars /\ UNCHANGED proxyVars
    BY <1>5 DEF vars
  <2>2. WireTypeOK' /\ ProxyTypeOK'
    BY <1>0, <2>1 DEF wireVars, WireTypeOK, proxyVars, ProxyTypeOK
  <2> QED
    BY <1>2, <2>1, <2>2 DEF HistoryInv, TypeOK
<1> QED
  BY <1>1, <1>3, <1>4, <1>5 DEF Next

(* Every variable of the chat path keeps its type, whatever the number of  *)
(* turns, the catalog and the timeouts.                                    *)
THEOREM TypeCorrect == Spec => []TypeOK
<1>1. HistoryInv => TypeOK
  BY DEF HistoryInv
<1> QED
  BY <1>1, HistoryInvInit, HistoryInvNext, PTL DEF Spec

(* The history alternates user and assistant, and holds a pending question *)
(* exactly while a turn runs, through every failure, timeout and reboot.   *)
THEOREM HistoryAlways == Spec => []HistoryAlternates
<1>1. HistoryInv => HistoryAlternates
  BY DEF HistoryInv
<1> QED
  BY <1>1, HistoryInvInit, HistoryInvNext, PTL DEF Spec
----------------------------------------------------------------------------
(* What is known of the connections: only the current turn's may still     *)
(* carry something, and what a handler has not begun is empty.             *)
Connected == {"status", "headers", "body", "line"}

Untouched ==
  \A t \in Turns :
    /\ t > turn \/ (t = turn /\ pc = "connect") => sock[t] = "none"
    /\ sock[t] = "none" => handler[t] = "none"
    /\ handler[t] \in {"none", "first"} => gen[t] = 0 /\ wire[t] = << >>

Latest ==
  \A t \in Turns :
    /\ wire[t] # << >> \/ sock[t] = "open" => t = turn /\ pc \in Connected
    /\ handler[t] = "ended" => sock[t] # "open"
    /\ \A i \in 1..Len(wire[t]) : wire[t][i].kind = "done" => handler[t] = "ended"

HeadFirst ==
  pc = "status" =>
    /\ wire[turn] # << >> => Head(wire[turn]).kind = "status"
    /\ sock[turn] = "open" /\ handler[turn] \in {"stream", "finish"} => wire[turn] # << >>

Told ==
  /\ pc \in {"connect", "status", "headers"} => reply = << >>
  /\ status = "error" => pc = "idle" /\ reply = << >>
  /\ ended => pc = "idle" /\ turn \in Turns /\ handler[turn] = "ended"

ArrivalInv == Untouched /\ Latest /\ HeadFirst /\ Told

\* What is behind the oldest line.
LEMMA TailDone ==
  ASSUME NEW w \in Seq(Line), w # << >>, NEW h, \A i \in 1..Len(w) : w[i].kind = "done" => h
  PROVE  \A i \in 1..Len(Tail(w)) : Tail(w)[i].kind = "done" => h
<1>1. /\ Len(w) \in Nat /\ Len(Tail(w)) = Len(w) - 1
      /\ \A i \in 1..Len(Tail(w)) : Tail(w)[i] = w[i + 1] /\ i + 1 \in 1..Len(w)
  BY HeadTailProperties, LenProperties
<1> QED
  BY <1>1

\* A turn that ends closes its connection, if it had one.
LEMMA Closes ==
  ASSUME TypeOK, ArrivalInv, UNCHANGED <<turn, handler, gen>>, pc' = "idle",
         \/ pc \in {"idle", "connect"} /\ UNCHANGED <<sock, wire>>
         \/ pc \in Connected /\ CloseSocket
  PROVE  Untouched' /\ Latest' /\ HeadFirst'
<1>1. /\ turn \in 0..MaxTurns /\ turn \in Int /\ (pc # "idle" => turn \in Turns)
      /\ sock \in [Turns -> {"none", "open", "eof", "closed"}]
      /\ wire \in [Turns -> Seq(Line)]
  BY TurnAssumption DEF TypeOK, DeviceTypeOK, WireTypeOK
<1>2. CASE pc \in {"idle", "connect"} /\ UNCHANGED <<sock, wire>>
  <2>1. Untouched'
    BY <1>1, <1>2 DEF ArrivalInv, Untouched
  <2>2. Latest' /\ HeadFirst'
    BY <1>1, <1>2 DEF ArrivalInv, Latest, HeadFirst, Connected
  <2> QED
    BY <2>1, <2>2
<1>3. CASE pc \in Connected /\ CloseSocket
  <2>1. /\ turn \in Turns /\ sock'[turn] = "closed" /\ wire'[turn] = << >>
        /\ \A t \in Turns \ {turn} : sock'[t] = sock[t] /\ wire'[t] = wire[t]
    BY <1>1, <1>3 DEF CloseSocket, Connected
  <2>2. Untouched'
    BY <1>1, <1>3, <2>1 DEF ArrivalInv, Untouched, Connected, Turns
  <2>3. Latest' /\ HeadFirst'
    BY <1>1, <1>3, <2>1 DEF ArrivalInv, Latest, HeadFirst, Connected
  <2> QED
    BY <2>2, <2>3
<1> QED
  BY <1>2, <1>3

\* A step along the connection: nothing is read, or the oldest line, or the
\* oldest line but for its rest.
Advances ==
  /\ pc \in Connected /\ pc' \in Connected \ {"status"}
  /\ UNCHANGED <<turn, handler, gen, sock>>
  /\ \/ UNCHANGED wire
     \/ wire[turn] # << >> /\ Consume
     \/ wire[turn] # << >> /\ wire' = [wire EXCEPT ![turn] = <<Other("rest")>> \o Tail(@)]

LEMMA AdvanceArrives ==
  ASSUME TypeOK, ArrivalInv, Advances
  PROVE  Untouched' /\ Latest' /\ HeadFirst'
<1>1. /\ turn \in 0..MaxTurns /\ turn \in Turns
      /\ wire \in [Turns -> Seq(Line)] /\ wire[turn] \in Seq(Line)
  BY DEF TypeOK, DeviceTypeOK, WireTypeOK, Advances, Connected
<1>2. \A t \in Turns \ {turn} : wire'[t] = wire[t]
  BY <1>1 DEF Advances, Consume
<1>3. Untouched'
  BY <1>1, <1>2 DEF ArrivalInv, Untouched, Advances, Consume, Connected
<1>4. \A i \in 1..Len(wire'[turn]) : wire'[turn][i].kind = "done" => handler[turn] = "ended"
  <2>0. \A i \in 1..Len(wire[turn]) : wire[turn][i].kind = "done" => handler[turn] = "ended"
    BY <1>1 DEF ArrivalInv, Latest
  <2>1. CASE UNCHANGED wire
    BY <2>0, <2>1
  <2>2. ASSUME wire[turn] # << >>
        PROVE  \A i \in 1..Len(Tail(wire[turn])) :
                 Tail(wire[turn])[i].kind = "done" => handler[turn] = "ended"
    BY <1>1, <2>0, <2>2, TailDone
  <2>3. CASE wire[turn] # << >> /\ Consume
    BY <1>1, <2>2, <2>3 DEF Consume
  <2>4. CASE wire[turn] # << >> /\ wire' = [wire EXCEPT ![turn] = <<Other("rest")>> \o Tail(@)]
    <3> DEFINE v == Tail(wire[turn])
               c == <<Other("rest")>> \o v
    <3>1. v \in Seq(Line) /\ Other("rest") \in Line /\ Other("rest").kind = "rest"
      BY <1>1, <2>4, HeadTailProperties, LineTypes DEF Other
    <3>2. /\ Len(v) \in Nat /\ Len(c) = Len(v) + 1
          /\ \A i \in 1..Len(c) : c[i] = IF i = 1 THEN Other("rest") ELSE v[i - 1]
      BY <3>1
    <3>3. wire'[turn] = c
      BY <1>1, <2>4
    <3> HIDE DEF c, v
    <3>4. ASSUME NEW i \in 1..Len(c), c[i].kind = "done" PROVE handler[turn] = "ended"
      <4>1. i - 1 \in 1..Len(v) /\ v[i - 1].kind = "done"
        BY <3>1, <3>2, <3>4
      <4> QED
        BY <2>2, <2>4, <4>1 DEF v
    <3> QED
      BY <3>3, <3>4
  <2> QED
    BY <2>1, <2>3, <2>4 DEF Advances
<1>5. Latest'
  BY <1>1, <1>2, <1>4 DEF ArrivalInv, Latest, Advances
<1>6. HeadFirst'
  BY DEF HeadFirst, Advances, Connected
<1> QED
  BY <1>3, <1>5, <1>6

LEMMA ReadDataAdvances ==
  ASSUME TypeOK, ReadData, UNCHANGED proxyVars
  PROVE  Advances
<1> DEFINE line == Head(wire[turn])
           tail == IF line.hi - line.lo + 1 > LineCap THEN <<Other("rest")>> ELSE << >>
<1>1. /\ turn \in Turns /\ wire \in [Turns -> Seq(Line)]
      /\ wire[turn] # << >> /\ wire[turn] \in Seq(Line)
  BY DEF TypeOK, DeviceTypeOK, WireTypeOK, ReadData, HasLine
<1>2. wire' = [wire EXCEPT ![turn] = tail \o Tail(@)]
  BY DEF ReadData
<1>3. << >> \o Tail(wire[turn]) = Tail(wire[turn])
  BY <1>1, HeadTailProperties, ConcatEmptySeq
<1>4. \/ wire' = [wire EXCEPT ![turn] = << >> \o Tail(@)]
      \/ wire' = [wire EXCEPT ![turn] = <<Other("rest")>> \o Tail(@)]
  BY <1>2
<1>5. Consume \/ wire' = [wire EXCEPT ![turn] = <<Other("rest")>> \o Tail(@)]
  BY <1>1, <1>3, <1>4, Zenon DEF Consume
<1> QED
  BY <1>1, <1>5 DEF ReadData, Advances, Connected, proxyVars

LEMMA DeviceArrives ==
  ASSUME HistoryInv, ArrivalInv, DeviceNext, UNCHANGED proxyVars
  PROVE  ArrivalInv'
<1>1. /\ TypeOK /\ turn \in 0..MaxTurns /\ turn \in Int
      /\ (pc # "idle" => turn \in Turns) /\ UNCHANGED <<handler, gen>>
      /\ sock \in [Turns -> {"none", "open", "eof", "closed"}]
      /\ wire \in [Turns -> Seq(Line)]
  BY TurnAssumption DEF HistoryInv, TypeOK, DeviceTypeOK, WireTypeOK, proxyVars
<1>2. ASSUME pc' = "idle", UNCHANGED turn, Told', pc = "connect", UNCHANGED wireVars
      PROVE  ArrivalInv'
  BY <1>1, <1>2, Closes DEF ArrivalInv, wireVars
<1>3. ASSUME Send PROVE ArrivalInv'
  <2>1. /\ pc = "idle" /\ pc' = "connect" /\ turn' = turn + 1 /\ UNCHANGED <<sock, wire>>
        /\ reply' = << >> /\ status' = "sending" /\ ended' = FALSE
    BY <1>3 DEF Send, wireVars
  <2>2. Untouched'
    BY <1>1, <2>1 DEF ArrivalInv, Untouched, Turns
  <2>3. Latest' /\ HeadFirst' /\ Told'
    BY <1>1, <2>1 DEF ArrivalInv, Latest, HeadFirst, Told, Connected
  <2> QED
    BY <2>2, <2>3 DEF ArrivalInv
<1>4. ASSUME Connect PROVE ArrivalInv'
  <2>1. /\ pc = "connect" /\ pc' = "status" /\ UNCHANGED <<turn, wire, reply, status, ended>>
        /\ sock'[turn] = "open" /\ turn \in Turns
        /\ \A t \in Turns \ {turn} : sock'[t] = sock[t]
    BY <1>1, <1>4 DEF Connect
  <2>2. handler[turn] = "none" /\ wire[turn] = << >>
    BY <2>1 DEF ArrivalInv, Untouched
  <2>3. Untouched'
    BY <1>1, <2>1, <2>2 DEF ArrivalInv, Untouched, Turns
  <2>4. Latest' /\ HeadFirst'
    BY <1>1, <2>1, <2>2 DEF ArrivalInv, Latest, HeadFirst, Connected
  <2>5. Told'
    BY <1>1, <2>1 DEF ArrivalInv, Told
  <2> QED
    BY <2>3, <2>4, <2>5 DEF ArrivalInv
<1>5. ASSUME Fail, UNCHANGED <<turn, reply, ended>>, pc \in {"connect", "status", "headers"}
      PROVE  Told' /\ pc' = "idle"
  BY <1>1, <1>5 DEF ArrivalInv, Told, Fail, Return
<1>6. ASSUME ConnectFails PROVE ArrivalInv'
  BY <1>1, <1>5, <1>6, Closes DEF ConnectFails, wireVars, ArrivalInv
<1>7. ASSUME NoStatusLine PROVE ArrivalInv'
  BY <1>1, <1>5, <1>7, Closes DEF NoStatusLine, Connected, ArrivalInv
<1>8. ASSUME Advances, UNCHANGED <<ended, status>>, 
             (UNCHANGED reply /\ pc \in {"status", "headers"}) \/ pc' \in {"body", "line"}
      PROVE  ArrivalInv'
  <2>1. Told'
    BY <1>1, <1>8 DEF ArrivalInv, Told, Advances, Connected
  <2> QED
    BY <1>1, <1>8, <2>1, AdvanceArrives DEF ArrivalInv
<1>9. ASSUME ReadStatus PROVE ArrivalInv'
  BY <1>1, <1>8, <1>9 DEF ReadStatus, HasLine, Advances, Connected
<1>10. ASSUME ReadHeaders PROVE ArrivalInv'
  <2>1. CASE code = 200
    BY <1>1, <1>8, <1>10, <2>1 DEF ReadHeaders, HasLine, Advances, Connected
  <2>2. CASE code # 200
    BY <1>1, <1>5, <1>10, <2>2, Closes DEF ReadHeaders, Connected, ArrivalInv
  <2> QED
    BY <2>1, <2>2
<1>11. ASSUME BodyLoop PROVE ArrivalInv'
  BY <1>1, <1>8, <1>11 DEF BodyLoop, Advances, Connected, wireVars
<1>12. ASSUME pc \in {"body", "line"}, FinishBody, ended' => ended \/ handler[turn] = "ended"
       PROVE  ArrivalInv'
  <2>1. pc' = "idle" /\ status' = "ready" /\ UNCHANGED turn /\ CloseSocket
    BY <1>12 DEF FinishBody, Succeed, Return
  <2>2. Told'
    BY <1>1, <1>12, <2>1 DEF ArrivalInv, Told
  <2> QED
    BY <1>1, <1>12, <2>1, <2>2, Closes DEF ArrivalInv, Connected
<1>13. ASSUME BodyDeadline \/ BodyQuiet PROVE ArrivalInv'
  BY <1>12, <1>13 DEF BodyDeadline, BodyQuiet
<1>14. ASSUME ReadDone PROVE ArrivalInv'
  <2>1. pc = "line" /\ wire[turn] # << >> /\ wire[turn] \in Seq(Line) /\ turn \in Turns
    BY <1>1, <1>14 DEF ReadDone, HasLine
  <2>2. 1 \in 1..Len(wire[turn]) /\ wire[turn][1] = Head(wire[turn])
    BY <2>1
  <2>3. handler[turn] = "ended"
    BY <1>14, <2>1, <2>2 DEF ReadDone, ArrivalInv, Latest
  <2> QED
    BY <1>12, <1>14, <2>3 DEF ReadDone
<1>15. ASSUME ReadData PROVE ArrivalInv'
  BY <1>1, <1>8, <1>15, ReadDataAdvances DEF ReadData
<1>16. ASSUME SkipLine PROVE ArrivalInv'
  BY <1>1, <1>8, <1>16 DEF SkipLine, HasLine, Advances, Connected
<1>17. ASSUME UNCHANGED <<pc, turn, sock, wire, reply, status, ended>> PROVE ArrivalInv'
  BY <1>1, <1>17 DEF ArrivalInv, Untouched, Latest, HeadFirst, Told
<1>18. ASSUME Tick \/ PickProfile PROVE ArrivalInv'
  BY <1>17, <1>18 DEF Tick, PickProfile, wireVars
<1>19. ASSUME Reboot PROVE ArrivalInv'
  <2>1. /\ pc' = "idle" /\ status' = "ready" /\ reply' = << >> /\ ended' = FALSE
        /\ UNCHANGED turn
    BY <1>19 DEF Reboot, Return
  <2>2. \/ pc \in {"idle", "connect"} /\ UNCHANGED <<sock, wire>>
        \/ pc \in Connected /\ CloseSocket
    BY <1>1, <1>19 DEF TypeOK, DeviceTypeOK, Reboot, Connected
  <2>3. Told'
    BY <2>1 DEF Told
  <2> QED
    BY <1>1, <2>1, <2>2, <2>3, Closes DEF ArrivalInv
<1> QED
  BY <1>3, <1>4, <1>6, <1>7, <1>9, <1>10, <1>11, <1>13, <1>14, <1>15, <1>16, <1>18, <1>19
     DEF DeviceNext, TurnStep

(* What a handler may do to its own connection: write lines to it, the     *)
(* response head first, and hang up at its end.  All the text generated    *)
(* meanwhile is in the last line.                                          *)
Carries(t, lines, h) ==
  \/ /\ UNCHANGED gen /\ (lines # << >> => h = "ended")
     /\ \A i \in 1..Len(lines) : lines[i].kind # "data"
  \/ \E n \in 0..MaxDelta :
       /\ lines # << >> /\ lines[Len(lines)] = DataLine(gen[t] + 1, gen[t] + n)
       /\ \A i \in 1..(Len(lines) - 1) : lines[i].kind \in {"status", "blank"}
       /\ gen' = [gen EXCEPT ![t] = @ + n]

Speaks(t, lines, h) ==
  /\ sock[t] # "none" /\ handler[t] # "ended"
  /\ handler' = [handler EXCEPT ![t] = h]
  /\ h \in {"first", "stream", "finish", "ended"}
  /\ h = "first" => UNCHANGED <<gen, wire>> /\ handler[t] \in {"none", "first"}
  /\ Carries(t, lines, h) /\ Write(t, lines)
  /\ IF h = "ended" THEN Hangup(t) ELSE UNCHANGED sock
  /\ handler[t] \in {"none", "first"} /\ h \in {"stream", "finish"} => lines # << >>
  /\ handler[t] \in {"none", "first"} /\ lines # << >> => lines[1].kind = "status"
  /\ handler[t] \in {"stream", "finish"} =>
       Len(lines) <= 1 /\ \A i \in 1..Len(lines) : lines[i].kind \in {"data", "done"}
  /\ \A i \in 1..Len(lines) : lines[i].kind = "done" => h = "ended" /\ i = Len(lines)

LEMMA SpeakArrives ==
  ASSUME TypeOK, ArrivalInv, NEW t \in Turns, NEW lines \in Seq(Line), NEW h,
         Speaks(t, lines, h), UNCHANGED deviceVars
  PROVE  ArrivalInv'
<1>1. /\ turn \in Int /\ (pc # "idle" => turn \in Turns)
      /\ sock \in [Turns -> {"none", "open", "eof", "closed"}]
      /\ wire \in [Turns -> Seq(Line)] /\ wire[t] \in Seq(Line)
      /\ handler \in [Turns -> {"none", "first", "stream", "finish", "ended"}]
      /\ gen \in [Turns -> 0..MaxText]
      /\ UNCHANGED <<pc, turn, reply, status, ended>>
  BY TurnAssumption DEF TypeOK, DeviceTypeOK, WireTypeOK, ProxyTypeOK, deviceVars
<1>2. /\ handler'[t] = h
      /\ \A u \in Turns \ {t} : /\ handler'[u] = handler[u] /\ gen'[u] = gen[u]
                                /\ sock'[u] = sock[u] /\ wire'[u] = wire[u]
  <2>1. \A u \in Turns \ {t} : gen'[u] = gen[u]
    BY <1>1 DEF Speaks, Carries
  <2> QED
    BY <1>1, <2>1 DEF Speaks, Write, Hangup
<1>3. /\ sock'[t] = sock[t] \/ (sock[t] = "open" /\ sock'[t] = "eof")
      /\ h = "ended" => sock'[t] # "open"
      /\ h # "ended" => sock'[t] = sock[t]
      /\ wire'[t] = IF sock[t] = "open" THEN wire[t] \o lines ELSE wire[t]
  BY <1>1 DEF Speaks, Write, Hangup
<1>4. /\ wire[t] \o lines \in Seq(Line) /\ Len(wire[t]) \in Nat /\ Len(lines) \in Nat
      /\ Len(wire[t] \o lines) = Len(wire[t]) + Len(lines)
      /\ \A i \in 1..Len(wire[t] \o lines) :
           (wire[t] \o lines)[i] = IF i <= Len(wire[t]) THEN wire[t][i] ELSE lines[i - Len(wire[t])]
  BY <1>1, ConcatProperties, LenProperties
<1>5. Untouched'
  <2>1. ASSUME NEW u \in Turns, u # t
        PROVE  /\ u > turn' \/ (u = turn' /\ pc' = "connect") => sock'[u] = "none"
               /\ sock'[u] = "none" => handler'[u] = "none"
               /\ handler'[u] \in {"none", "first"} => gen'[u] = 0 /\ wire'[u] = << >>
    BY <1>1, <1>2, <2>1 DEF ArrivalInv, Untouched
  <2>2. /\ t > turn' \/ (t = turn' /\ pc' = "connect") => sock'[t] = "none"
        /\ sock'[t] = "none" => handler'[t] = "none"
        /\ handler'[t] \in {"none", "first"} => gen'[t] = 0 /\ wire'[t] = << >>
    BY <1>1, <1>2, <1>3 DEF ArrivalInv, Untouched, Speaks
  <2> QED
    BY <2>1, <2>2 DEF Untouched
<1>6. \A i \in 1..Len(wire'[t]) : wire'[t][i].kind = "done" => handler'[t] = "ended"
  <2>1. \A i \in 1..Len(wire[t]) : wire[t][i].kind # "done"
    BY DEF ArrivalInv, Latest, Speaks
  <2>2. CASE sock[t] = "open"
    <3> SUFFICES ASSUME NEW i \in 1..Len(wire[t] \o lines), (wire[t] \o lines)[i].kind = "done"
                 PROVE  h = "ended"
      BY <1>2, <1>3, <2>2
    <3>1. i - Len(wire[t]) \in 1..Len(lines) /\ lines[i - Len(wire[t])].kind = "done"
      BY <1>4, <2>1
    <3> QED
      BY <3>1 DEF Speaks
  <2>3. CASE sock[t] # "open"
    BY <1>3, <2>1, <2>3
  <2> QED
    BY <2>2, <2>3
<1>7. Latest'
  <2>1. ASSUME NEW u \in Turns, u # t
        PROVE  /\ wire'[u] # << >> \/ sock'[u] = "open" => u = turn' /\ pc' \in Connected
               /\ handler'[u] = "ended" => sock'[u] # "open"
               /\ \A i \in 1..Len(wire'[u]) : wire'[u][i].kind = "done" => handler'[u] = "ended"
    BY <1>1, <1>2, <2>1 DEF ArrivalInv, Latest
  <2>2. /\ wire'[t] # << >> \/ sock'[t] = "open" => t = turn' /\ pc' \in Connected
        /\ handler'[t] = "ended" => sock'[t] # "open"
    BY <1>1, <1>2, <1>3 DEF ArrivalInv, Latest
  <2> QED
    BY <1>6, <2>1, <2>2 DEF Latest
<1>8. HeadFirst'
  <2> SUFFICES ASSUME pc = "status", turn = t
               PROVE  /\ wire'[t] # << >> => Head(wire'[t]).kind = "status"
                      /\ sock'[t] = "open" /\ h \in {"stream", "finish"} => wire'[t] # << >>
    <3>1. CASE pc = "status" /\ turn # t
      BY <1>1, <1>2, <3>1 DEF ArrivalInv, HeadFirst
    <3> QED
      BY <1>1, <1>2, <3>1 DEF HeadFirst
  <2>1. /\ wire[t] # << >> => wire[t][1].kind = "status"
        /\ sock[t] = "open" /\ handler[t] \in {"stream", "finish"} => wire[t] # << >>
        /\ handler[t] \in {"none", "first"} => wire[t] = << >>
    BY <1>1 DEF ArrivalInv, HeadFirst, Untouched
  <2>2. CASE sock[t] # "open"
    BY <1>1, <1>3, <2>1, <2>2
  <2>3. CASE sock[t] = "open"
    <3> DEFINE c == wire[t] \o lines
    <3>1. wire'[t] = c /\ c \in Seq(Line)
      BY <1>3, <1>4, <2>3
    <3>2. c # << >> => c[1].kind = "status"
      <4>1. CASE wire[t] # << >>
        BY <1>4, <2>1, <4>1
      <4>2. CASE wire[t] = << >>
        <5>1. Len(wire[t]) = 0 /\ handler[t] \in {"none", "first"}
          BY <1>1, <2>1, <2>3, <4>2 DEF Speaks
        <5>2. c # << >> => lines # << >> /\ c[1] = lines[1]
          BY <1>4, <5>1
        <5> QED
          BY <5>1, <5>2 DEF Speaks
      <4> QED
        BY <4>1, <4>2
    <3>3. h \in {"stream", "finish"} => c # << >>
      <4>1. h \in {"stream", "finish"} => wire[t] # << >> \/ lines # << >>
        BY <1>1, <2>1, <2>3 DEF Speaks
      <4> QED
        BY <1>4, <4>1
    <3> QED
      BY <3>1, <3>2, <3>3
  <2> QED
    BY <2>2, <2>3
<1>9. Told'
  BY <1>1, <1>2 DEF ArrivalInv, Told, Speaks
<1> QED
  BY <1>5, <1>7, <1>8, <1>9 DEF ArrivalInv

LEMMA RespondSpeaks ==
  ASSUME TypeOK, NEW t \in Turns, NEW c \in Codes, Respond(t, c), UNCHANGED gen,
         handler[t] \in {"none", "first"}, sock[t] # "none"
  PROVE  Speaks(t, ResponseHead(c), "ended") /\ ResponseHead(c) \in Seq(Line)
<1>1. StatusLine(c) \in Line /\ Other("blank") \in Line
  BY LineTypes
<1>2. StatusLine(c).kind = "status" /\ Other("blank").kind = "blank"
  BY DEF StatusLine, Other
<1>3. Carries(t, ResponseHead(c), "ended")
  BY <1>2 DEF Carries, ResponseHead
<1>4. ResponseHead(c)[1].kind = "status"
      /\ \A i \in 1..Len(ResponseHead(c)) : ResponseHead(c)[i].kind = "done" => FALSE
  BY <1>2 DEF ResponseHead
<1> QED
  BY <1>1, <1>3, <1>4 DEF Speaks, Respond, ResponseHead

\* A handler that writes nothing.
LEMMA QuietSpeaks ==
  ASSUME TypeOK, NEW t \in Turns, NEW h \in {"first", "stream", "finish", "ended"},
         sock[t] # "none", handler[t] # "ended", handler' = [handler EXCEPT ![t] = h],
         h \in {"stream", "finish"} => handler[t] \notin {"none", "first"},
         h = "first" => handler[t] \in {"none", "first"},
         UNCHANGED <<gen, wire>>,
         IF h = "ended" THEN Hangup(t) ELSE UNCHANGED sock
  PROVE  Speaks(t, << >>, h) /\ << >> \in Seq(Line)
<1>1. wire \in [Turns -> Seq(Line)] /\ wire[t] \o << >> = wire[t]
  BY ConcatEmptySeq DEF TypeOK, WireTypeOK
<1>2. Write(t, << >>)
  BY <1>1, Zenon DEF Write
<1>3. Carries(t, << >>, h)
  BY DEF Carries
<1> QED
  BY <1>2, <1>3 DEF Speaks

\* The response head and a first chunk are one sequence of lines.
LEMMA Joined ==
  ASSUME NEW a, NEW b, NEW c
  PROVE  <<a, b>> \o <<c>> = <<a, b, c>>
<1> DEFINE S == {a, b, c}
           front == <<a, b>>
           last  == <<c>>
           whole == <<a, b, c>>
<1>1. front \in Seq(S) /\ Len(front) = 2 /\ front[1] = a /\ front[2] = b
  OBVIOUS
<1>2. last \in Seq(S) /\ Len(last) = 1 /\ last[1] = c
  OBVIOUS
<1>3. whole \in Seq(S) /\ Len(whole) = 3 /\ whole[1] = a /\ whole[2] = b /\ whole[3] = c
  OBVIOUS
<1> HIDE DEF S, front, last, whole
<1>4. /\ front \o last \in Seq(S) /\ Len(front \o last) = 3
      /\ \A i \in 1..3 : (front \o last)[i] = IF i <= 2 THEN front[i] ELSE last[i - 2]
  <2>1. /\ front \o last \in Seq(S) /\ Len(front \o last) = Len(front) + Len(last)
        /\ \A i \in 1..(Len(front) + Len(last)) :
             (front \o last)[i] = IF i <= Len(front) THEN front[i] ELSE last[i - Len(front)]
    BY <1>1, <1>2, ConcatProperties
  <2>2. Len(front) + Len(last) = 3
    BY <1>1, <1>2
  <2> QED
    BY <1>1, <2>1, <2>2
<1>5. \A i \in 1..3 : (front \o last)[i] = whole[i]
  BY <1>1, <1>2, <1>3, <1>4
<1>6. front \o last = whole
  BY <1>3, <1>4, <1>5, SeqEqual
<1> QED
  BY <1>6 DEF front, last, whole

LEMMA ProxySpeaks ==
  ASSUME TypeOK, ArrivalInv, ProxyNext
  PROVE  \E t \in Turns, lines \in Seq(Line),
            h \in {"first", "stream", "finish", "ended"} : Speaks(t, lines, h)
<1>0. /\ gen \in [Turns -> 0..MaxText] /\ \A u \in Turns : gen[u] \in Nat
      /\ \A u \in Turns : handler[u] # "none" => sock[u] # "none"
  BY TurnAssumption DEF TypeOK, ProxyTypeOK, ArrivalInv, Untouched
<1>1. ASSUME NEW t \in Turns, Accept(t)
      PROVE  \E lines \in Seq(Line), h \in {"first", "stream", "finish", "ended"} : Speaks(t, lines, h)
  <2>1. CASE Refusal(via[t]) # 200
    <3>1. Refusal(via[t]) \in Codes
      BY DEF Refusal, Codes
    <3>2. Respond(t, Refusal(via[t])) /\ UNCHANGED gen /\ handler[t] = "none" /\ sock[t] # "none"
      BY <1>1, <2>1 DEF Accept
    <3> QED
      BY <3>1, <3>2, RespondSpeaks
  <2>2. CASE Refusal(via[t]) = 200
    <3>1. Speaks(t, << >>, "first") /\ << >> \in Seq(Line)
      BY <1>1, <2>2, QuietSpeaks DEF Accept
    <3> QED
      BY <3>1
  <2> QED
    BY <2>1, <2>2
<1>2. ASSUME NEW t \in Turns, SendDone(t)
      PROVE  \E lines \in Seq(Line), h \in {"first", "stream", "finish", "ended"} : Speaks(t, lines, h)
  <2> DEFINE lines == <<Other("done")>>
  <2>1. Other("done") \in Line /\ Other("done").kind = "done"
    BY LineTypes DEF Other
  <2>2. lines \in Seq(Line) /\ Carries(t, lines, "ended")
    BY <1>2, <2>1 DEF Carries, SendDone
  <2>3. Speaks(t, lines, "ended")
    BY <1>0, <1>2, <2>1, <2>2 DEF Speaks, SendDone
  <2> QED
    BY <2>2, <2>3
<1>3. ASSUME NEW t \in Turns, UpstreamFails(t)
      PROVE  \E lines \in Seq(Line), h \in {"first", "stream", "finish", "ended"} : Speaks(t, lines, h)
  <2>1. CASE handler[t] = "first"
    <3>1. PICK c \in {502, 500} : Respond(t, c)
      BY <1>3, <2>1 DEF UpstreamFails
    <3>2. c \in Codes /\ UNCHANGED gen /\ sock[t] # "none"
      BY <1>0, <1>3, <2>1 DEF Codes, UpstreamFails
    <3> QED
      BY <2>1, <3>1, <3>2, RespondSpeaks
  <2>2. CASE handler[t] = "stream"
    <3>1. Speaks(t, << >>, "ended") /\ << >> \in Seq(Line)
      BY <1>0, <1>3, <2>2, QuietSpeaks DEF UpstreamFails
    <3> QED
      BY <3>1
  <2> QED
    BY <1>3, <2>1, <2>2 DEF UpstreamFails
<1>4. ASSUME NEW t \in Turns, Cancelled(t)
      PROVE  \E lines \in Seq(Line), h \in {"first", "stream", "finish", "ended"} : Speaks(t, lines, h)
  <2>1. Hangup(t)
    BY <1>4 DEF Cancelled, Hangup
  <2>2. Speaks(t, << >>, "ended") /\ << >> \in Seq(Line)
    BY <1>0, <1>4, <2>1, QuietSpeaks DEF Cancelled
  <2> QED
    BY <2>2
<1>5. ASSUME NEW t \in Turns, NEW e \in UpstreamEvents, StreamEvent(t, e)
      PROVE  \E lines \in Seq(Line), h \in {"first", "stream", "finish", "ended"} : Speaks(t, lines, h)
  <2>1. e.n \in 0..MaxDelta /\ e.n \in Nat /\ (e.n > 0 => e.kind = "text")
    BY DeltaAssumption DEF UpstreamEvents, Events
  <2> DEFINE yields == Yields(via[t], e, role[t])
             first  == handler[t] = "first"
             chunk  == IF yields THEN <<Chunk(t, e)>> ELSE << >>
             lines  == Opening(first, chunk)
             h      == IF Ends(via[t], e) THEN "finish" ELSE "stream"
  <2>2. ~yields => e.n = 0
    BY <2>1 DEF Yields, AnthropicYields, PassThroughYields
  <2>3. /\ handler[t] \in {"first", "stream"} /\ sock[t] # "none"
        /\ gen' = [gen EXCEPT ![t] = @ + e.n] /\ gen[t] + e.n <= MaxText
    BY <1>0, <1>5 DEF StreamEvent
  <2>4. ~yields => UNCHANGED gen
    BY <1>0, <2>2, <2>3
  <2>5. CASE first /\ ~yields
    <3>1. Respond(t, 502) /\ 502 \in Codes
      BY <1>5, <2>5 DEF StreamEvent, Codes
    <3> QED
      BY <2>3, <2>4, <2>5, <3>1, RespondSpeaks
  <2>6. CASE ~first /\ ~yields
    <3>1. << >> \o << >> = << >> /\ lines = << >>
      BY <2>6 DEF Opening
    <3>2. wire' = wire
      <4>1. Write(t, << >>)
        BY <1>5, <2>6, <3>1 DEF StreamEvent
      <4>2. wire \in [Turns -> Seq(Line)] /\ wire[t] \o << >> = wire[t]
        BY ConcatEmptySeq DEF TypeOK, WireTypeOK
      <4> QED
        BY <4>1, <4>2 DEF Write
    <3>3. Speaks(t, << >>, h) /\ << >> \in Seq(Line)
      BY <1>5, <2>3, <2>4, <2>6, <3>2, QuietSpeaks DEF StreamEvent
    <3> QED
      BY <3>3
  <2>7. CASE yields
    <3>1. Chunk(t, e) \in Line /\ Chunk(t, e) = DataLine(gen[t] + 1, gen[t] + e.n)
      <4>1. /\ gen[t] + 1 \in 1..(MaxText + 1) /\ gen[t] + 1 <= gen[t] + e.n + 1
            /\ gen[t] + e.n \in 0..MaxText
        BY <1>0, <2>1, <2>3, TurnAssumption
      <4> QED
        BY <4>1, LineTypes DEF Chunk
    <3>2. /\ StatusLine(200) \in Line /\ Other("blank") \in Line
          /\ StatusLine(200).kind = "status" /\ Other("blank").kind = "blank"
          /\ Chunk(t, e).kind = "data"
      BY <3>1, LineTypes DEF Codes, StatusLine, Other, DataLine
    <3>3. lines = IF first THEN <<StatusLine(200), Other("blank"), Chunk(t, e)>> ELSE <<Chunk(t, e)>>
      <4>1. lines = IF first THEN ResponseHead(200) \o <<Chunk(t, e)>> ELSE <<Chunk(t, e)>>
        BY <2>7 DEF Opening
      <4>2. ResponseHead(200) \o <<Chunk(t, e)>> = <<StatusLine(200), Other("blank"), Chunk(t, e)>>
        BY Joined DEF ResponseHead
      <4> QED
        BY <4>1, <4>2
    <3> HIDE DEF lines
    <3>4. /\ lines \in Seq(Line) /\ lines # << >> /\ lines[Len(lines)] = Chunk(t, e)
          /\ \A i \in 1..(Len(lines) - 1) : lines[i].kind \in {"status", "blank"}
          /\ \A i \in 1..Len(lines) : lines[i].kind # "done"
          /\ first => lines[1].kind = "status"
      BY <3>1, <3>2, <3>3
    <3>5. /\ Carries(t, lines, h)
          /\ ~first => Len(lines) <= 1 /\ \A i \in 1..Len(lines) : lines[i].kind \in {"data", "done"}
      <4>1. Carries(t, lines, h)
        BY <2>1, <2>3, <3>1, <3>4 DEF Carries
      <4>2. ~first => Len(lines) <= 1 /\ \A i \in 1..Len(lines) : lines[i].kind \in {"data", "done"}
        BY <3>2, <3>3
      <4> QED
        BY <4>1, <4>2
    <3>6. Write(t, lines) /\ UNCHANGED sock /\ handler' = [handler EXCEPT ![t] = h]
      BY <1>5, <2>7 DEF StreamEvent, lines
    <3>7. Speaks(t, lines, h) /\ h \in {"first", "stream", "finish", "ended"}
      BY <2>3, <3>4, <3>5, <3>6 DEF Speaks
    <3> QED
      BY <3>4, <3>7
  <2> QED
    BY <2>5, <2>6, <2>7
<1> QED
  BY <1>1, <1>2, <1>3, <1>4, <1>5 DEF ProxyNext

\* A reset leaves the oldest lines, the last of them perhaps cut short.
Cut(v, w) ==
  /\ v \in Seq(Line) /\ Len(v) <= Len(w)
  /\ \A i \in 1..Len(v) :
       /\ v[i].kind = w[i].kind /\ v[i].lo = w[i].lo /\ v[i].hi <= w[i].hi
       /\ i < Len(v) => v[i] = w[i]

LEMMA ResetCuts ==
  ASSUME WireTypeOK, NEW t \in Turns, Reset(t)
  PROVE  Cut(wire'[t], wire[t]) /\ \A u \in Turns \ {t} : wire'[u] = wire[u]
<1>1. wire \in [Turns -> Seq(Line)] /\ wire[t] \in Seq(Line) /\ Len(wire[t]) \in Nat
  BY LenProperties DEF WireTypeOK
<1>2. PICK k \in 0..Len(wire[t]) :
        \/ wire' = [wire EXCEPT ![t] = SubSeq(@, 1, k)]
        \/ /\ k > 0 /\ wire[t][k].kind = "data"
           /\ \E cut \in (wire[t][k].lo - 1)..(wire[t][k].hi - 1) :
                wire' = [wire EXCEPT ![t] =
                           Append(SubSeq(@, 1, k - 1),
                                  DataLine(wire[t][k].lo, cut))]
  BY DEF Reset
<1>3. \A i \in 1..Len(wire[t]) : wire[t][i].hi \in Nat
  BY <1>1, TurnAssumption, ElementOfSeq DEF Line
<1>4. CASE wire' = [wire EXCEPT ![t] = SubSeq(@, 1, k)]
  <2>1. /\ SubSeq(wire[t], 1, k) \in Seq(Line) /\ Len(SubSeq(wire[t], 1, k)) = k
        /\ \A i \in 1..k : SubSeq(wire[t], 1, k)[i] = wire[t][i]
    BY <1>1, FrontProperties
  <2>2. wire'[t] = SubSeq(wire[t], 1, k)
    BY <1>1, <1>4
  <2> QED
    BY <1>1, <1>3, <1>4, <2>1, <2>2 DEF Cut
<1>5. CASE /\ k > 0 /\ wire[t][k].kind = "data"
           /\ \E cut \in (wire[t][k].lo - 1)..(wire[t][k].hi - 1) :
                wire' = [wire EXCEPT ![t] =
                           Append(SubSeq(@, 1, k - 1),
                                  DataLine(wire[t][k].lo, cut))]
  <2>1. PICK cut \in (wire[t][k].lo - 1)..(wire[t][k].hi - 1) :
                wire' = [wire EXCEPT ![t] =
                           Append(SubSeq(@, 1, k - 1),
                                  DataLine(wire[t][k].lo, cut))]
    BY <1>5
  <2> DEFINE front == SubSeq(wire[t], 1, k - 1)
             last == DataLine(wire[t][k].lo, cut)
             line == wire[t][k]
  <2>2. k \in 1..Len(wire[t]) /\ k - 1 \in 0..Len(wire[t]) /\ line \in Line
    BY <1>1, <1>5, ElementOfSeq
  <2>3. /\ front \in Seq(Line) /\ Len(front) = k - 1
        /\ \A i \in 1..(k - 1) : front[i] = wire[t][i]
    BY <1>1, <2>2, FrontProperties
  <2>4. last \in Line /\ last.kind = "data" /\ last.lo = line.lo /\ last.hi <= line.hi
    <3>1. /\ line.lo \in 1..(MaxText + 1) /\ line.hi \in 0..MaxText
      BY <2>2 DEF Line
    <3>2. cut \in 0..MaxText /\ line.lo <= cut + 1 /\ cut <= line.hi
      BY <3>1, CutWithin
    <3> QED
      BY <3>1, <3>2, LineTypes DEF DataLine
  <2>5. wire'[t] = Append(front, last) /\ \A u \in Turns \ {t} : wire'[u] = wire[u]
    BY <1>1, <2>1
  <2> HIDE DEF front, last
  <2>6. /\ Append(front, last) \in Seq(Line) /\ Len(Append(front, last)) = k
        /\ \A i \in 1..(k - 1) : Append(front, last)[i] = wire[t][i]
        /\ Append(front, last)[k] = last
    BY <2>2, <2>3, <2>4, AppendProperties
  <2>7. ASSUME NEW i \in 1..k
        PROVE  /\ wire'[t][i].kind = wire[t][i].kind /\ wire'[t][i].lo = wire[t][i].lo
               /\ wire'[t][i].hi <= wire[t][i].hi /\ (i < k => wire'[t][i] = wire[t][i])
    <3>1. CASE i = k
      BY <1>5, <2>4, <2>5, <2>6, <3>1
    <3>2. CASE i # k
      <4>1. i \in 1..(k - 1) /\ i \in 1..Len(wire[t])
        BY <2>2, <3>2
      <4> QED
        BY <1>3, <2>5, <2>6, <4>1
    <3> QED
      BY <3>1, <3>2
  <2> QED
    BY <2>2, <2>5, <2>6, <2>7 DEF Cut
<1> QED
  BY <1>2, <1>4, <1>5

LEMMA NoLines ==
  ASSUME NEW w \in Seq(Line), Len(w) = 0
  PROVE  w = << >>
  BY EmptySeq

LEMMA NetworkArrives ==
  ASSUME TypeOK, ArrivalInv, NEW t \in Turns, Reset(t), UNCHANGED <<deviceVars, proxyVars>>
  PROVE  ArrivalInv'
<1>1. /\ turn \in Int /\ (pc # "idle" => turn \in Turns)
      /\ sock \in [Turns -> {"none", "open", "eof", "closed"}]
      /\ wire \in [Turns -> Seq(Line)] /\ wire[t] \in Seq(Line) /\ Len(wire[t]) \in Nat
      /\ UNCHANGED <<pc, turn, reply, status, ended, handler, gen>>
  BY TurnAssumption, LenProperties DEF TypeOK, DeviceTypeOK, WireTypeOK, deviceVars, proxyVars
<1>2. /\ sock[t] = "open" /\ sock'[t] = "eof"
      /\ \A u \in Turns \ {t} : sock'[u] = sock[u] /\ wire'[u] = wire[u]
      /\ Cut(wire'[t], wire[t])
  BY <1>1, ResetCuts DEF Reset, TypeOK
<1>3. /\ wire'[t] \in Seq(Line) /\ Len(wire'[t]) \in 0..Len(wire[t])
      /\ \A i \in 1..Len(wire'[t]) : i \in 1..Len(wire[t]) /\ wire'[t][i].kind = wire[t][i].kind
      /\ wire[t] = << >> => wire'[t] = << >>
  <2>1. wire'[t] \in Seq(Line) /\ Len(wire'[t]) \in Nat /\ Len(wire'[t]) <= Len(wire[t])
    BY <1>2, LenProperties DEF Cut
  <2>2. \A i \in 1..Len(wire'[t]) : wire'[t][i].kind = wire[t][i].kind
    BY <1>2 DEF Cut
  <2>3. \A i \in 1..Len(wire'[t]) : i \in 1..Len(wire[t])
    BY <1>1, <2>1
  <2>4. ASSUME wire[t] = << >> PROVE wire'[t] = << >>
    <3>1. Len(wire[t]) = 0
      BY <2>4
    <3>2. Len(wire'[t]) = 0
      BY <2>1, <3>1
    <3> QED
      BY <2>1, <3>2, NoLines
  <2>5. Len(wire'[t]) \in 0..Len(wire[t])
    BY <1>1, <2>1
  <2> QED
    BY <2>1, <2>2, <2>3, <2>4, <2>5
<1>4. Untouched'
  BY <1>1, <1>2, <1>3 DEF ArrivalInv, Untouched
<1>5. Latest'
  <2>1. \A i \in 1..Len(wire'[t]) : wire'[t][i].kind = "done" => handler[t] = "ended"
    BY <1>3 DEF ArrivalInv, Latest
  <2> QED
    BY <1>1, <1>2, <2>1 DEF ArrivalInv, Latest
<1>6. HeadFirst'
  <2>1. CASE turn = t /\ wire'[t] # << >>
    <3>1. wire[t] # << >> /\ 1 \in 1..Len(wire'[t]) /\ Head(wire'[t]).kind = Head(wire[t]).kind
      BY <1>1, <1>3, <2>1
    <3> QED
      BY <1>1, <1>2, <2>1, <3>1 DEF ArrivalInv, HeadFirst
  <2>2. CASE turn = t /\ wire'[t] = << >>
    BY <1>1, <1>2, <2>2 DEF HeadFirst
  <2>3. CASE turn # t
    BY <1>1, <1>2, <2>3 DEF ArrivalInv, HeadFirst
  <2> QED
    BY <2>1, <2>2, <2>3
<1>7. Told'
  BY <1>1 DEF ArrivalInv, Told
<1> QED
  BY <1>4, <1>5, <1>6, <1>7 DEF ArrivalInv

LEMMA ArrivalInvInit == Init => ArrivalInv
<1> SUFFICES ASSUME Init PROVE ArrivalInv
  OBVIOUS
<1>1. /\ \A t \in Turns : sock[t] = "none" /\ wire[t] = << >> /\ handler[t] = "none" /\ gen[t] = 0
      /\ pc = "idle" /\ turn = 0 /\ reply = << >> /\ ended = FALSE /\ status = "ready"
  BY DEF Init, WireInit, DeviceInit, ProxyInit
<1>2. Untouched /\ HeadFirst /\ Told
  BY <1>1 DEF Untouched, HeadFirst, Told
<1>3. Latest
  BY <1>1 DEF Latest
<1> QED
  BY <1>2, <1>3 DEF ArrivalInv

LEMMA ArrivalInvNext == HistoryInv /\ ArrivalInv /\ [Next]_vars => ArrivalInv'
<1> SUFFICES ASSUME HistoryInv, ArrivalInv, [Next]_vars PROVE ArrivalInv'
  OBVIOUS
<1>0. TypeOK
  BY DEF HistoryInv
<1>1. CASE Device
  BY <1>1, DeviceArrives DEF Device
<1>2. CASE Proxy
  BY <1>0, <1>2, ProxySpeaks, SpeakArrives DEF Proxy
<1>3. CASE Network
  BY <1>0, <1>3, NetworkArrives DEF Network
<1>4. CASE UNCHANGED vars
  BY <1>4 DEF vars, wireVars, deviceVars, proxyVars, ArrivalInv, Untouched, Latest, HeadFirst, Told
<1> QED
  BY <1>1, <1>2, <1>3, <1>4 DEF Next

(* A turn that is reported as failed has painted no text: what is known of *)
(* the connections rules out text before a 2xx status, and after one every *)
(* end of post_sse's loop is a success.                                    *)
THEOREM FailuresShowNothing == Spec => []FailureShowsNothing
<1>1. ArrivalInv => FailureShowsNothing
  BY DEF ArrivalInv, Told, FailureShowsNothing
<1> QED
  BY <1>1, HistoryInvInit, HistoryInvNext, ArrivalInvInit, ArrivalInvNext, PTL DEF Spec

----------------------------------------------------------------------------
(* The reply is whole as far as it goes: what the wire still carries goes  *)
(* on where the text on the screen ends, without a hole, up to all that    *)
(* the upstream has generated while the connection is open.                *)

\* The last unit the device has once it has read the lines before the i-th,
\* if it has the first n now.
Before(w, n, i) == IF i > 1 /\ w[i - 1].kind = "data" THEN w[i - 1].hi ELSE n

Complete(w, n, g, open) ==
  /\ \A i \in 1..Len(w) : w[i].kind = "data" =>
       w[i].lo = Before(w, n, i) + 1 /\ w[i].hi - w[i].lo < MaxDelta
  /\ \A i \in 1..Len(w) : w[i].kind = "done" => Before(w, n, i) = g /\ i = Len(w) /\ ~open
  /\ \A i, j \in 1..Len(w) : i < j /\ w[i].kind = "data" => w[j].kind \in {"data", "done"}
  /\ open => Before(w, n, Len(w) + 1) = g

WholeText ==
  /\ ReplyIsPrefix /\ DoneMeansAllText
  /\ pc \in Connected =>
       Complete(wire[turn], Len(reply), gen[turn], sock[turn] = "open")

\* Every event the upstream sends fits in the device's line buffer.
EventsFit == MaxDelta <= LineCap

LEMMA LineNumbers ==
  ASSUME NEW w \in Seq(Line)
  PROVE  /\ Len(w) \in Nat
         /\ \A i \in 1..Len(w) : w[i].lo \in Nat /\ w[i].hi \in Nat /\ w[i].lo <= w[i].hi + 1
<1>1. \A l \in Line : l.lo \in Nat /\ l.hi \in Nat /\ l.lo <= l.hi + 1
  BY TurnAssumption DEF Line
<1> QED
  BY <1>1, LenProperties, ElementOfSeq

\* Reading the oldest line, cutting the connection and writing to it keep
\* the text of the wire whole.
LEMMA CompleteTail ==
  ASSUME NEW w \in Seq(Line), w # << >>, NEW n \in Nat, NEW g \in Nat, NEW open,
         Complete(w, n, g, open)
  PROVE  Complete(Tail(w), IF Head(w).kind = "data" THEN Head(w).hi ELSE n, g, open)
<1> DEFINE v == Tail(w)
           m == IF Head(w).kind = "data" THEN Head(w).hi ELSE n
<1>1. /\ Len(w) \in Nat /\ Len(v) = Len(w) - 1 /\ Len(v) \in Nat /\ Head(w) = w[1]
      /\ \A i \in 1..Len(v) : v[i] = w[i + 1] /\ i + 1 \in 1..Len(w)
  BY HeadTailProperties, LenProperties, EmptySeq
<1> HIDE DEF v
<1>2. \A i \in 1..(Len(v) + 1) :
        i <= Len(v) \/ open => Before(v, m, i) = Before(w, n, i + 1)
  <2> SUFFICES ASSUME NEW i \in 1..(Len(v) + 1), i <= Len(v) \/ open
               PROVE  Before(v, m, i) = Before(w, n, i + 1)
    OBVIOUS
  <2>1. Before(w, n, i + 1) = IF w[i].kind = "data" THEN w[i].hi ELSE n
    BY DEF Before
  <2>2. CASE i = 1
    BY <1>1, <2>1, <2>2 DEF Before
  <2>3. CASE i > 1
    <3>1. i - 1 \in 1..Len(v) /\ v[i - 1] = w[i] /\ i \in 1..Len(w) /\ 1 \in 1..Len(w)
      BY <1>1, <2>3
    <3>2. Before(v, m, i) = IF w[i].kind = "data" THEN w[i].hi ELSE m
      BY <2>3, <3>1 DEF Before
    <3>3. w[1].kind = "data" => w[i].kind = "data"
      BY <1>1, <2>3, <3>1 DEF Complete
    <3> QED
      BY <1>1, <2>1, <3>2, <3>3
  <2> QED
    BY <2>2, <2>3
<1> HIDE DEF m
<1>3. \A i \in 1..Len(v) : v[i].kind = "data" =>
        v[i].lo = Before(v, m, i) + 1 /\ v[i].hi - v[i].lo < MaxDelta
  <2> SUFFICES ASSUME NEW i \in 1..Len(v), v[i].kind = "data"
               PROVE  v[i].lo = Before(v, m, i) + 1 /\ v[i].hi - v[i].lo < MaxDelta
    OBVIOUS
  <2>1. v[i] = w[i + 1] /\ i + 1 \in 1..Len(w) /\ Before(v, m, i) = Before(w, n, i + 1)
    BY <1>1, <1>2
  <2>2. w[i + 1].lo = Before(w, n, i + 1) + 1 /\ w[i + 1].hi - w[i + 1].lo < MaxDelta
    BY <2>1 DEF Complete
  <2> QED
    BY <2>1, <2>2
<1>4. \A i \in 1..Len(v) : v[i].kind = "done" => Before(v, m, i) = g /\ i = Len(v) /\ ~open
  <2> SUFFICES ASSUME NEW i \in 1..Len(v), v[i].kind = "done"
               PROVE  Before(v, m, i) = g /\ i = Len(v) /\ ~open
    OBVIOUS
  <2>1. v[i] = w[i + 1] /\ i + 1 \in 1..Len(w) /\ Before(v, m, i) = Before(w, n, i + 1)
    BY <1>1, <1>2
  <2>2. Before(w, n, i + 1) = g /\ i + 1 = Len(w) /\ ~open
    BY <2>1 DEF Complete
  <2> QED
    BY <1>1, <2>1, <2>2
<1>5. \A i, j \in 1..Len(v) : i < j /\ v[i].kind = "data" => v[j].kind \in {"data", "done"}
  <2> SUFFICES ASSUME NEW i \in 1..Len(v), NEW j \in 1..Len(v), i < j, v[i].kind = "data"
               PROVE  v[j].kind \in {"data", "done"}
    OBVIOUS
  <2>1. /\ v[i] = w[i + 1] /\ v[j] = w[j + 1] /\ i + 1 < j + 1
        /\ i + 1 \in 1..Len(w) /\ j + 1 \in 1..Len(w)
    BY <1>1
  <2> QED
    BY <2>1 DEF Complete
<1>6. open => Before(v, m, Len(v) + 1) = g
  BY <1>1, <1>2 DEF Complete
<1>7. Complete(v, m, g, open)
  BY <1>3, <1>4, <1>5, <1>6 DEF Complete
<1> QED
  BY <1>7 DEF m, v

LEMMA CompleteCut ==
  ASSUME NEW v \in Seq(Line), NEW w \in Seq(Line), Cut(v, w), NEW n \in Nat, NEW g \in Nat,
         NEW open, Complete(w, n, g, open)
  PROVE  Complete(v, n, g, FALSE)
<1>1. /\ Len(v) \in Nat /\ Len(w) \in Nat /\ Len(v) <= Len(w)
      /\ \A i \in 1..Len(v) : i \in 1..Len(w) /\ v[i].lo \in Nat /\ v[i].hi \in Nat
      /\ \A i \in 1..Len(w) : w[i].lo \in Nat /\ w[i].hi \in Nat
      /\ MaxDelta \in Nat
  BY LineNumbers, DeltaAssumption DEF Cut
<1>2. ASSUME NEW i \in 1..Len(v) PROVE Before(v, n, i) = Before(w, n, i)
  <2>1. ASSUME i > 1 PROVE i - 1 \in 1..Len(v) /\ v[i - 1] = w[i - 1]
    <3>1. i - 1 \in 1..Len(v) /\ i - 1 < Len(v)
      BY <1>1, <2>1
    <3> QED
      BY <3>1 DEF Cut
  <2> QED
    BY <2>1 DEF Before
<1>3. \A i \in 1..Len(v) : v[i].kind = "data" =>
        v[i].lo = Before(v, n, i) + 1 /\ v[i].hi - v[i].lo < MaxDelta
  <2> SUFFICES ASSUME NEW i \in 1..Len(v), v[i].kind = "data"
               PROVE  v[i].lo = Before(v, n, i) + 1 /\ v[i].hi - v[i].lo < MaxDelta
    OBVIOUS
  <2>1. /\ i \in 1..Len(w) /\ w[i].kind = "data" /\ v[i].lo = w[i].lo /\ v[i].hi <= w[i].hi
    BY <1>1 DEF Cut
  <2>2. w[i].lo = Before(w, n, i) + 1 /\ w[i].hi - w[i].lo < MaxDelta
    BY <2>1 DEF Complete
  <2> QED
    BY <1>1, <1>2, <2>1, <2>2
<1>4. \A i \in 1..Len(v) : v[i].kind = "done" => Before(v, n, i) = g /\ i = Len(v)
  BY <1>1, <1>2 DEF Complete, Cut
<1>5. \A i, j \in 1..Len(v) : i < j /\ v[i].kind = "data" => v[j].kind \in {"data", "done"}
  BY <1>1 DEF Complete, Cut
<1> QED
  BY <1>3, <1>4, <1>5 DEF Complete

\* A handler that is not over has written no [DONE] yet.
LEMMA CompleteLines ==
  ASSUME NEW w \in Seq(Line), NEW lines \in Seq(Line), NEW n \in Nat, NEW g \in Nat,
         Complete(w, n, g, TRUE), \A i \in 1..Len(lines) : lines[i].kind # "data",
         \A i \in 1..Len(lines) : lines[i].kind = "done" => i = Len(lines),
         w # << >> => Len(lines) <= 1 /\ \A i \in 1..Len(lines) : lines[i].kind \in {"data", "done"}
  PROVE  Complete(w \o lines, n, g, FALSE)
<1> DEFINE c == w \o lines
<1>1. /\ Len(w) \in Nat /\ Len(lines) \in Nat /\ Len(c) = Len(w) + Len(lines)
      /\ \A i \in 1..Len(w) : i \in 1..Len(c) /\ c[i] = w[i]
      /\ \A i \in 1..Len(c) : i > Len(w) => i - Len(w) \in 1..Len(lines) /\ c[i] = lines[i - Len(w)]
      /\ (w = << >> => Len(w) = 0)
  BY ConcatProperties, LenProperties, EmptySeq
<1> HIDE DEF c
<1>2. /\ \A i \in 1..Len(w) : w[i].kind # "done"
      /\ Before(w, n, Len(w) + 1) = g
  BY DEF Complete
<1>3. ASSUME NEW i \in 1..Len(w) PROVE Before(c, n, i) = Before(w, n, i)
  <2>1. i > 1 => i - 1 \in 1..Len(w) /\ c[i - 1] = w[i - 1]
    BY <1>1
  <2> QED
    BY <2>1 DEF Before
<1>4. ASSUME NEW i \in 1..Len(c), i > Len(w) PROVE Before(c, n, i) = g
  <2>1. CASE w # << >>
    <3>1. Len(w) > 0 /\ i = Len(w) + 1 /\ c[i - 1] = w[i - 1]
      BY <1>1, <1>4, <2>1, EmptySeq
    <3> QED
      BY <1>2, <3>1 DEF Before
  <2>2. CASE w = << >>
    <3>1. Len(w) = 0 /\ n = g
      BY <1>2, <2>2 DEF Before
    <3>2. i > 1 => i - 1 \in 1..Len(c) /\ c[i - 1] = lines[i - 1] /\ lines[i - 1].kind # "data"
      BY <1>1, <3>1
    <3> QED
      BY <3>1, <3>2 DEF Before
  <2> QED
    BY <2>1, <2>2
<1>5. \A i \in 1..Len(c) : c[i].kind = "data" =>
        c[i].lo = Before(c, n, i) + 1 /\ c[i].hi - c[i].lo < MaxDelta
  <2> SUFFICES ASSUME NEW i \in 1..Len(c), c[i].kind = "data"
               PROVE  c[i].lo = Before(c, n, i) + 1 /\ c[i].hi - c[i].lo < MaxDelta
    OBVIOUS
  <2>1. i \in 1..Len(w) /\ c[i] = w[i]
    BY <1>1
  <2>2. w[i].lo = Before(w, n, i) + 1 /\ w[i].hi - w[i].lo < MaxDelta
    BY <2>1 DEF Complete
  <2> QED
    BY <1>3, <2>1, <2>2
<1>6. \A i \in 1..Len(c) : c[i].kind = "done" => Before(c, n, i) = g /\ i = Len(c)
  <2> SUFFICES ASSUME NEW i \in 1..Len(c), c[i].kind = "done"
               PROVE  Before(c, n, i) = g /\ i = Len(c)
    OBVIOUS
  <2>1. i > Len(w)
    BY <1>1, <1>2
  <2>2. i - Len(w) \in 1..Len(lines) /\ lines[i - Len(w)].kind = "done"
    BY <1>1, <2>1
  <2>3. i - Len(w) = Len(lines)
    BY <2>2
  <2> QED
    BY <1>1, <1>4, <2>1, <2>3
<1>7. \A i, j \in 1..Len(c) : i < j /\ c[i].kind = "data" => c[j].kind \in {"data", "done"}
  <2> SUFFICES ASSUME NEW i \in 1..Len(c), NEW j \in 1..Len(c), i < j, c[i].kind = "data"
               PROVE  c[j].kind \in {"data", "done"}
    OBVIOUS
  <2>1. i \in 1..Len(w) /\ w # << >> /\ w[i].kind = "data"
    <3>1. CASE i > Len(w)
      BY <1>1, <3>1
    <3>2. CASE i <= Len(w)
      <4>1. i \in 1..Len(w) /\ Len(w) # 0
        BY <1>1, <3>2
      <4> QED
        BY <1>1, <4>1
    <3> QED
      BY <1>1, <3>1, <3>2
  <2>2. CASE j <= Len(w)
    <3>1. j \in 1..Len(w) /\ c[j] = w[j]
      BY <1>1, <2>2
    <3> QED
      BY <2>1, <3>1 DEF Complete
  <2>3. CASE j > Len(w)
    BY <1>1, <2>1, <2>3
  <2> QED
    BY <1>1, <2>2, <2>3
<1> QED
  BY <1>5, <1>6, <1>7 DEF Complete, c

LEMMA CompleteChunk ==
  ASSUME NEW w \in Seq(Line), NEW lines \in Seq(Line), NEW n \in Nat, NEW g \in Nat,
         Complete(w, n, g, TRUE), NEW k \in 0..MaxDelta,
         lines # << >>, lines[Len(lines)] = DataLine(g + 1, g + k),
         \A i \in 1..(Len(lines) - 1) : lines[i].kind \in {"status", "blank"},
         w # << >> => Len(lines) <= 1
  PROVE  Complete(w \o lines, n, g + k, TRUE)
<1> DEFINE c == w \o lines
           last == lines[Len(lines)]
<1>1. /\ Len(w) \in Nat /\ Len(lines) \in Nat /\ Len(lines) > 0 /\ Len(c) = Len(w) + Len(lines)
      /\ \A i \in 1..Len(w) : i \in 1..Len(c) /\ c[i] = w[i]
      /\ \A i \in 1..Len(c) : i > Len(w) => i - Len(w) \in 1..Len(lines) /\ c[i] = lines[i - Len(w)]
      /\ MaxDelta \in Nat /\ (w = << >> => Len(w) = 0)
  BY ConcatProperties, LenProperties, EmptySeq, DeltaAssumption
<1> HIDE DEF c
<1>2. /\ \A i \in 1..Len(w) : w[i].kind # "done"
      /\ Before(w, n, Len(w) + 1) = g
  BY DEF Complete
<1>3. last.kind = "data" /\ last.lo = g + 1 /\ last.hi = g + k /\ c[Len(c)] = last
  BY <1>1 DEF DataLine
<1>4. ASSUME NEW i \in 1..Len(c), i > Len(w), i < Len(c) PROVE c[i].kind \in {"status", "blank"} /\ w = << >>
  <2>1. Len(lines) > 1 /\ i - Len(w) \in 1..(Len(lines) - 1) /\ c[i] = lines[i - Len(w)]
    BY <1>1, <1>4
  <2> QED
    BY <1>1, <2>1
<1>5. ASSUME NEW i \in 1..Len(w) PROVE Before(c, n, i) = Before(w, n, i)
  <2>1. i > 1 => i - 1 \in 1..Len(w) /\ c[i - 1] = w[i - 1]
    BY <1>1
  <2> QED
    BY <2>1 DEF Before
<1>6. Before(c, n, Len(c)) = g
  <2>1. CASE w # << >>
    <3>1. Len(w) > 0 /\ Len(c) = Len(w) + 1 /\ c[Len(w)] = w[Len(w)]
      BY <1>1, <2>1, EmptySeq
    <3> QED
      BY <1>2, <3>1 DEF Before
  <2>2. CASE w = << >>
    <3>1. Len(w) = 0 /\ n = g
      BY <1>2, <2>2 DEF Before
    <3>2. Len(c) > 1 => Len(c) - 1 \in 1..Len(c) /\ c[Len(c) - 1].kind # "data"
      BY <1>1, <1>4, <3>1
    <3> QED
      BY <3>1, <3>2 DEF Before
  <2> QED
    BY <2>1, <2>2
<1>7. \A i \in 1..Len(c) : c[i].kind = "data" =>
        c[i].lo = Before(c, n, i) + 1 /\ c[i].hi - c[i].lo < MaxDelta
  <2> SUFFICES ASSUME NEW i \in 1..Len(c), c[i].kind = "data"
               PROVE  c[i].lo = Before(c, n, i) + 1 /\ c[i].hi - c[i].lo < MaxDelta
    OBVIOUS
  <2>1. CASE i <= Len(w)
    <3>1. i \in 1..Len(w) /\ c[i] = w[i] /\ Before(c, n, i) = Before(w, n, i)
      BY <1>1, <1>5, <2>1
    <3>2. w[i].lo = Before(w, n, i) + 1 /\ w[i].hi - w[i].lo < MaxDelta
      BY <3>1 DEF Complete
    <3> QED
      BY <3>1, <3>2
  <2>2. CASE i > Len(w)
    <3>1. i = Len(c)
      <4>1. ~(i < Len(c))
        BY <1>4, <2>2
      <4> QED
        BY <1>1, <4>1
    <3> QED
      BY <1>1, <1>3, <1>6, <3>1
  <2> QED
    BY <1>1, <2>1, <2>2
<1>8. \A i \in 1..Len(c) : c[i].kind # "done"
  <2> TAKE i \in 1..Len(c)
  <2>1. CASE i <= Len(w)
    BY <1>1, <1>2, <2>1
  <2>2. CASE i > Len(w)
    <3>1. CASE i = Len(c)
      BY <1>3, <3>1
    <3>2. CASE i < Len(c)
      BY <1>4, <2>2, <3>2
    <3> QED
      BY <1>1, <3>1, <3>2
  <2> QED
    BY <1>1, <2>1, <2>2
<1>9. \A i, j \in 1..Len(c) : i < j /\ c[i].kind = "data" => c[j].kind \in {"data", "done"}
  <2> SUFFICES ASSUME NEW i \in 1..Len(c), NEW j \in 1..Len(c), i < j, c[i].kind = "data"
               PROVE  c[j].kind \in {"data", "done"}
    OBVIOUS
  <2>1. i \in 1..Len(w)
    <3>1. i < Len(c)
      BY <1>1
    <3>2. ~(i > Len(w))
      BY <1>4, <3>1
    <3> QED
      BY <1>1, <3>2
  <2>2. CASE j <= Len(w)
    <3>1. j \in 1..Len(w) /\ c[j] = w[j] /\ w[i].kind = "data"
      BY <1>1, <2>1, <2>2
    <3> QED
      BY <2>1, <3>1 DEF Complete
  <2>3. CASE j > Len(w)
    <3>1. w # << >>
      BY <1>1, <2>1
    <3>2. j = Len(c)
      BY <1>1, <1>4, <2>3, <3>1
    <3> QED
      BY <1>3, <3>2
  <2> QED
    BY <1>1, <2>2, <2>3
<1>10. Before(c, n, Len(c) + 1) = g + k
  BY <1>1, <1>3 DEF Before
<1> QED
  BY <1>7, <1>8, <1>9, <1>10 DEF Complete, c

LEMMA WholeSpeaks ==
  ASSUME TypeOK, ArrivalInv, WholeText, NEW t \in Turns, NEW lines \in Seq(Line), NEW h,
         Speaks(t, lines, h), UNCHANGED deviceVars
  PROVE  WholeText'
<1>1. /\ turn \in Int /\ (pc # "idle" => turn \in Turns)
      /\ sock \in [Turns -> {"none", "open", "eof", "closed"}]
      /\ wire \in [Turns -> Seq(Line)] /\ wire[t] \in Seq(Line)
      /\ handler \in [Turns -> {"none", "first", "stream", "finish", "ended"}]
      /\ gen \in [Turns -> 0..MaxText] /\ gen[t] \in Nat
      /\ reply \in Seq(Unit) /\ Len(reply) \in Nat
      /\ UNCHANGED <<pc, turn, reply, ended>>
  BY TurnAssumption, LenProperties
     DEF TypeOK, DeviceTypeOK, WireTypeOK, ProxyTypeOK, deviceVars, Text
<1>2. \A u \in Turns \ {t} : /\ gen'[u] = gen[u] /\ sock'[u] = sock[u] /\ wire'[u] = wire[u]
  <2>1. \A u \in Turns \ {t} : gen'[u] = gen[u]
    BY <1>1 DEF Speaks, Carries
  <2> QED
    BY <1>1, <2>1 DEF Speaks, Write, Hangup
<1>3. ReplyIsPrefix'
  BY <1>1 DEF WholeText, ReplyIsPrefix
<1>4. DoneMeansAllText'
  BY <1>1, <1>2 DEF WholeText, DoneMeansAllText, ArrivalInv, Told, Speaks
<1>5. ASSUME pc' \in Connected
      PROVE  Complete(wire'[turn'], Len(reply'), gen'[turn'], sock'[turn'] = "open")
  <2>1. pc \in Connected /\ Complete(wire[turn], Len(reply), gen[turn], sock[turn] = "open")
    BY <1>1, <1>5 DEF WholeText
  <2>2. CASE turn # t
    BY <1>1, <1>2, <2>1, <2>2 DEF Connected
  <2>3. CASE turn = t /\ sock[t] # "open"
    <3>1. wire'[t] = wire[t] /\ sock'[t] # "open"
      BY <1>1, <2>3 DEF Speaks, Write, Hangup
    <3>2. \A i \in 1..Len(wire[t]) : wire[t][i].kind # "done"
      BY DEF ArrivalInv, Latest, Speaks
    <3>3. Complete(wire[t], Len(reply), gen'[t], FALSE)
      BY <2>1, <2>3, <3>2 DEF Complete
    <3> QED
      BY <1>1, <2>3, <3>1, <3>3
  <2>4. CASE turn = t /\ sock[t] = "open"
    <3>1. /\ wire'[t] = wire[t] \o lines
          /\ Complete(wire[t], Len(reply), gen[t], TRUE)
      BY <1>1, <2>1, <2>4 DEF Speaks, Write
    <3>2. wire[t] # << >> => handler[t] \in {"stream", "finish"}
      BY <1>1 DEF ArrivalInv, Untouched, Speaks
    <3>3. wire[t] # << >> =>
            Len(lines) <= 1 /\ \A i \in 1..Len(lines) : lines[i].kind \in {"data", "done"}
      BY <3>2 DEF Speaks
    <3>4. CASE /\ UNCHANGED gen /\ (lines # << >> => h = "ended")
               /\ \A i \in 1..Len(lines) : lines[i].kind # "data"
      <4>1. CASE h = "ended"
        <5>1. sock'[t] = "eof"
          BY <1>1, <2>4, <4>1 DEF Speaks, Hangup
        <5>2. \A i \in 1..Len(lines) : lines[i].kind = "done" => i = Len(lines)
          BY DEF Speaks
        <5>3. Complete(wire[t] \o lines, Len(reply), gen[t], FALSE)
          BY <1>1, <3>1, <3>3, <3>4, <5>2, CompleteLines
        <5> QED
          BY <1>1, <2>4, <3>1, <3>4, <5>1, <5>3
      <4>2. CASE h # "ended"
        <5>1. lines = << >> /\ wire[t] \o << >> = wire[t]
          BY <1>1, <3>4, <4>2, ConcatEmptySeq
        <5>2. sock' = sock
          BY <4>2 DEF Speaks
        <5> QED
          BY <1>1, <2>1, <2>4, <3>1, <3>4, <5>1, <5>2
      <4> QED
        BY <4>1, <4>2
    <3>5. CASE \E n \in 0..MaxDelta :
                 /\ lines # << >> /\ lines[Len(lines)] = DataLine(gen[t] + 1, gen[t] + n)
                 /\ \A i \in 1..(Len(lines) - 1) : lines[i].kind \in {"status", "blank"}
                 /\ gen' = [gen EXCEPT ![t] = @ + n]
      <4>1. PICK n \in 0..MaxDelta :
                 /\ lines # << >> /\ lines[Len(lines)] = DataLine(gen[t] + 1, gen[t] + n)
                 /\ \A i \in 1..(Len(lines) - 1) : lines[i].kind \in {"status", "blank"}
                 /\ gen' = [gen EXCEPT ![t] = @ + n]
        BY <3>5
      <4>2. Complete(wire[t] \o lines, Len(reply), gen[t] + n, TRUE)
        BY <1>1, <3>1, <3>3, <4>1, CompleteChunk
      <4>3. gen'[t] = gen[t] + n
        BY <1>1, <4>1
      <4>4. Complete(wire'[t], Len(reply), gen'[t], TRUE)
        BY <3>1, <4>2, <4>3
      <4>5. Complete(wire'[t], Len(reply), gen'[t], sock'[t] = "open")
        BY <4>4 DEF Complete
      <4> QED
        BY <1>1, <2>4, <4>5
    <3> QED
      BY <3>4, <3>5 DEF Speaks, Carries
  <2> QED
    BY <2>2, <2>3, <2>4
<1> QED
  BY <1>3, <1>4, <1>5 DEF WholeText, Connected

LEMMA WholeReset ==
  ASSUME TypeOK, WholeText, NEW t \in Turns, Reset(t), UNCHANGED <<deviceVars, proxyVars>>
  PROVE  WholeText'
<1>1. /\ pc # "idle" => turn \in Turns
      /\ sock \in [Turns -> {"none", "open", "eof", "closed"}]
      /\ wire \in [Turns -> Seq(Line)] /\ wire[t] \in Seq(Line)
      /\ \A u \in Turns : gen[u] \in Nat
      /\ reply \in Seq(Unit) /\ Len(reply) \in Nat
      /\ UNCHANGED <<pc, turn, reply, ended, gen>>
  BY TurnAssumption, LenProperties
     DEF TypeOK, DeviceTypeOK, WireTypeOK, ProxyTypeOK, deviceVars, proxyVars, Text
<1>2. /\ sock'[t] = "eof" /\ \A u \in Turns \ {t} : sock'[u] = sock[u] /\ wire'[u] = wire[u]
      /\ Cut(wire'[t], wire[t])
  BY <1>1, ResetCuts DEF Reset, TypeOK
<1>3. ReplyIsPrefix' /\ DoneMeansAllText'
  BY <1>1 DEF WholeText, ReplyIsPrefix, DoneMeansAllText
<1>4. ASSUME pc' \in Connected
      PROVE  Complete(wire'[turn'], Len(reply'), gen'[turn'], sock'[turn'] = "open")
  <2>1. /\ Complete(wire[turn], Len(reply), gen[turn], sock[turn] = "open")
        /\ turn \in Turns
    BY <1>1, <1>4 DEF WholeText, Connected
  <2>2. CASE turn # t
    BY <1>1, <1>2, <2>1, <2>2
  <2>3. CASE turn = t
    <3>1. wire'[t] \in Seq(Line)
      BY <1>2 DEF Cut
    <3>2. Complete(wire'[t], Len(reply), gen[t], FALSE)
      BY <1>1, <1>2, <2>1, <2>3, <3>1, CompleteCut
    <3> QED
      BY <1>1, <1>2, <2>3, <3>2
  <2> QED
    BY <2>2, <2>3
<1> QED
  BY <1>3, <1>4 DEF WholeText, Connected

(* The text of a data line that fits is shown whole, and goes on exactly   *)
(* where the reply on the screen ends.                                     *)
LEMMA WholeData ==
  ASSUME TypeOK, EventsFit, WholeText, ReadData
  PROVE  /\ ReplyIsPrefix' /\ Len(reply') = Head(wire[turn]).hi
         /\ wire'[turn] = Tail(wire[turn])
<1> DEFINE line == Head(wire[turn])
           shown == Shown(turn, line, LineCap)
           tail == IF line.hi - line.lo + 1 > LineCap THEN <<Other("rest")>> ELSE << >>
<1>1. /\ turn \in Turns /\ turn' = turn /\ pc = "line" /\ line.kind = "data"
      /\ wire \in [Turns -> Seq(Line)] /\ wire[turn] \in Seq(Line) /\ wire[turn] # << >>
      /\ reply \in Seq(Unit) /\ Len(reply) \in Nat
      /\ reply' = reply \o shown
  BY LenProperties DEF TypeOK, DeviceTypeOK, WireTypeOK, ReadData, HasLine, Text
<1>2. /\ line \in Line /\ 1 \in 1..Len(wire[turn]) /\ wire[turn][1] = line
      /\ Tail(wire[turn]) \in Seq(Line)
  BY <1>1, HeadTailProperties
<1>3. /\ line.lo \in Nat /\ line.hi \in Nat /\ line.lo <= line.hi + 1
      /\ MaxDelta \in Nat /\ LineCap \in Nat /\ MaxDelta <= LineCap
  BY <1>1, <1>2, LineNumbers, DeltaAssumption, TickAssumption DEF EventsFit
<1>4. line.lo = Len(reply) + 1 /\ line.hi - line.lo < MaxDelta
  BY <1>1, <1>2 DEF WholeText, Connected, Complete, Before
<1>5. line.hi - line.lo + 1 <= LineCap /\ line.hi - line.lo + 1 \in Nat
  BY <1>3, <1>4
<1>6. wire'[turn] = Tail(wire[turn])
  <2>1. wire' = [wire EXCEPT ![turn] = tail \o Tail(@)]
    BY DEF ReadData
  <2>2. tail = << >>
    BY <1>3, <1>5
  <2>3. << >> \o Tail(wire[turn]) = Tail(wire[turn])
    BY <1>2, ConcatEmptySeq
  <2> HIDE DEF tail
  <2> QED
    BY <1>1, <2>1, <2>2, <2>3
<1>7. /\ shown \in Seq(Unit) /\ Len(shown) = line.hi - line.lo + 1
      /\ \A i \in 1..Len(shown) : shown[i] = <<turn, line.lo + i - 1>>
  <2>1. shown \in Seq(Unit) /\ \A i \in 1..Len(shown) : shown[i] = <<turn, line.lo + i - 1>>
    BY <1>1, <1>2, <1>3, ShownProperties DEF Text
  <2>2. Len(shown) = line.hi - line.lo + 1
    BY <1>3, <1>5 DEF Shown
  <2> QED
    BY <2>1, <2>2
<1> HIDE DEF shown
<1>8. /\ Len(reply \o shown) = Len(reply) + Len(shown)
      /\ \A i \in 1..(Len(reply) + Len(shown)) :
           (reply \o shown)[i] = IF i <= Len(reply) THEN reply[i] ELSE shown[i - Len(reply)]
  BY <1>1, <1>7, ConcatProperties
<1>9. Len(reply') = line.hi
  <2>1. Len(reply') = Len(reply) + Len(shown)
    BY <1>1, <1>8
  <2>2. line.lo = Len(reply) + 1 /\ Len(shown) = line.hi - line.lo + 1
    BY <1>4, <1>7
  <2> HIDE DEF line
  <2> QED
    BY <1>1, <1>3, <2>1, <2>2
<1>10. ASSUME NEW i \in 1..Len(reply') PROVE reply'[i] = <<turn, i>>
  <2>1. i \in 1..(Len(reply) + Len(shown))
    BY <1>1, <1>8
  <2>2. CASE i <= Len(reply)
    BY <1>1, <1>8, <2>1, <2>2 DEF WholeText, ReplyIsPrefix
  <2>3. CASE i > Len(reply)
    <3>1. i - Len(reply) \in 1..Len(shown) /\ line.lo + (i - Len(reply)) - 1 = i
      <4>1. Len(shown) \in Nat
        BY <1>7, LenProperties
      <4>2. i \in Int /\ i - Len(reply) \in 1..Len(shown)
        BY <1>1, <2>1, <2>3, <4>1
      <4>3. line.lo = Len(reply) + 1
        BY <1>4
      <4> HIDE DEF line
      <4> QED
        BY <1>1, <4>2, <4>3
    <3>2. reply'[i] = shown[i - Len(reply)]
      BY <1>1, <1>8, <2>1, <2>3
    <3> QED
      BY <1>7, <3>1, <3>2
  <2> QED
    BY <1>1, <2>2, <2>3
<1> QED
  BY <1>1, <1>6, <1>9, <1>10 DEF ReplyIsPrefix

LEMMA WholeDevice ==
  ASSUME HistoryInv, EventsFit, ArrivalInv, WholeText, DeviceNext, UNCHANGED proxyVars
  PROVE  WholeText'
<1>1. /\ TypeOK /\ (pc # "idle" => turn \in Turns) /\ turn \in Int
      /\ wire \in [Turns -> Seq(Line)] /\ \A u \in Turns : gen[u] \in Nat
      /\ reply \in Seq(Unit) /\ Len(reply) \in Nat /\ Len(<< >>) = 0
      /\ sock \in [Turns -> {"none", "open", "eof", "closed"}]
      /\ UNCHANGED gen
  BY TurnAssumption, LenProperties
     DEF HistoryInv, TypeOK, DeviceTypeOK, WireTypeOK, ProxyTypeOK, Text, proxyVars
\* What ends a turn keeps the reply, or forgets it.
<1>2. ASSUME pc' = "idle", UNCHANGED <<turn, reply>>, ended' => ended \/ Len(reply) = gen[turn]
      PROVE  WholeText'
  BY <1>1, <1>2 DEF WholeText, ReplyIsPrefix, DoneMeansAllText, Connected
<1>3. ASSUME pc' \notin Connected, reply' = << >>, ended' = FALSE
      PROVE  WholeText'
  BY <1>1, <1>3 DEF WholeText, ReplyIsPrefix, DoneMeansAllText
<1>4. ASSUME pc \in Connected, UNCHANGED <<turn, sock, reply, ended>>,
             \/ UNCHANGED wire
             \/ wire[turn] # << >> /\ Head(wire[turn]).kind # "data" /\ Consume
      PROVE  WholeText'
  <2>1. ReplyIsPrefix' /\ DoneMeansAllText'
    BY <1>1, <1>4 DEF WholeText, ReplyIsPrefix, DoneMeansAllText
  <2>2. /\ turn \in Turns /\ wire[turn] \in Seq(Line) /\ gen[turn] \in Nat
        /\ Complete(wire[turn], Len(reply), gen[turn], sock[turn] = "open")
    BY <1>1, <1>4 DEF WholeText, Connected
  <2>3. CASE UNCHANGED wire
    BY <1>1, <1>4, <2>1, <2>2, <2>3 DEF WholeText
  <2>4. CASE wire[turn] # << >> /\ Head(wire[turn]).kind # "data" /\ Consume
    <3>1. Complete(Tail(wire[turn]), IF Head(wire[turn]).kind = "data"
                                     THEN Head(wire[turn]).hi ELSE Len(reply),
                   gen[turn], sock[turn] = "open")
      BY <1>1, <2>2, <2>4, CompleteTail
    <3>2. Complete(Tail(wire[turn]), Len(reply), gen[turn], sock[turn] = "open")
      BY <2>4, <3>1
    <3>3. wire'[turn] = Tail(wire[turn])
      BY <1>1, <2>2, <2>4 DEF Consume
    <3> QED
      BY <1>1, <1>4, <2>1, <3>2, <3>3 DEF WholeText
  <2> QED
    BY <1>4, <2>3, <2>4
<1>5. ASSUME Send PROVE WholeText'
  BY <1>3, <1>5 DEF Send, Connected
<1>6. ASSUME Connect PROVE WholeText'
  <2>1. /\ pc = "connect" /\ turn \in Turns /\ UNCHANGED <<turn, reply, wire, ended>>
    BY <1>1, <1>6 DEF Connect
  <2>2. wire[turn] = << >> /\ gen[turn] = 0
    BY <1>1, <2>1 DEF ArrivalInv, Untouched
  <2>3. ReplyIsPrefix' /\ DoneMeansAllText'
    BY <1>1, <2>1 DEF WholeText, ReplyIsPrefix, DoneMeansAllText
  <2>4. reply = << >>
    BY <2>1 DEF ArrivalInv, Told
  <2>5. Complete(wire'[turn'], Len(reply'), gen'[turn'], sock'[turn'] = "open")
    BY <1>1, <2>1, <2>2, <2>4 DEF Complete, Before
  <2> QED
    BY <2>3, <2>5 DEF WholeText
<1>7. ASSUME ConnectFails \/ NoStatusLine PROVE WholeText'
  BY <1>2, <1>7 DEF ConnectFails, NoStatusLine, Fail, Return
<1>8. ASSUME ReadStatus PROVE WholeText'
  <2>1. Head(wire[turn]).kind = "status" /\ wire[turn] # << >>
    BY <1>8 DEF ReadStatus, HasLine, ArrivalInv, HeadFirst
  <2> QED
    BY <1>4, <1>8, <2>1 DEF ReadStatus, Connected
<1>9. ASSUME ReadHeaders PROVE WholeText'
  <2>1. CASE code = 200
    <3>1. CASE HasLine(HeadTicks)
      <4>1. Head(wire[turn]).kind = "blank" /\ wire[turn] # << >> /\ Consume
        <5>1. wait \in Nat /\ HeadTicks \in Nat /\ wait < HeadTicks /\ wire[turn] # << >>
          BY <1>1, <3>1, TickAssumption DEF TypeOK, DeviceTypeOK, HasLine
        <5>2. ~NoLine(HeadTicks)
          BY <5>1 DEF NoLine
        <5> QED
          BY <1>9, <2>1, <3>1, <5>1, <5>2 DEF ReadHeaders
      <4> QED
        BY <1>4, <1>9, <2>1, <4>1 DEF ReadHeaders, Connected
    <3>2. CASE ~HasLine(HeadTicks)
      BY <1>4, <1>9, <2>1, <3>2 DEF ReadHeaders, Connected
    <3> QED
      BY <3>1, <3>2
  <2>2. CASE code # 200
    BY <1>2, <1>9, <2>2 DEF ReadHeaders, Fail, Return
  <2> QED
    BY <2>1, <2>2
<1>10. ASSUME BodyLoop PROVE WholeText'
  BY <1>4, <1>10 DEF BodyLoop, Connected, wireVars
<1>11. ASSUME BodyDeadline \/ BodyQuiet PROVE WholeText'
  BY <1>2, <1>11 DEF BodyDeadline, BodyQuiet, FinishBody, Succeed, Return
<1>12. ASSUME ReadDone PROVE WholeText'
  <2>1. /\ wire[turn] # << >> /\ Head(wire[turn]).kind = "done" /\ pc = "line"
        /\ turn \in Turns /\ wire[turn] \in Seq(Line)
    BY <1>1, <1>12 DEF ReadDone, HasLine
  <2>2. 1 \in 1..Len(wire[turn]) /\ wire[turn][1] = Head(wire[turn])
    BY <2>1
  <2>3. Len(reply) = gen[turn]
    BY <2>1, <2>2 DEF WholeText, Connected, Complete, Before
  <2> QED
    BY <1>2, <1>12, <2>3 DEF ReadDone, FinishBody, Succeed, Return
<1>13. ASSUME ReadData PROVE WholeText'
  <2>1. ReplyIsPrefix' /\ Len(reply') = Head(wire[turn]).hi /\ wire'[turn] = Tail(wire[turn])
    BY <1>1, <1>13, WholeData
  <2>2. /\ turn \in Turns /\ pc = "line" /\ wire[turn] # << >> /\ Head(wire[turn]).kind = "data"
        /\ UNCHANGED <<turn, ended, sock>> /\ wire[turn] \in Seq(Line) /\ gen[turn] \in Nat
    BY <1>1, <1>13 DEF ReadData, HasLine
  <2>3. Complete(wire[turn], Len(reply), gen[turn], sock[turn] = "open")
    BY <2>2 DEF WholeText, Connected
  <2>4. Complete(Tail(wire[turn]), IF Head(wire[turn]).kind = "data"
                                   THEN Head(wire[turn]).hi ELSE Len(reply),
                 gen[turn], sock[turn] = "open")
    BY <1>1, <2>2, <2>3, CompleteTail
  <2>5. Complete(Tail(wire[turn]), Head(wire[turn]).hi, gen[turn], sock[turn] = "open")
    BY <2>2, <2>4
  <2>6. DoneMeansAllText'
    BY <2>2 DEF DoneMeansAllText, ArrivalInv, Told
  <2> QED
    BY <1>1, <2>1, <2>2, <2>5, <2>6 DEF WholeText
<1>14. ASSUME SkipLine PROVE WholeText'
  BY <1>4, <1>14 DEF SkipLine, HasLine, Connected
<1>15. ASSUME Tick \/ PickProfile PROVE WholeText'
  BY <1>1, <1>15
     DEF Tick, PickProfile, wireVars, WholeText, ReplyIsPrefix, DoneMeansAllText, Connected
<1>16. ASSUME Reboot PROVE WholeText'
  BY <1>3, <1>16 DEF Reboot, Return, Connected
<1> QED
  BY <1>5, <1>6, <1>7, <1>8, <1>9, <1>10, <1>11, <1>12, <1>13, <1>14, <1>15, <1>16
     DEF DeviceNext, TurnStep

LEMMA WholeTextInit == Init => WholeText
  BY DEF Init, DeviceInit, WholeText, ReplyIsPrefix, DoneMeansAllText, Connected

LEMMA WholeTextNext ==
  ASSUME EventsFit
  PROVE  HistoryInv /\ ArrivalInv /\ WholeText /\ [Next]_vars => WholeText'
<1> SUFFICES ASSUME HistoryInv, ArrivalInv, WholeText, [Next]_vars PROVE WholeText'
  OBVIOUS
<1>0. TypeOK
  BY DEF HistoryInv
<1>1. CASE Device
  BY <1>1, WholeDevice DEF Device
<1>2. CASE Proxy
  BY <1>0, <1>2, ProxySpeaks, WholeSpeaks DEF Proxy
<1>3. CASE Network
  BY <1>0, <1>3, WholeReset DEF Network
<1>4. CASE UNCHANGED vars
  BY <1>4 DEF vars, wireVars, deviceVars, proxyVars, WholeText, ReplyIsPrefix,
              DoneMeansAllText, Connected
<1> QED
  BY <1>1, <1>2, <1>3, <1>4 DEF Next

(* When every event fits the device's line buffer, the reply on the screen *)
(* is at any time what the upstream generated from its beginning, without  *)
(* a hole, through cuts, timeouts and the text of earlier turns.           *)
THEOREM RepliesArePrefixes ==
  ASSUME EventsFit
  PROVE  Spec => []ReplyIsPrefix
<1>1. HistoryInv /\ ArrivalInv /\ WholeText => ReplyIsPrefix
  BY DEF WholeText
<1>2. HistoryInv /\ ArrivalInv /\ WholeText /\ [Next]_vars => WholeText'
  BY WholeTextNext
<1> QED
  BY <1>1, <1>2, HistoryInvInit, HistoryInvNext, ArrivalInvInit, ArrivalInvNext, WholeTextInit,
     PTL DEF Spec

(* ... and when [DONE] was read the reply is all of it.                    *)
THEOREM DoneIsWhole ==
  ASSUME EventsFit
  PROVE  Spec => []DoneMeansAllText
<1>1. HistoryInv /\ ArrivalInv /\ WholeText => DoneMeansAllText
  BY DEF WholeText
<1>2. HistoryInv /\ ArrivalInv /\ WholeText /\ [Next]_vars => WholeText'
  BY WholeTextNext
<1> QED
  BY <1>1, <1>2, HistoryInvInit, HistoryInvNext, ArrivalInvInit, ArrivalInvNext, WholeTextInit,
     PTL DEF Spec
=============================================================================
