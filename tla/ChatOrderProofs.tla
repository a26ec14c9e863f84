--------------------------- MODULE ChatOrderProofs ---------------------------
(***************************************************************************)
(* Proofs about the text of the chat path: what is on a connection is      *)
(* ordered, a reply is ordered and belongs to its question, every request  *)
(* is a well-formed conversation, and ChatTurn implements Conversation.    *)
(***************************************************************************)
EXTENDS ChatTurnProofs

(* The order of text: on a connection, data lines carry ever later units,  *)
(* and the reply so far is older than anything still on the wire.          *)

WireOrdered(w, g) ==
  /\ \A i \in 1..Len(w) : w[i].hi <= g
  /\ \A i, j \in 1..Len(w) :
       i < j /\ w[i].kind = "data" /\ w[j].kind = "data" => w[i].hi < w[j].lo

TextOrdered(r, q, g) ==
  /\ \A i \in 1..Len(r) : r[i][1] = q /\ r[i][2] >= 1 /\ r[i][2] <= g
  /\ \A i, j \in 1..Len(r) : i < j => r[i][2] < r[j][2]

Follows(w, r) ==
  \A i \in 1..Len(w), j \in 1..Len(r) : w[i].kind = "data" => r[j][2] < w[i].lo

OrderInv ==
  /\ \A t \in Turns : WireOrdered(wire[t], gen[t])
  /\ pc # "idle" => /\ TextOrdered(reply, turn, gen[turn])
                    /\ Follows(wire[turn], reply)

(* The open question is the last message, and whatever is before it is     *)
(* text of earlier turns.                                                  *)
OlderThan(messages, q) ==
  \A i \in 1..Len(messages) : \A u \in 1..Len(messages[i].content) :
    messages[i].content[u][1] < q

QuestionInv ==
  /\ OlderThan(history, turn + 1)
  /\ pc # "idle" => /\ history[Len(history)] = UserMessage(turn)
                    /\ OlderThan(SubSeq(history, 1, Len(history) - 1), turn)

ConvInv == HistoryInv /\ OrderInv /\ QuestionInv /\ RequestWellFormed

(* Lines are numbers and a kind.                                           *)
LEMMA LineFields ==
  ASSUME NEW w \in Seq(Line)
  PROVE  /\ Len(w) \in Nat
         /\ \A i \in 1..Len(w) : w[i] \in Line /\ w[i].lo \in Nat /\ w[i].hi \in Nat
                                /\ w[i].lo >= 1 /\ w[i].lo <= w[i].hi + 1
<1>1. \A l \in Line : l.lo \in Nat /\ l.hi \in Nat /\ l.lo >= 1 /\ l.lo <= l.hi + 1
  BY TurnAssumption DEF Line
<1> QED
  BY <1>1, LenProperties, ElementOfSeq

(* Writing later lines behind a wire keeps it ordered.                     *)
LEMMA OrderedConcat ==
  ASSUME NEW w \in Seq(Line), NEW l \in Seq(Line), NEW g \in Nat, NEW h \in Nat,
         g <= h, WireOrdered(w, g), WireOrdered(l, h),
         \A i \in 1..Len(l) : l[i].kind = "data" => g < l[i].lo
  PROVE  WireOrdered(w \o l, h)
<1> DEFINE c == w \o l
<1>1. /\ Len(w) \in Nat /\ Len(l) \in Nat /\ Len(c) = Len(w) + Len(l)
      /\ \A i \in 1..Len(c) : c[i] = IF i <= Len(w) THEN w[i] ELSE l[i - Len(w)]
  BY ConcatProperties, LenProperties
<1> HIDE DEF c
<1>2. \A i \in 1..Len(c) : c[i].hi <= h
  BY <1>1, LineFields DEF WireOrdered
<1>3. ASSUME NEW i \in 1..Len(c), NEW j \in 1..Len(c),
             i < j, c[i].kind = "data", c[j].kind = "data"
      PROVE  c[i].hi < c[j].lo
  <2>1. CASE j <= Len(w)
    BY <1>1, <1>3, <2>1 DEF WireOrdered
  <2>2. CASE i <= Len(w) /\ j > Len(w)
    <3>1. c[i] = w[i] /\ i \in 1..Len(w) /\ c[j] = l[j - Len(w)] /\ j - Len(w) \in 1..Len(l)
      BY <1>1, <2>2
    <3>2. c[i].hi <= g /\ g < c[j].lo
      BY <1>3, <3>1 DEF WireOrdered
    <3>3. c[i].hi \in Nat /\ c[j].lo \in Nat
      <4>1. \A k \in 1..Len(w) : w[k].hi \in Nat
        BY LineFields
      <4>2. \A k \in 1..Len(l) : l[k].lo \in Nat
        BY LineFields
      <4> QED
        BY <3>1, <4>1, <4>2
    <3> QED
      BY <3>2, <3>3
  <2>3. CASE i > Len(w)
    <3>1. /\ c[i] = l[i - Len(w)] /\ i - Len(w) \in 1..Len(l)
          /\ c[j] = l[j - Len(w)] /\ j - Len(w) \in 1..Len(l) /\ i - Len(w) < j - Len(w)
      BY <1>1, <1>3, <2>3
    <3> QED
      BY <1>3, <3>1 DEF WireOrdered
  <2> QED
    BY <1>1, <2>1, <2>2, <2>3
<1> QED
  BY <1>2, <1>3 DEF WireOrdered, c

(* A wire that lost its end, or the end of its last line, stays ordered.   *)
Shrinks(v, w) ==
  /\ Len(v) <= Len(w)
  /\ \A i \in 1..Len(v) :
       v[i].kind = w[i].kind /\ v[i].lo = w[i].lo /\ v[i].hi <= w[i].hi

LEMMA ShrinkOrdered ==
  ASSUME NEW v \in Seq(Line), NEW w \in Seq(Line), NEW g \in Nat, NEW r \in Text,
         Shrinks(v, w)
  PROVE  /\ WireOrdered(w, g) => WireOrdered(v, g)
         /\ Follows(w, r) => Follows(v, r)
<1>1. \A i \in 1..Len(v) : /\ i \in 1..Len(w) /\ v[i].hi \in Nat /\ w[i].hi \in Nat
                           /\ v[i].lo \in Nat /\ v[i].kind = w[i].kind
                           /\ v[i].lo = w[i].lo /\ v[i].hi <= w[i].hi
  BY LineFields DEF Shrinks
<1>2. ASSUME WireOrdered(w, g) PROVE WireOrdered(v, g)
  <2>1. ASSUME NEW i \in 1..Len(v) PROVE v[i].hi <= g
    BY <1>1, <1>2 DEF WireOrdered
  <2>2. ASSUME NEW i \in 1..Len(v), NEW j \in 1..Len(v),
               i < j, v[i].kind = "data", v[j].kind = "data"
        PROVE  v[i].hi < v[j].lo
    <3>1. w[i].hi < w[j].lo
      BY <1>1, <1>2, <2>2 DEF WireOrdered
    <3> QED
      BY <1>1, <3>1
  <2> QED
    BY <2>1, <2>2 DEF WireOrdered
<1>3. ASSUME Follows(w, r) PROVE Follows(v, r)
  BY <1>1, <1>3 DEF Follows
<1> QED
  BY <1>2, <1>3

(* Taking the head off a wire keeps the rest ordered.                      *)
LEMMA TailOrdered ==
  ASSUME NEW w \in Seq(Line), w # << >>, NEW g \in Nat, NEW r \in Text
  PROVE  /\ WireOrdered(w, g) => WireOrdered(Tail(w), g)
         /\ Follows(w, r) => Follows(Tail(w), r)
<1>1. /\ Len(w) \in Nat /\ Len(Tail(w)) = Len(w) - 1
      /\ \A i \in 1..Len(Tail(w)) : Tail(w)[i] = w[i + 1] /\ i + 1 \in 1..Len(w)
  BY HeadTailProperties, LenProperties
<1>2. ASSUME WireOrdered(w, g) PROVE WireOrdered(Tail(w), g)
  BY <1>1, <1>2 DEF WireOrdered
<1>3. ASSUME Follows(w, r) PROVE Follows(Tail(w), r)
  BY <1>1, <1>3 DEF Follows
<1> QED
  BY <1>2, <1>3

(* More text may have been generated than before.                          *)
LEMMA MoreGenerated ==
  ASSUME NEW g \in Nat, NEW h \in Nat, g <= h
  PROVE  /\ \A w \in Seq(Line) : WireOrdered(w, g) => WireOrdered(w, h)
         /\ \A r \in Text, q \in Nat : TextOrdered(r, q, g) => TextOrdered(r, q, h)
<1>1. ASSUME NEW w \in Seq(Line), WireOrdered(w, g) PROVE WireOrdered(w, h)
  <2>1. \A i \in 1..Len(w) : w[i].hi \in Nat
    BY LineFields
  <2> QED
    BY <1>1, <2>1 DEF WireOrdered
<1>2. ASSUME NEW r \in Text, NEW q \in Nat, TextOrdered(r, q, g) PROVE TextOrdered(r, q, h)
  <2>1. \A i \in 1..Len(r) : r[i][2] \in Nat
    <3>1. \A u \in Unit : u[2] \in Nat
      BY TurnAssumption DEF Unit
    <3> QED
      BY <3>1, ElementOfSeq DEF Text
  <2> QED
    BY <1>2, <2>1 DEF TextOrdered
<1> QED
  BY <1>1, <1>2

(* The part of OrderInv about the device survives whatever the proxy or    *)
(* the network does, as long as lines only appear behind the wire or go.   *)
LEMMA WriteOrder ==
  ASSUME TypeOK, OrderInv, NEW t \in Turns, NEW lines \in Seq(Line),
         UNCHANGED deviceVars, gen' \in [Turns -> 0..MaxText],
         \A u \in Turns : gen[u] <= gen'[u],
         Write(t, lines) \/ UNCHANGED wire,
         WireOrdered(lines, gen'[t]),
         \A i \in 1..Len(lines) : lines[i].kind = "data" => gen[t] < lines[i].lo
  PROVE  OrderInv'
<1>1. /\ wire \in [Turns -> Seq(Line)] /\ gen \in [Turns -> 0..MaxText]
      /\ \A u \in Turns : gen[u] \in Nat /\ gen'[u] \in Nat
      /\ reply \in Text /\ turn \in Nat
      /\ pc # "idle" => turn \in Turns
  BY TurnAssumption DEF TypeOK, WireTypeOK, ProxyTypeOK, DeviceTypeOK, Turns
<1>2. ASSUME NEW u \in Turns
      PROVE  wire'[u] = wire[u] \/ (u = t /\ wire'[u] = wire[u] \o lines)
  BY <1>1 DEF Write
<1>3. ASSUME NEW u \in Turns PROVE WireOrdered(wire'[u], gen'[u])
  <2>1. WireOrdered(wire[u], gen[u]) /\ gen[u] <= gen'[u] /\ wire[u] \in Seq(Line)
    BY <1>1 DEF OrderInv
  <2>2. CASE wire'[u] = wire[u]
    BY <1>1, <2>1, <2>2, MoreGenerated
  <2>3. CASE u = t /\ wire'[u] = wire[u] \o lines
    <3>1. /\ gen[u] \in Nat /\ gen'[u] \in Nat /\ WireOrdered(lines, gen'[u])
          /\ \A i \in 1..Len(lines) : lines[i].kind = "data" => gen[u] < lines[i].lo
      BY <1>1, <2>3
    <3> QED
      BY <2>1, <2>3, <3>1, OrderedConcat
  <2> QED
    BY <1>2, <2>2, <2>3
<1>4. ASSUME pc # "idle"
      PROVE  TextOrdered(reply, turn, gen'[turn]) /\ Follows(wire'[turn], reply)
  <2>1. /\ TextOrdered(reply, turn, gen[turn]) /\ Follows(wire[turn], reply)
        /\ turn \in Turns /\ turn \in Nat /\ wire[turn] \in Seq(Line)
        /\ gen[turn] \in Nat /\ gen'[turn] \in Nat /\ gen[turn] <= gen'[turn]
    BY <1>1, <1>4 DEF OrderInv
  <2>2. TextOrdered(reply, turn, gen'[turn])
    BY <1>1, <2>1, MoreGenerated
  <2>3. CASE wire'[turn] = wire[turn]
    BY <2>1, <2>2, <2>3
  <2>4. CASE turn = t /\ wire'[turn] = wire[turn] \o lines
    <3> DEFINE c == wire[turn] \o lines
    <3>1. /\ Len(wire[turn]) \in Nat /\ Len(lines) \in Nat /\ Len(reply) \in Nat
          /\ Len(c) = Len(wire[turn]) + Len(lines)
          /\ \A i \in 1..Len(c) :
               c[i] = IF i <= Len(wire[turn]) THEN wire[turn][i] ELSE lines[i - Len(wire[turn])]
      BY <1>1, <2>1, ConcatProperties, LenProperties DEF Text
    <3> HIDE DEF c
    <3>2. ASSUME NEW i \in 1..Len(c), NEW j \in 1..Len(reply), c[i].kind = "data"
          PROVE  reply[j][2] < c[i].lo
      <4>1. CASE i <= Len(wire[turn])
        <5>1. i \in 1..Len(wire[turn]) /\ c[i] = wire[turn][i]
          BY <3>1, <4>1
        <5> QED
          BY <2>1, <3>2, <5>1 DEF Follows
      <4>2. CASE i > Len(wire[turn])
        <5>1. c[i] = lines[i - Len(wire[turn])] /\ i - Len(wire[turn]) \in 1..Len(lines)
          BY <3>1, <4>2
        <5>2. gen[t] < c[i].lo /\ c[i].lo \in Nat
          BY <3>2, <5>1, LineFields
        <5>3. reply[j][2] <= gen[t] /\ reply[j][2] >= 1
          BY <2>1, <2>4 DEF TextOrdered
        <5>4. reply[j][2] \in Nat
          <6>1. reply[j] \in Unit
            BY <1>1, ElementOfSeq DEF Text
          <6> QED
            BY <6>1, TurnAssumption DEF Unit
        <5> QED
          BY <1>1, <5>2, <5>3, <5>4
      <4> QED
        BY <3>1, <4>1, <4>2
    <3>3. Follows(c, reply)
      BY <3>2 DEF Follows
    <3> QED
      BY <2>2, <2>4, <3>3 DEF c
  <2> QED
    BY <1>2, <2>1, <2>3, <2>4
<1> QED
  BY <1>3, <1>4 DEF OrderInv, deviceVars

(* A status line, a blank, [DONE]: lines without text are always in order. *)
NoText(lines) ==
  \A i \in 1..Len(lines) : lines[i].kind # "data" /\ lines[i].hi = 0

LEMMA NoTextOrdered ==
  ASSUME NEW lines \in Seq(Line), NEW g \in Nat, NoText(lines)
  PROVE  WireOrdered(lines, g)
BY DEF WireOrdered, NoText

LEMMA ResponseHeadNoText ==
  ASSUME NEW c \in Codes
  PROVE  ResponseHead(c) \in Seq(Line) /\ NoText(ResponseHead(c))
<1>1. StatusLine(c) \in Line /\ Other("blank") \in Line
  BY LineTypes
<1>2. /\ StatusLine(c).kind = "status" /\ StatusLine(c).hi = 0
      /\ Other("blank").kind = "blank" /\ Other("blank").hi = 0
  BY DEF StatusLine, Other
<1> QED
  BY <1>1, <1>2 DEF ResponseHead, NoText

LEMMA ProxyOrder ==
  ASSUME TypeOK, OrderInv, ProxyNext, UNCHANGED deviceVars, ProxyTypeOK'
  PROVE  OrderInv'
<1>0. /\ gen \in [Turns -> 0..MaxText] /\ gen' \in [Turns -> 0..MaxText]
      /\ \A u \in Turns : gen[u] \in Nat /\ gen'[u] \in Nat
  BY TurnAssumption DEF TypeOK, ProxyTypeOK
<1>1. ASSUME NEW t \in Turns, NEW lines \in Seq(Line), UNCHANGED gen,
             Write(t, lines) \/ UNCHANGED wire, NoText(lines)
      PROVE  OrderInv'
  <2>1. /\ \A u \in Turns : gen[u] <= gen'[u]
        /\ WireOrdered(lines, gen'[t])
        /\ \A i \in 1..Len(lines) : lines[i].kind = "data" => gen[t] < lines[i].lo
    BY <1>0, <1>1, NoTextOrdered DEF NoText
  <2> QED
    BY <1>0, <1>1, <2>1, WriteOrder
<1>2. ASSUME UNCHANGED <<wire, gen>>, NEW t \in Turns PROVE OrderInv'
  <2>1. << >> \in Seq(Line) /\ NoText(<< >>)
    BY DEF NoText
  <2> QED
    BY <1>1, <1>2, <2>1
<1>3. ASSUME NEW t \in Turns, Accept(t) PROVE OrderInv'
  <2>1. CASE Refusal(via[t]) # 200
    <3>1. Refusal(via[t]) \in Codes
      BY DEF Refusal, Codes
    <3>2. Write(t, ResponseHead(Refusal(via[t]))) /\ UNCHANGED gen
      BY <1>3, <2>1 DEF Accept, Respond
    <3> QED
      BY <1>1, <3>1, <3>2, ResponseHeadNoText
  <2>2. CASE Refusal(via[t]) = 200
    <3>1. UNCHANGED <<wire, gen>>
      BY <1>3, <2>2 DEF Accept
    <3> QED
      BY <1>2, <3>1
  <2> QED
    BY <2>1, <2>2
<1>4. ASSUME NEW t \in Turns, SendDone(t) PROVE OrderInv'
  <2>1. Write(t, <<Other("done")>>) /\ UNCHANGED gen
    BY <1>4 DEF SendDone
  <2>2. Other("done") \in Line /\ Other("done").kind = "done" /\ Other("done").hi = 0
    BY LineTypes DEF Other
  <2>3. <<Other("done")>> \in Seq(Line) /\ NoText(<<Other("done")>>)
    BY <2>2 DEF NoText
  <2> QED
    BY <1>1, <2>1, <2>3
<1>5. ASSUME NEW t \in Turns, UpstreamFails(t) PROVE OrderInv'
  <2>1. CASE handler[t] = "first"
    <3>1. PICK c \in {502, 500} : Respond(t, c)
      BY <1>5, <2>1 DEF UpstreamFails
    <3>2. c \in Codes /\ UNCHANGED gen
      BY <1>5 DEF Codes, UpstreamFails
    <3>3. Write(t, ResponseHead(c))
      BY <3>1 DEF Respond
    <3> QED
      BY <1>1, <3>2, <3>3, ResponseHeadNoText
  <2>2. CASE handler[t] = "stream"
    <3>1. UNCHANGED <<wire, gen>>
      BY <1>5, <2>2 DEF UpstreamFails
    <3> QED
      BY <1>2, <3>1
  <2> QED
    BY <1>5, <2>1, <2>2 DEF UpstreamFails
<1>6. ASSUME NEW t \in Turns, Cancelled(t) PROVE OrderInv'
  <2>1. UNCHANGED <<wire, gen>>
    BY <1>6 DEF Cancelled
  <2> QED
    BY <1>2, <2>1
<1>7. ASSUME NEW t \in Turns, NEW e \in UpstreamEvents, StreamEvent(t, e) PROVE OrderInv'
  <2>1. e.n \in Nat
    BY DeltaAssumption DEF UpstreamEvents, Events
  <2>2. /\ gen' = [gen EXCEPT ![t] = @ + e.n] /\ gen'[t] = gen[t] + e.n
        /\ gen[t] + e.n <= MaxText
        /\ \A u \in Turns : gen[u] <= gen'[u]
    BY <1>0, <1>7, <2>1 DEF StreamEvent
  <2>3. CASE handler[t] = "first" /\ ~Yields(via[t], e, role[t])
    <3>1. 502 \in Codes /\ Write(t, ResponseHead(502))
      BY <1>7, <2>3 DEF StreamEvent, Respond, Codes
    <3>2. /\ ResponseHead(502) \in Seq(Line) /\ NoText(ResponseHead(502))
          /\ WireOrdered(ResponseHead(502), gen'[t])
      BY <1>0, <3>1, ResponseHeadNoText, NoTextOrdered
    <3>3. \A i \in 1..Len(ResponseHead(502)) :
            ResponseHead(502)[i].kind = "data" => gen[t] < ResponseHead(502)[i].lo
      BY <3>2 DEF NoText
    <3> QED
      BY <1>0, <2>2, <3>1, <3>2, <3>3, WriteOrder
  <2>4. CASE ~(handler[t] = "first" /\ ~Yields(via[t], e, role[t]))
    <3> DEFINE chunk == IF Yields(via[t], e, role[t]) THEN <<Chunk(t, e)>> ELSE << >>
               lines == Opening(handler[t] = "first", chunk)
    <3>1. Write(t, lines)
      BY <1>7, <2>4 DEF StreamEvent
    <3>2. /\ Chunk(t, e) \in Line /\ Chunk(t, e).kind = "data"
          /\ Chunk(t, e).lo = gen[t] + 1 /\ Chunk(t, e).hi = gen'[t]
      <4>1. gen[t] + 1 \in 1..(MaxText + 1) /\ gen[t] + 1 <= gen[t] + e.n + 1
            /\ gen[t] + e.n \in 0..MaxText
        BY <1>0, <2>1, <2>2, TurnAssumption
      <4> QED
        BY <2>2, <4>1, LineTypes DEF Chunk, DataLine
    <3> DEFINE EndsInChunk(l) ==
                 \A i \in 1..Len(l) : \/ l[i].kind # "data" /\ l[i].hi = 0
                                      \/ i = Len(l) /\ l[i] = Chunk(t, e)
    <3>3. chunk \in Seq(Line) /\ Len(chunk) \in {0, 1} /\ EndsInChunk(chunk)
      BY <3>2
    <3>4. ResponseHead(200) \in Seq(Line) /\ NoText(ResponseHead(200))
      BY ResponseHeadNoText DEF Codes
    <3>5. ResponseHead(200) \o chunk \in Seq(Line) /\ EndsInChunk(ResponseHead(200) \o chunk)
      <4> HIDE DEF chunk
      <4> DEFINE c == ResponseHead(200) \o chunk
      <4>1. /\ c \in Seq(Line) /\ Len(ResponseHead(200)) \in Nat
            /\ Len(c) = Len(ResponseHead(200)) + Len(chunk)
            /\ \A i \in 1..Len(c) : c[i] = IF i <= Len(ResponseHead(200))
                                          THEN ResponseHead(200)[i]
                                          ELSE chunk[i - Len(ResponseHead(200))]
        BY <3>3, <3>4, ConcatProperties, LenProperties
      <4> HIDE DEF c
      <4>2. EndsInChunk(c)
        BY <3>3, <3>4, <4>1 DEF NoText
      <4> QED
        BY <4>1, <4>2 DEF c
    <3>6. lines \in Seq(Line) /\ EndsInChunk(lines)
      BY <3>3, <3>5 DEF Opening
    <3> HIDE DEF lines, chunk
    <3>7. WireOrdered(lines, gen'[t])
      BY <1>0, <2>2, <3>2, <3>6, LineFields DEF WireOrdered
    <3>8. \A i \in 1..Len(lines) : lines[i].kind = "data" => gen[t] < lines[i].lo
      BY <1>0, <3>2, <3>6
    <3> QED
      BY <1>0, <2>2, <3>1, <3>6, <3>7, <3>8, WriteOrder
  <2> QED
    BY <2>3, <2>4
<1> QED
  BY <1>3, <1>4, <1>5, <1>6, <1>7 DEF ProxyNext

LEMMA NetworkOrder ==
  ASSUME TypeOK, OrderInv, NEW t \in Turns, Reset(t), UNCHANGED <<deviceVars, proxyVars>>,
         WireTypeOK'
  PROVE  OrderInv'
<1>1. /\ wire \in [Turns -> Seq(Line)] /\ wire' \in [Turns -> Seq(Line)]
      /\ \A u \in Turns : gen[u] \in Nat
      /\ reply \in Text
      /\ pc # "idle" => turn \in Turns
      /\ wire[t] \in Seq(Line) /\ Len(wire[t]) \in Nat
  BY TurnAssumption, LenProperties DEF TypeOK, WireTypeOK, ProxyTypeOK, DeviceTypeOK
<1>2. Shrinks(wire'[t], wire[t]) /\ \A u \in Turns \ {t} : wire'[u] = wire[u]
  <2>1. PICK k \in 0..Len(wire[t]) :
          \/ wire' = [wire EXCEPT ![t] = SubSeq(@, 1, k)]
          \/ /\ k > 0 /\ wire[t][k].kind = "data"
             /\ \E cut \in (wire[t][k].lo - 1)..(wire[t][k].hi - 1) :
                  wire' = [wire EXCEPT ![t] =
                             Append(SubSeq(@, 1, k - 1),
                                    DataLine(wire[t][k].lo, cut))]
    BY DEF Reset
  <2>2. \A i \in 1..Len(wire[t]) : wire[t][i].hi \in Nat
    BY <1>1, LineFields
  <2>3. CASE wire' = [wire EXCEPT ![t] = SubSeq(@, 1, k)]
    <3>1. /\ Len(SubSeq(wire[t], 1, k)) = k
          /\ \A i \in 1..k : SubSeq(wire[t], 1, k)[i] = wire[t][i]
      BY <1>1, FrontProperties
    <3>2. wire'[t] = SubSeq(wire[t], 1, k)
      BY <1>1, <2>3
    <3> QED
      BY <1>1, <2>2, <2>3, <3>1, <3>2 DEF Shrinks
  <2>4. CASE /\ k > 0 /\ wire[t][k].kind = "data"
             /\ \E cut \in (wire[t][k].lo - 1)..(wire[t][k].hi - 1) :
                  wire' = [wire EXCEPT ![t] =
                             Append(SubSeq(@, 1, k - 1),
                                    DataLine(wire[t][k].lo, cut))]
    <3>1. PICK cut \in (wire[t][k].lo - 1)..(wire[t][k].hi - 1) :
                  wire' = [wire EXCEPT ![t] =
                             Append(SubSeq(@, 1, k - 1),
                                    DataLine(wire[t][k].lo, cut))]
      BY <2>4
    <3> DEFINE front == SubSeq(wire[t], 1, k - 1)
               last == DataLine(wire[t][k].lo, cut)
               line == wire[t][k]
    <3>2. /\ k \in 1..Len(wire[t]) /\ k - 1 \in 0..Len(wire[t])
          /\ line \in Line /\ line.lo \in Nat /\ line.hi \in Nat /\ line.lo >= 1
      BY <1>1, <2>4, LineFields
    <3>3. /\ front \in Seq(Line) /\ Len(front) = k - 1
          /\ \A i \in 1..(k - 1) : front[i] = wire[t][i]
      BY <1>1, <3>2, FrontProperties
    <3>4. last \in Line /\ last.kind = "data" /\ last.lo = line.lo /\ last.hi <= line.hi
      <4>1. /\ line.lo \in 1..(MaxText + 1) /\ line.hi \in 0..MaxText
        BY <3>2 DEF Line
      <4>2. cut \in 0..MaxText /\ line.lo <= cut + 1 /\ cut <= line.hi
        BY <4>1, CutWithin
      <4> QED
        BY <4>1, <4>2, LineTypes DEF DataLine
    <3>5. wire'[t] = Append(front, last)
      BY <1>1, <3>1
    <3> HIDE DEF front, last
    <3>6. /\ Len(Append(front, last)) = k
          /\ \A i \in 1..(k - 1) : Append(front, last)[i] = wire[t][i]
          /\ Append(front, last)[k] = last
      BY <3>2, <3>3, <3>4, AppendProperties
    <3>7. \A i \in 1..k : /\ wire'[t][i].kind = wire[t][i].kind
                          /\ wire'[t][i].lo = wire[t][i].lo
                          /\ wire'[t][i].hi <= wire[t][i].hi
      <4>1. ASSUME NEW i \in 1..k
            PROVE  /\ wire'[t][i].kind = wire[t][i].kind
                   /\ wire'[t][i].lo = wire[t][i].lo
                   /\ wire'[t][i].hi <= wire[t][i].hi
        <5>1. CASE i = k
          BY <2>4, <3>4, <3>5, <3>6, <5>1
        <5>2. CASE i # k
          <6>1. i \in 1..(k - 1) /\ i \in 1..Len(wire[t])
            BY <3>2, <5>2
          <6> QED
            BY <2>2, <3>5, <3>6, <6>1
        <5> QED
          BY <5>1, <5>2
      <4> QED
        BY <4>1
    <3> QED
      BY <1>1, <3>1, <3>2, <3>5, <3>6, <3>7 DEF Shrinks
  <2> QED
    BY <2>1, <2>3, <2>4
<1>3. UNCHANGED gen /\ UNCHANGED <<pc, reply, turn>>
  BY DEF proxyVars, deviceVars
<1>4. ASSUME NEW u \in Turns PROVE WireOrdered(wire'[u], gen'[u])
  <2>1. WireOrdered(wire[u], gen[u]) /\ wire[u] \in Seq(Line) /\ wire'[u] \in Seq(Line)
    BY <1>1 DEF OrderInv
  <2>2. CASE u = t
    BY <1>1, <1>2, <1>3, <2>1, <2>2, ShrinkOrdered
  <2>3. CASE u # t
    BY <1>2, <1>3, <2>1, <2>3
  <2> QED
    BY <2>2, <2>3
<1>5. ASSUME pc # "idle"
      PROVE  TextOrdered(reply, turn, gen'[turn]) /\ Follows(wire'[turn], reply)
  <2>1. /\ TextOrdered(reply, turn, gen[turn]) /\ Follows(wire[turn], reply)
        /\ turn \in Turns /\ wire[turn] \in Seq(Line) /\ wire'[turn] \in Seq(Line)
    BY <1>1, <1>5 DEF OrderInv
  <2>2. CASE turn = t
    BY <1>1, <1>2, <1>3, <2>1, <2>2, ShrinkOrdered
  <2>3. CASE turn # t
    BY <1>2, <1>3, <2>1, <2>3
  <2> QED
    BY <2>2, <2>3
<1> QED
  BY <1>3, <1>4, <1>5 DEF OrderInv

LEMMA EmptyOrdered ==
  ASSUME NEW g, NEW q, NEW w, NEW r
  PROVE  WireOrdered(<< >>, g) /\ TextOrdered(<< >>, q, g) /\ Follows(w, << >>) /\ Follows(<< >>, r)
BY DEF WireOrdered, TextOrdered, Follows

(* A number below lo, or not above hi, is below what is above both.        *)
LEMMA BeforeAll ==
  ASSUME NEW x \in Nat, NEW y \in Nat, NEW lo \in Nat, NEW hi \in Nat,
         x < lo \/ x <= hi, hi < y, lo < y + 1
  PROVE  x < y
OBVIOUS

(* Reading a data line: the reply gets the line's text, which is later     *)
(* than all it has and earlier than all that is left on the wire.          *)
LEMMA ReadDataOrder ==
  ASSUME NEW w \in Seq(Line), w # << >>, NEW r \in Text, NEW q \in Turns, NEW g \in Nat,
         WireOrdered(w, g), TextOrdered(r, q, g), Follows(w, r), Head(w).kind = "data",
         NEW tail \in Seq(Line), NoText(tail)
  PROVE  /\ TextOrdered(r \o Shown(q, Head(w), LineCap), q, g)
         /\ Follows(tail \o Tail(w), r \o Shown(q, Head(w), LineCap))
         /\ WireOrdered(tail \o Tail(w), g)
<1> DEFINE line == Head(w)
           new == Shown(q, line, LineCap)
           c == r \o new
           v == tail \o Tail(w)
<1>1. /\ line \in Line /\ Tail(w) \in Seq(Line) /\ Len(w) \in Nat /\ Len(w) >= 1
      /\ Len(Tail(w)) = Len(w) - 1 /\ line = w[1]
      /\ \A i \in 1..Len(Tail(w)) : Tail(w)[i] = w[i + 1]
  BY HeadTailProperties, LenProperties, EmptySeq
<1>2. line.lo \in Nat /\ line.hi \in Nat /\ line.lo >= 1 /\ line.hi <= g
  BY <1>1, LineFields DEF WireOrdered
<1>3. /\ new \in Text /\ Len(new) \in Nat /\ Len(new) <= line.hi - line.lo + 1
      /\ \A i \in 1..Len(new) : new[i] = <<q, line.lo + i - 1>>
  BY <1>1, ShownProperties, TickAssumption
<1>4. /\ Len(r) \in Nat /\ Len(c) = Len(r) + Len(new)
      /\ \A i \in 1..Len(c) : c[i] = IF i <= Len(r) THEN r[i] ELSE new[i - Len(r)]
  BY <1>3, ConcatProperties, LenProperties DEF Text
<1>5. /\ Len(tail) \in Nat /\ Len(v) = Len(tail) + Len(Tail(w))
      /\ \A i \in 1..Len(v) : v[i] = IF i <= Len(tail) THEN tail[i] ELSE Tail(w)[i - Len(tail)]
  BY <1>1, ConcatProperties, LenProperties
<1> HIDE DEF c, v, new
<1>6. \A i \in 1..Len(r) : r[i][1] = q /\ r[i][2] \in Nat /\ r[i][2] >= 1
                           /\ r[i][2] < line.lo /\ r[i][2] <= g
  <2>1. \A u \in Unit : u[2] \in Nat
    BY TurnAssumption DEF Unit
  <2>2. \A i \in 1..Len(r) : r[i][2] \in Nat
    BY <2>1, ElementOfSeq DEF Text
  <2>3. 1 \in 1..Len(w)
    BY <1>1
  <2> QED
    BY <1>1, <2>2, <2>3 DEF TextOrdered, Follows
<1>7. \A k \in 1..Len(new) :
         /\ new[k][1] = q /\ new[k][2] = line.lo + k - 1
         /\ new[k][2] \in Nat /\ new[k][2] >= 1 /\ new[k][2] <= line.hi /\ new[k][2] <= g
  <2>1. ASSUME NEW k \in 1..Len(new)
        PROVE  /\ new[k][1] = q /\ new[k][2] = line.lo + k - 1
               /\ new[k][2] \in Nat /\ new[k][2] >= 1 /\ new[k][2] <= line.hi /\ new[k][2] <= g
    <3>1. new[k] = <<q, line.lo + k - 1>>
      BY <1>3
    <3>2. new[k][1] = q /\ new[k][2] = line.lo + k - 1
      BY <3>1
    <3>3. k \in Nat /\ k >= 1 /\ k <= line.hi - line.lo + 1
      <4>1. Len(new) \in Nat /\ Len(new) <= line.hi - line.lo + 1
        BY <1>3
      <4> QED
        BY <1>2, <4>1
    <3>4. \A lo, hi \in Nat : lo >= 1 /\ hi <= g /\ k <= hi - lo + 1 =>
             lo + k - 1 \in Nat /\ lo + k - 1 >= 1 /\ lo + k - 1 <= hi /\ lo + k - 1 <= g
      BY <3>3
    <3>5. LET x == line.lo + k - 1 IN x \in Nat /\ x >= 1 /\ x <= line.hi /\ x <= g
      BY <1>2, <3>3, <3>4
    <3> QED
      BY <3>2, <3>5
  <2> QED
    BY <2>1
<1>8. ASSUME NEW i \in 1..Len(c)
      PROVE  \/ i \in 1..Len(r) /\ c[i] = r[i]
             \/ i - Len(r) \in 1..Len(new) /\ c[i] = new[i - Len(r)] /\ i > Len(r)
  BY <1>3, <1>4
<1>9. \A i \in 1..Len(c) : c[i][1] = q /\ c[i][2] \in Nat /\ c[i][2] >= 1
                           /\ c[i][2] <= g /\ (c[i][2] < line.lo \/ c[i][2] <= line.hi)
  <2>1. ASSUME NEW i \in 1..Len(c)
        PROVE  c[i][1] = q /\ c[i][2] \in Nat /\ c[i][2] >= 1
               /\ c[i][2] <= g /\ (c[i][2] < line.lo \/ c[i][2] <= line.hi)
    <3>1. CASE i \in 1..Len(r) /\ c[i] = r[i]
      BY <1>6, <3>1
    <3>2. CASE i - Len(r) \in 1..Len(new) /\ c[i] = new[i - Len(r)]
      BY <1>7, <3>2
    <3> QED
      BY <1>8, <3>1, <3>2
  <2> QED
    BY <2>1
<1>10. ASSUME NEW i \in 1..Len(c), NEW j \in 1..Len(c), i < j PROVE c[i][2] < c[j][2]
  <2>1. CASE j \in 1..Len(r) /\ c[j] = r[j]
    <3>1. i \in 1..Len(r) /\ c[i] = r[i]
      BY <1>4, <1>10, <2>1
    <3> QED
      BY <1>10, <2>1, <3>1 DEF TextOrdered
  <2>2. CASE j - Len(r) \in 1..Len(new) /\ c[j] = new[j - Len(r)] /\ j > Len(r)
    <3>1. c[j][2] = line.lo + (j - Len(r)) - 1
      BY <1>7, <2>2
    <3>2. CASE i \in 1..Len(r) /\ c[i] = r[i]
      BY <1>2, <1>4, <1>6, <2>2, <3>1, <3>2
    <3>3. CASE i - Len(r) \in 1..Len(new) /\ c[i] = new[i - Len(r)]
      <4>1. c[i][2] = line.lo + (i - Len(r)) - 1
        BY <1>7, <3>3
      <4> QED
        BY <1>2, <1>4, <1>10, <3>1, <4>1
    <3> QED
      BY <1>8, <3>2, <3>3
  <2> QED
    BY <1>8, <2>1, <2>2
<1>11. ASSUME NEW i \in 1..Len(v), v[i].kind = "data"
       PROVE  line.hi < v[i].lo /\ line.lo < v[i].lo + 1
  <2>1. i > Len(tail)
    BY <1>5, <1>11 DEF NoText
  <2>2. /\ i - Len(tail) \in 1..Len(Tail(w)) /\ v[i] = w[i - Len(tail) + 1]
        /\ i - Len(tail) + 1 \in 1..Len(w) /\ 1 \in 1..Len(w) /\ 1 < i - Len(tail) + 1
    BY <1>1, <1>5, <2>1
  <2>3. line.hi < v[i].lo
    BY <1>1, <1>11, <2>2 DEF WireOrdered
  <2>4. v[i].lo \in Nat /\ line.lo <= line.hi + 1
    BY <1>1, <2>2, LineFields
  <2> QED
    BY <1>2, <2>3, <2>4
<1>12. Follows(v, c)
  <2>1. ASSUME NEW i \in 1..Len(v), NEW j \in 1..Len(c), v[i].kind = "data"
        PROVE  c[j][2] < v[i].lo
    <3>1. v[i].lo \in Nat
      <4>1. v \in Seq(Line)
        BY <1>1, ConcatProperties DEF v
      <4> QED
        BY <4>1, LineFields
    <3>2. line.hi < v[i].lo /\ line.lo < v[i].lo + 1
      BY <1>11, <2>1
    <3>3. c[j][2] \in Nat /\ (c[j][2] < line.lo \/ c[j][2] <= line.hi)
      BY <1>9
    <3> QED
      BY <1>2, <3>1, <3>2, <3>3, BeforeAll
  <2> QED
    BY <2>1 DEF Follows
<1>13. WireOrdered(v, g)
  <2>1. WireOrdered(Tail(w), g)
    BY TailOrdered
  <2>2. ASSUME NEW i \in 1..Len(v) PROVE v[i].hi <= g
    <3>1. CASE i \in 1..Len(tail) /\ v[i] = tail[i]
      <4>1. v[i].hi = 0
        BY <3>1 DEF NoText
      <4> QED
        BY <4>1
    <3>2. CASE i - Len(tail) \in 1..Len(Tail(w)) /\ v[i] = Tail(w)[i - Len(tail)]
      BY <2>1, <3>2 DEF WireOrdered
    <3> QED
      BY <1>5, <2>2, <3>1, <3>2
  <2>3. ASSUME NEW i \in 1..Len(v), NEW j \in 1..Len(v), i < j,
               v[i].kind = "data", v[j].kind = "data"
        PROVE  v[i].hi < v[j].lo
    <3>1. \A k \in 1..Len(v) : v[k].kind = "data" =>
             /\ k - Len(tail) \in 1..Len(Tail(w)) /\ v[k] = Tail(w)[k - Len(tail)]
      <4>1. ASSUME NEW k \in 1..Len(v), v[k].kind = "data"
            PROVE  k - Len(tail) \in 1..Len(Tail(w)) /\ v[k] = Tail(w)[k - Len(tail)]
        <5>1. k > Len(tail)
          BY <1>5, <4>1 DEF NoText
        <5>2. Len(Tail(w)) \in Nat
          BY <1>1
        <5> QED
          BY <1>5, <5>1, <5>2
      <4> QED
        BY <4>1
    <3>2. /\ i - Len(tail) \in 1..Len(Tail(w)) /\ v[i] = Tail(w)[i - Len(tail)]
          /\ j - Len(tail) \in 1..Len(Tail(w)) /\ v[j] = Tail(w)[j - Len(tail)]
      BY <2>3, <3>1
    <3>3. i - Len(tail) < j - Len(tail)
      BY <1>5, <2>3
    <3> QED
      BY <2>1, <2>3, <3>2, <3>3 DEF WireOrdered
  <2> QED
    BY <2>2, <2>3 DEF WireOrdered
<1> QED
  BY <1>9, <1>10, <1>12, <1>13 DEF TextOrdered, c, v, new
----------------------------------------------------------------------------
(* What a step of the device can look like to the conversation: it asks,   *)
(* fails, answers, forgets, moves along its connection, shows a line, or   *)
(* does nothing the conversation sees.                                     *)

WireQuiet == \/ UNCHANGED wire
             \/ turn \in Turns /\ wire' = [wire EXCEPT ![turn] = << >>]

Asking ==
  /\ pc = "idle" /\ pc' # "idle" /\ turn' = turn + 1 /\ turn' \in Turns
  /\ history' = Append(history, UserMessage(turn + 1)) /\ reply' = << >>
  /\ UNCHANGED <<wire, asked>>

Ending == pc # "idle" /\ pc' = "idle" /\ UNCHANGED <<turn, reply, asked>> /\ WireQuiet

Failing == Ending /\ history' = SubSeq(history, 1, Len(history) - 1)

Answering == Ending /\ history' = Append(history, AssistantMessage(reply))

Forgetting == pc' = "idle" /\ history' = << >> /\ UNCHANGED <<turn, asked>> /\ WireQuiet

Going == pc # "idle" /\ pc' # "idle" /\ UNCHANGED <<turn, history>>

Moving ==
  /\ Going /\ UNCHANGED reply
  /\ UNCHANGED wire \/ (wire[turn] # << >> /\ Consume)
  /\ UNCHANGED asked \/ asked' = [asked EXCEPT ![turn] = history]

Showing == Going /\ UNCHANGED asked /\ ReadData

Resting == pc = "idle" /\ pc' = "idle" /\ UNCHANGED <<turn, history, reply, wire, asked>>

Shapes == \/ Asking \/ Failing \/ Answering \/ Forgetting
          \/ Moving \/ Showing \/ Resting

LEMMA DeviceShapes ==
  ASSUME TypeOK, DeviceNext
  PROVE  Shapes
<1>1. /\ turn \in 0..MaxTurns /\ MaxTurns \in Nat
      /\ pc # "idle" => turn \in Turns
      /\ wire \in [Turns -> Seq(Line)]
  BY TurnAssumption DEF TypeOK, DeviceTypeOK, WireTypeOK
<1>2. ASSUME Send PROVE Asking
  <2>1. turn + 1 \in Turns
    <3>1. turn < MaxTurns
      BY <1>2 DEF Send
    <3>2. turn \in 0..MaxTurns /\ MaxTurns \in Nat
      BY <1>1
    <3> QED
      BY <3>1, <3>2 DEF Turns
  <2> QED
    BY <1>2, <2>1 DEF Send, Asking, wireVars
<1>3. ASSUME ConnectFails PROVE Failing
  BY <1>3 DEF ConnectFails, Fail, Return, Failing, Ending, WireQuiet, wireVars
<1>4. ASSUME Connect PROVE Moving
  BY <1>4 DEF Connect, Moving, Going
<1>5. ASSUME ReadStatus PROVE Moving
  BY <1>5 DEF ReadStatus, HasLine, Moving, Going
<1>6. ASSUME NoStatusLine PROVE Failing
  BY <1>1, <1>6 DEF NoStatusLine, Fail, Return, CloseSocket, Failing, Ending, WireQuiet
<1>7. ASSUME ReadHeaders PROVE Moving \/ Failing
  <2>1. CASE code = 200
    BY <1>7, <2>1 DEF ReadHeaders, HasLine, Moving, Going
  <2>2. CASE code # 200
    BY <1>1, <1>7, <2>2 DEF ReadHeaders, Fail, Return, CloseSocket, Failing, Ending, WireQuiet
  <2> QED
    BY <2>1, <2>2
<1>8. ASSUME BodyLoop PROVE Moving
  BY <1>8 DEF BodyLoop, Moving, Going, wireVars
<1>9. ASSUME pc \in {"body", "line"}, FinishBody PROVE Answering
  BY <1>1, <1>9 DEF FinishBody, Succeed, Return, CloseSocket, Answering, Ending, WireQuiet
<1>10. ASSUME BodyDeadline \/ BodyQuiet \/ ReadDone PROVE Answering
  BY <1>9, <1>10 DEF BodyDeadline, BodyQuiet, ReadDone
<1>11. ASSUME ReadData PROVE Showing
  BY <1>11 DEF ReadData, Showing, Going
<1>12. ASSUME SkipLine PROVE Moving
  BY <1>12 DEF SkipLine, HasLine, Moving, Going
<1>13. ASSUME Tick PROVE Moving
  BY <1>13 DEF Tick, Reading, Moving, Going, wireVars
<1>14. ASSUME PickProfile PROVE Resting
  BY <1>14 DEF PickProfile, Resting, wireVars
<1>15. ASSUME Reboot PROVE Forgetting
  BY <1>1, <1>15 DEF Reboot, Return, CloseSocket, Forgetting, WireQuiet
<1> QED
  BY <1>2, <1>3, <1>4, <1>5, <1>6, <1>7, <1>8, <1>10, <1>11, <1>12, <1>13, <1>14, <1>15
     DEF DeviceNext, TurnStep, Shapes

(* The device's steps keep the text ordered.                               *)
LEMMA DeviceOrder ==
  ASSUME TypeOK, OrderInv, Shapes, UNCHANGED proxyVars, TypeOK'
  PROVE  OrderInv'
<1>1. /\ wire \in [Turns -> Seq(Line)] /\ wire' \in [Turns -> Seq(Line)]
      /\ \A u \in Turns : gen[u] \in Nat
      /\ reply \in Text /\ UNCHANGED gen
      /\ pc # "idle" => turn \in Turns
      /\ \A u \in Turns : WireOrdered(wire[u], gen[u])
  BY TurnAssumption DEF TypeOK, WireTypeOK, ProxyTypeOK, DeviceTypeOK, proxyVars, OrderInv
<1>2. ASSUME WireQuiet PROVE \A u \in Turns : WireOrdered(wire'[u], gen'[u])
  <2>1. CASE UNCHANGED wire
    BY <1>1, <2>1
  <2>2. CASE turn \in Turns /\ wire' = [wire EXCEPT ![turn] = << >>]
    <3>1. ASSUME NEW u \in Turns PROVE WireOrdered(wire'[u], gen[u])
      <4>1. CASE u = turn
        <5>1. wire'[u] = << >>
          BY <1>1, <2>2, <4>1
        <5> QED
          BY <5>1, EmptyOrdered
      <4>2. CASE u # turn
        BY <1>1, <2>2, <4>2
      <4> QED
        BY <4>1, <4>2
    <3> QED
      BY <1>1, <3>1
  <2> QED
    BY <1>2, <2>1, <2>2 DEF WireQuiet
<1>3. CASE Failing \/ Answering \/ Forgetting \/ Resting
  <2>1. pc' = "idle" /\ WireQuiet
    BY <1>3 DEF Failing, Answering, Ending, Forgetting, Resting, WireQuiet
  <2> QED
    BY <1>2, <2>1 DEF OrderInv
<1>4. CASE Asking
  <2>1. reply' = << >> /\ UNCHANGED wire
    BY <1>4 DEF Asking
  <2>2. TextOrdered(reply', turn', gen'[turn']) /\ Follows(wire'[turn'], reply')
    BY <2>1, EmptyOrdered
  <2> QED
    BY <1>1, <2>1, <2>2 DEF OrderInv
<1>5. CASE Moving
  <2>1. /\ pc # "idle" /\ turn' = turn /\ reply' = reply /\ turn \in Turns
        /\ TextOrdered(reply, turn, gen[turn]) /\ Follows(wire[turn], reply)
    BY <1>1, <1>5 DEF Moving, Going, OrderInv
  <2>2. CASE UNCHANGED wire
    BY <1>1, <2>1, <2>2 DEF OrderInv
  <2>3. CASE wire[turn] # << >> /\ Consume
    <3>1. wire'[turn] = Tail(wire[turn]) /\ \A u \in Turns \ {turn} : wire'[u] = wire[u]
      BY <1>1, <2>1, <2>3 DEF Consume
    <3>2. wire[turn] \in Seq(Line) /\ WireOrdered(wire[turn], gen[turn]) /\ gen[turn] \in Nat
      BY <1>1, <2>1
    <3>3. WireOrdered(wire'[turn], gen[turn]) /\ Follows(wire'[turn], reply)
      BY <1>1, <2>1, <2>3, <3>1, <3>2, TailOrdered
    <3>4. \A u \in Turns : WireOrdered(wire'[u], gen'[u])
      BY <1>1, <3>1, <3>3
    <3> QED
      BY <1>1, <2>1, <3>3, <3>4 DEF OrderInv
  <2> QED
    BY <1>5, <2>2, <2>3 DEF Moving
<1>6. CASE Showing
  <2> DEFINE line == Head(wire[turn])
             tail == IF line.hi - line.lo + 1 > LineCap THEN <<Other("rest")>> ELSE << >>
  <2>1. /\ pc # "idle" /\ turn' = turn /\ turn \in Turns
        /\ TextOrdered(reply, turn, gen[turn]) /\ Follows(wire[turn], reply)
    BY <1>1, <1>6 DEF Showing, Going, OrderInv
  <2>2. /\ reply' = reply \o Shown(turn, line, LineCap) /\ line.kind = "data"
        /\ wire' = [wire EXCEPT ![turn] = tail \o Tail(@)] /\ wire[turn] # << >>
    BY <1>6 DEF Showing, ReadData, HasLine
  <2>3. tail \in Seq(Line) /\ NoText(tail)
    <3>1. Other("rest") \in Line /\ Other("rest").kind = "rest" /\ Other("rest").hi = 0
      BY LineTypes DEF Other
    <3>2. <<Other("rest")>> \in Seq(Line) /\ NoText(<<Other("rest")>>)
      BY <3>1 DEF NoText
    <3>3. << >> \in Seq(Line) /\ NoText(<< >>)
      BY DEF NoText
    <3> QED
      BY <3>2, <3>3
  <2> HIDE DEF tail
  <2>4. /\ wire'[turn] = tail \o Tail(wire[turn])
        /\ \A u \in Turns \ {turn} : wire'[u] = wire[u]
        /\ wire[turn] \in Seq(Line) /\ WireOrdered(wire[turn], gen[turn]) /\ gen[turn] \in Nat
    BY <1>1, <2>1, <2>2
  <2>5. /\ TextOrdered(reply', turn, gen[turn])
        /\ Follows(wire'[turn], reply')
        /\ WireOrdered(wire'[turn], gen[turn])
    BY <1>1, <2>1, <2>2, <2>3, <2>4, ReadDataOrder
  <2>6. \A u \in Turns : WireOrdered(wire'[u], gen'[u])
    BY <1>1, <2>4, <2>5
  <2> QED
    BY <1>1, <2>1, <2>5, <2>6 DEF OrderInv
<1> QED
  BY <1>3, <1>4, <1>5, <1>6 DEF Shapes
----------------------------------------------------------------------------
(* The questions: the history before the open question is older than it,   *)
(* and so is everything but the last message of every request.             *)

(* The turns of a message are numbers.                                     *)
LEMMA MessageUnits ==
  ASSUME NEW messages \in Seq(Message)
  PROVE  /\ Len(messages) \in Nat
         /\ \A i \in 1..Len(messages) : \A u \in 1..Len(messages[i].content) :
              messages[i].content[u][1] \in Nat
<1>1. ASSUME NEW i \in 1..Len(messages), NEW u \in 1..Len(messages[i].content)
      PROVE  messages[i].content[u][1] \in Nat
  <2>1. messages[i].content \in Seq(Unit)
    <3>1. messages[i] \in Message
      BY ElementOfSeq
    <3> QED
      BY <3>1 DEF Message, Text
  <2>2. messages[i].content[u] \in Unit
    BY <2>1, ElementOfSeq
  <2> QED
    BY <2>2, TurnAssumption DEF Unit, Turns
<1> QED
  BY <1>1, LenProperties

LEMMA OlderYet ==
  ASSUME NEW messages \in Seq(Message), NEW q \in Nat, OlderThan(messages, q)
  PROVE  OlderThan(messages, q + 1)
<1>1. ASSUME NEW i \in 1..Len(messages), NEW u \in 1..Len(messages[i].content)
      PROVE  messages[i].content[u][1] < q + 1
  <2>1. messages[i].content[u][1] < q
    BY DEF OlderThan
  <2>2. messages[i].content[u][1] \in Nat
    BY MessageUnits
  <2> QED
    BY <2>1, <2>2
<1> QED
  BY <1>1 DEF OlderThan

LEMMA OlderAppend ==
  ASSUME NEW messages \in Seq(Message), NEW m \in Message, NEW q \in Nat,
         OlderThan(messages, q),
         \A u \in 1..Len(m.content) : m.content[u][1] < q
  PROVE  OlderThan(Append(messages, m), q)
<1>1. /\ Len(messages) \in Nat /\ Len(Append(messages, m)) = Len(messages) + 1
      /\ \A i \in 1..Len(messages) : Append(messages, m)[i] = messages[i]
      /\ Append(messages, m)[Len(messages) + 1] = m
  BY AppendProperties, LenProperties
<1>2. ASSUME NEW i \in 1..Len(Append(messages, m)),
             NEW u \in 1..Len(Append(messages, m)[i].content)
      PROVE  Append(messages, m)[i].content[u][1] < q
  <2>1. CASE i = Len(messages) + 1
    <3>1. Append(messages, m)[i] = m
      BY <1>1, <2>1
    <3> QED
      BY <1>2, <3>1
  <2>2. CASE i # Len(messages) + 1
    <3>1. i \in 1..Len(messages) /\ Append(messages, m)[i] = messages[i]
      BY <1>1, <2>2
    <3> QED
      BY <1>2, <3>1 DEF OlderThan
  <2> QED
    BY <2>1, <2>2
<1> QED
  BY <1>2 DEF OlderThan

(* Dropping the last message gives back what it was appended to.           *)
LEMMA FrontOfAppend ==
  ASSUME NEW S, NEW s \in Seq(S), NEW e \in S
  PROVE  /\ SubSeq(Append(s, e), 1, Len(Append(s, e)) - 1) = s
         /\ Append(s, e)[Len(Append(s, e))] = e
<1> DEFINE a == Append(s, e)
           f == SubSeq(a, 1, Len(a) - 1)
<1>1. /\ a \in Seq(S) /\ Len(s) \in Nat /\ Len(a) = Len(s) + 1
      /\ \A i \in 1..Len(s) : a[i] = s[i]
      /\ a[Len(s) + 1] = e
  BY AppendProperties, LenProperties
<1>2. Len(a) - 1 = Len(s) /\ Len(s) \in 0..Len(a)
  BY <1>1
<1> HIDE DEF a
<1>3. /\ f \in Seq(S) /\ Len(f) = Len(s)
      /\ \A i \in 1..Len(s) : f[i] = a[i]
  BY <1>1, <1>2, FrontProperties
<1>4. f = s
  BY <1>1, <1>3, SeqEqual
<1> QED
  BY <1>1, <1>4 DEF a

LEMMA DeviceQuestions ==
  ASSUME HistoryInv, OrderInv, QuestionInv, Shapes
  PROVE  QuestionInv'
<1>1. /\ turn \in Nat /\ history \in Seq(Message) /\ Len(history) \in Nat
      /\ pc # "idle" => (turn \in Turns /\ Len(history) >= 1)
      /\ OlderThan(history, turn + 1)
  <2>1. turn \in Nat /\ history \in Seq(Message) /\ Len(history) \in Nat
    BY TurnAssumption, LenProperties DEF HistoryInv, TypeOK, DeviceTypeOK
  <2>2. ASSUME pc # "idle" PROVE turn \in Turns /\ Len(history) >= 1
    <3>1. Len(history) % 2 = 1
      BY <2>2 DEF HistoryInv, HistoryAlternates
    <3> QED
      BY <2>1, <2>2, <3>1 DEF HistoryInv, TypeOK, DeviceTypeOK
  <2> QED
    BY <2>1, <2>2 DEF QuestionInv
<1>2. CASE Asking
  <2>1. /\ turn' = turn + 1 /\ turn' \in Turns
        /\ history' = Append(history, UserMessage(turn'))
    BY <1>2 DEF Asking
  <2>2. /\ UserMessage(turn') \in Message
        /\ \A u \in 1..Len(UserMessage(turn').content) :
             UserMessage(turn').content[u][1] < turn' + 1
    <3>1. <<turn', 0>> \in Unit /\ turn' \in Nat
      BY <2>1, TurnAssumption DEF Unit, Turns
    <3> QED
      BY <3>1 DEF UserMessage, Message, Text
  <2>3. OlderThan(history, turn' + 1)
    BY <1>1, <2>1, OlderYet
  <2>4. OlderThan(history', turn' + 1)
    BY <1>1, <2>1, <2>2, <2>3, OlderAppend
  <2>5. SubSeq(history', 1, Len(history') - 1) = history /\ history'[Len(history')] = UserMessage(turn')
    BY <1>1, <2>1, <2>2, FrontOfAppend
  <2>6. OlderThan(SubSeq(history', 1, Len(history') - 1), turn')
    BY <1>1, <2>1, <2>5
  <2> QED
    BY <2>4, <2>5, <2>6 DEF QuestionInv
<1>3. CASE Failing
  <2>1. /\ pc # "idle" /\ pc' = "idle" /\ turn' = turn
        /\ history' = SubSeq(history, 1, Len(history) - 1)
    BY <1>3 DEF Failing, Ending
  <2>2. OlderThan(history', turn)
    BY <2>1 DEF QuestionInv
  <2>3. history' \in Seq(Message)
    BY <1>1, <2>1, FrontProperties
  <2> QED
    BY <1>1, <2>1, <2>2, <2>3, OlderYet DEF QuestionInv
<1>4. CASE Answering
  <2>1. /\ pc # "idle" /\ pc' = "idle" /\ turn' = turn
        /\ history' = Append(history, AssistantMessage(reply))
    BY <1>4 DEF Answering, Ending
  <2>2. reply \in Text /\ \A u \in 1..Len(reply) : reply[u][1] = turn
    BY <2>1 DEF HistoryInv, TypeOK, DeviceTypeOK, OrderInv, TextOrdered
  <2>3. AssistantMessage(reply) \in Message /\ AssistantMessage(reply).content = reply
    BY <2>2 DEF AssistantMessage, Message
  <2>4. OlderThan(history', turn + 1)
    BY <1>1, <2>1, <2>2, <2>3, OlderAppend
  <2> QED
    BY <2>1, <2>4 DEF QuestionInv
<1>5. CASE Forgetting
  <2>1. pc' = "idle" /\ history' = << >>
    BY <1>5 DEF Forgetting
  <2> QED
    BY <2>1 DEF QuestionInv, OlderThan
<1>6. CASE Moving \/ Showing
  <2>1. pc # "idle" /\ UNCHANGED <<turn, history>>
    BY <1>6 DEF Moving, Showing, Going
  <2> QED
    BY <2>1 DEF QuestionInv
<1>7. CASE Resting
  <2>1. pc' = "idle" /\ UNCHANGED <<turn, history>>
    BY <1>7 DEF Resting
  <2> QED
    BY <1>1, <2>1 DEF QuestionInv
<1> QED
  BY <1>2, <1>3, <1>4, <1>5, <1>6, <1>7 DEF Shapes

(* A request is built from the history, so it is as well-formed as that.   *)
LEMMA DeviceRequests ==
  ASSUME HistoryInv, QuestionInv, RequestWellFormed, Shapes
  PROVE  RequestWellFormed'
<1>1. CASE UNCHANGED asked
  BY <1>1 DEF RequestWellFormed, Alternates
<1>2. CASE Moving /\ asked' = [asked EXCEPT ![turn] = history]
  <2>1. /\ pc # "idle" /\ turn \in Turns /\ Alternates(history)
        /\ history[Len(history)] = UserMessage(turn)
        /\ OlderThan(SubSeq(history, 1, Len(history) - 1), turn)
        /\ history \in Seq(Message) /\ Len(history) \in Nat /\ Len(history) % 2 = 1
        /\ asked \in [Turns -> Seq(Message)]
    BY <1>2, LenProperties
       DEF Moving, Going, HistoryInv, TypeOK, WireTypeOK, DeviceTypeOK, HistoryAlternates, QuestionInv
  <2>2. ASSUME NEW i \in 1..(Len(history) - 1), NEW u \in 1..Len(history[i].content)
        PROVE  history[i].content[u][1] < turn
    <3>1. Len(history) - 1 \in 0..Len(history)
      BY <2>1
    <3>2. /\ Len(SubSeq(history, 1, Len(history) - 1)) = Len(history) - 1
          /\ SubSeq(history, 1, Len(history) - 1)[i] = history[i]
      BY <2>1, <3>1, FrontProperties
    <3> QED
      BY <2>1, <2>2, <3>2 DEF OlderThan
  <2>3. asked'[turn] = history /\ \A t \in Turns \ {turn} : asked'[t] = asked[t]
    BY <1>2, <2>1
  <2>4. ASSUME NEW t \in Turns, asked'[t] # << >>
        PROVE  /\ Alternates(asked'[t])
               /\ asked'[t][Len(asked'[t])] = UserMessage(t)
               /\ \A i \in 1..(Len(asked'[t]) - 1) : \A u \in 1..Len(asked'[t][i].content) :
                    asked'[t][i].content[u][1] < t
    <3>1. CASE t = turn
      BY <2>1, <2>2, <2>3, <3>1
    <3>2. CASE t # turn
      BY <2>3, <2>4, <3>2 DEF RequestWellFormed
    <3> QED
      BY <3>1, <3>2
  <2> QED
    BY <2>4 DEF RequestWellFormed, Alternates
<1> QED
  BY <1>1, <1>2 DEF Shapes, Asking, Failing, Answering, Ending, Forgetting, Moving, Showing, Resting
----------------------------------------------------------------------------
(* The invariant of the whole path: types, history, order and questions.   *)

LEMMA ConvInvInit == Init => ConvInv
<1> SUFFICES ASSUME Init PROVE ConvInv
  OBVIOUS
<1>1. HistoryInv
  BY HistoryInvInit
<1>2. pc = "idle" /\ history = << >> /\ \A t \in Turns : wire[t] = << >> /\ asked[t] = << >>
  BY DEF Init, WireInit, DeviceInit
<1>3. \A t \in Turns : WireOrdered(wire[t], gen[t])
  BY <1>2, EmptyOrdered
<1>4. OlderThan(history, turn + 1)
  BY <1>2 DEF OlderThan
<1> QED
  BY <1>1, <1>2, <1>3, <1>4 DEF ConvInv, OrderInv, QuestionInv, RequestWellFormed

LEMMA ProxyAsked ==
  ASSUME ProxyNext
  PROVE  UNCHANGED asked
BY DEF ProxyNext, Accept, StreamEvent, SendDone, UpstreamFails, Cancelled

LEMMA ConvInvNext == ConvInv /\ [Next]_vars => ConvInv'
<1> SUFFICES ASSUME ConvInv, [Next]_vars PROVE ConvInv'
  OBVIOUS
<1>0. HistoryInv /\ OrderInv /\ QuestionInv /\ RequestWellFormed /\ TypeOK
  BY DEF ConvInv, HistoryInv
<1>1. HistoryInv' /\ TypeOK'
  BY <1>0, HistoryInvNext DEF HistoryInv
<1>2. CASE Device
  <2>1. Shapes
    BY <1>0, <1>2, DeviceShapes DEF Device
  <2>2. OrderInv'
    BY <1>0, <1>1, <1>2, <2>1, DeviceOrder DEF Device
  <2>3. QuestionInv' /\ RequestWellFormed'
    BY <1>0, <2>1, DeviceQuestions, DeviceRequests
  <2> QED
    BY <1>1, <2>2, <2>3 DEF ConvInv
<1>3. ASSUME UNCHANGED deviceVars, UNCHANGED asked PROVE QuestionInv' /\ RequestWellFormed'
  <2>1. UNCHANGED <<history, pc, turn>>
    BY <1>3 DEF deviceVars
  <2>2. QuestionInv'
    BY <1>0, <2>1 DEF QuestionInv
  <2>3. RequestWellFormed'
    BY <1>0, <1>3 DEF RequestWellFormed, Alternates
  <2> QED
    BY <2>2, <2>3
<1>4. CASE Proxy
  <2>1. OrderInv'
    BY <1>0, <1>1, <1>4, ProxyOrder DEF Proxy, TypeOK
  <2>2. UNCHANGED deviceVars /\ UNCHANGED asked
    BY <1>4, ProxyAsked DEF Proxy
  <2> QED
    BY <1>1, <1>3, <2>1, <2>2 DEF ConvInv
<1>5. CASE Network
  <2>1. PICK t \in Turns : Reset(t) /\ UNCHANGED <<deviceVars, proxyVars>>
    BY <1>5 DEF Network
  <2>2. OrderInv'
    BY <1>0, <1>1, <2>1, NetworkOrder DEF TypeOK
  <2>3. UNCHANGED deviceVars /\ UNCHANGED asked
    BY <2>1 DEF Reset
  <2> QED
    BY <1>1, <1>3, <2>2, <2>3 DEF ConvInv
<1>6. CASE UNCHANGED vars
  <2>1. UNCHANGED deviceVars /\ UNCHANGED <<asked, wire, gen, pc, reply, turn>>
    BY <1>6 DEF vars, wireVars, deviceVars, proxyVars
  <2>2. OrderInv'
    BY <1>0, <2>1 DEF OrderInv
  <2> QED
    BY <1>1, <1>3, <2>1, <2>2 DEF ConvInv
<1> QED
  BY <1>2, <1>4, <1>5, <1>6 DEF Next

(* Every request the proxy can be handling is a conversation that          *)
(* alternates, ends with its own turn's question and holds only older      *)
(* text before it, whatever failed or was cut in the turns before.         *)
THEOREM RequestsAlways == Spec => []RequestWellFormed
<1>1. ConvInv => RequestWellFormed
  BY DEF ConvInv
<1> QED
  BY <1>1, ConvInvInit, ConvInvNext, PTL DEF Spec
----------------------------------------------------------------------------
(* The refinement: each shape of a device step is one step of the abstract *)
(* conversation, and nobody else's step can be seen in it.                 *)

LEMMA Halves ==
  ASSUME NEW n \in Nat
  PROVE  /\ n \div 2 \in Nat
         /\ n % 2 = 0 => (n + 1) \div 2 = n \div 2
         /\ n % 2 = 1 => /\ (n - 1) \div 2 = n \div 2
                         /\ (n + 1) \div 2 = (n \div 2) + 1
                         /\ 2 * (n \div 2) + 1 = n
                         /\ 2 * ((n \div 2) + 1) - 1 = n
                         /\ 2 * ((n \div 2) + 1) = n + 1
                         /\ n \in 1..n
         /\ \A k \in 1..(n \div 2) : 2 * k - 1 \in 1..n /\ 2 * k \in 1..n
OBVIOUS

(* The completed turns depend only on the complete pairs of messages.      *)
LEMMA SameCompleted ==
  ASSUME NEW m \in Seq(Message), NEW n \in Seq(Message), Len(m) \div 2 = Len(n) \div 2,
         \A i \in 1..(2 * (Len(m) \div 2)) : m[i] = n[i]
  PROVE  Completed(m) = Completed(n)
<1>1. Len(m) \in Nat /\ Len(m) \div 2 \in Nat
  BY LenProperties, Halves
<1>2. \A k \in 1..(Len(m) \div 2) : /\ 2 * k - 1 \in 1..(2 * (Len(m) \div 2))
                                    /\ 2 * k \in 1..(2 * (Len(m) \div 2))
  BY <1>1
<1>3. \A k \in 1..(Len(m) \div 2) : m[2 * k - 1] = n[2 * k - 1] /\ m[2 * k] = n[2 * k]
  BY <1>2
<1> QED
  BY <1>3 DEF Completed

LEMMA CompletedLen ==
  ASSUME NEW m \in Seq(Message)
  PROVE  Len(Completed(m)) = Len(m) \div 2
<1>1. Len(m) \div 2 \in Nat
  BY LenProperties, Halves
<1> DEFINE pair(k) == [question |-> m[2 * k - 1].content[1][1], reply |-> m[2 * k].content]
           S == {pair(k) : k \in 1..(Len(m) \div 2)}
<1>2. Completed(m) \in [1..(Len(m) \div 2) -> S]
  BY DEF Completed
<1> QED
  BY <1>1, <1>2

\* The abstract variables, as the refinement mapping of ChatTurn sees them.
AskingNow == IF pc = "idle" THEN 0 ELSE turn

AbstractStep == Conv!ConvNext \/ UNCHANGED <<Completed(history), AskingNow>>

LEMMA AnswerRefines ==
  ASSUME HistoryInv, OrderInv, QuestionInv, Answering
  PROVE  Conv!Answer
<1> DEFINE n == Len(history)
           h == n \div 2
           new == Completed(history')
<1>1. /\ pc # "idle" /\ pc' = "idle" /\ turn \in Turns /\ turn \in Nat /\ turn # 0
      /\ history \in Seq(Message) /\ n \in Nat /\ n % 2 = 1
      /\ history[n] = UserMessage(turn)
      /\ history' = Append(history, AssistantMessage(reply))
      /\ reply \in Text /\ TextOrdered(reply, turn, gen[turn])
  BY TurnAssumption, LenProperties
     DEF Answering, Ending, HistoryInv, TypeOK, DeviceTypeOK, HistoryAlternates, OrderInv,
         QuestionInv, Turns
<1>2. AssistantMessage(reply) \in Message /\ AssistantMessage(reply).content = reply
  BY <1>1 DEF AssistantMessage, Message
<1>3. /\ history' \in Seq(Message) /\ Len(history') = n + 1
      /\ \A i \in 1..n : history'[i] = history[i]
      /\ history'[n + 1] = AssistantMessage(reply)
  BY <1>1, <1>2, AppendProperties
<1>4. /\ h \in Nat /\ (n + 1) \div 2 = h + 1 /\ 2 * h + 1 = n
      /\ \A k \in 1..h : 2 * k - 1 \in 1..n /\ 2 * k \in 1..n
  BY <1>1, Halves
<1>5. Len(Completed(history)) = h /\ Len(new) = h + 1
  BY <1>1, <1>3, <1>4, CompletedLen
<1>6. \A k \in 1..h : new[k] = Completed(history)[k]
  <2>1. ASSUME NEW k \in 1..h PROVE new[k] = Completed(history)[k]
    <3>1. k \in 1..(Len(history') \div 2)
      BY <1>3, <1>4
    <3>2. history'[2 * k - 1] = history[2 * k - 1] /\ history'[2 * k] = history[2 * k]
      BY <1>3, <1>4
    <3> QED
      BY <3>1, <3>2 DEF Completed
  <2> QED
    BY <2>1
<1>7. new[h + 1] = [question |-> turn, reply |-> reply]
  <2>1. h + 1 \in 1..(Len(history') \div 2)
    BY <1>3, <1>4
  <2>2. 2 * (h + 1) - 1 = n /\ 2 * (h + 1) = n + 1 /\ n \in 1..n
    BY <1>1, Halves
  <2>3. history'[n] = UserMessage(turn) /\ UserMessage(turn).content[1][1] = turn
    BY <1>1, <1>3, <2>2 DEF UserMessage
  <2>4. new[h + 1] = [question |-> history'[2 * (h + 1) - 1].content[1][1],
                      reply |-> history'[2 * (h + 1)].content]
    BY <2>1 DEF Completed
  <2> QED
    BY <1>2, <1>3, <2>2, <2>3, <2>4
<1>8. Conv!IsReplyTo(turn, reply)
  BY <1>1 DEF Conv!IsReplyTo, TextOrdered
<1> HIDE DEF new, h
<1> QED
  BY <1>1, <1>5, <1>6, <1>7, <1>8 DEF Conv!Answer, new

LEMMA DeviceRefines ==
  ASSUME HistoryInv, OrderInv, QuestionInv, Shapes
  PROVE  AbstractStep
<1> DEFINE n == Len(history)
<1>1. /\ history \in Seq(Message) /\ n \in Nat /\ n \div 2 \in Nat
      /\ n % 2 = IF pc = "idle" THEN 0 ELSE 1
      /\ turn \in Nat
      /\ pc # "idle" => turn # 0
      /\ \A k \in 1..(n \div 2) : 2 * k \in 1..n
  BY TurnAssumption, LenProperties, Halves
     DEF HistoryInv, TypeOK, DeviceTypeOK, HistoryAlternates, Turns
<1>2. ASSUME Asking PROVE Conv!Ask
  <2>1. /\ pc = "idle" /\ pc' # "idle" /\ turn' = turn + 1 /\ turn' \in Turns
        /\ history' = Append(history, UserMessage(turn'))
    BY <1>2 DEF Asking
  <2>2. UserMessage(turn') \in Message
    <3>1. <<turn', 0>> \in Unit
      BY <2>1, TurnAssumption DEF Unit
    <3> QED
      BY <3>1 DEF UserMessage, Message, Text
  <2>3. /\ history' \in Seq(Message) /\ Len(history') = n + 1
        /\ \A i \in 1..n : history'[i] = history[i]
    BY <1>1, <2>1, <2>2, AppendProperties
  <2>4. n % 2 = 0 /\ (n + 1) \div 2 = n \div 2
    BY <1>1, <2>1, Halves
  <2>5. \A i \in 1..(2 * (n \div 2)) : history[i] = history'[i]
    BY <1>1, <2>3, <2>4
  <2>6. Completed(history') = Completed(history)
    BY <1>1, <2>3, <2>4, <2>5, SameCompleted
  <2> QED
    BY <1>1, <2>1, <2>6 DEF Conv!Ask
<1>3. ASSUME Failing PROVE Conv!Drop
  <2>1. /\ pc # "idle" /\ pc' = "idle" /\ history' = SubSeq(history, 1, n - 1)
    BY <1>3 DEF Failing, Ending
  <2>2. n % 2 = 1 /\ (n - 1) \div 2 = n \div 2 /\ 2 * (n \div 2) + 1 = n /\ n - 1 \in 0..n
    <3>1. n % 2 = 1 /\ n \in Nat
      BY <1>1, <2>1
    <3>2. (n - 1) \div 2 = n \div 2 /\ 2 * (n \div 2) + 1 = n /\ n \in 1..n
      BY <3>1, Halves
    <3> QED
      BY <3>1, <3>2
  <2>3. /\ history' \in Seq(Message) /\ Len(history') = n - 1
        /\ \A i \in 1..(n - 1) : history'[i] = history[i]
    BY <1>1, <2>1, <2>2, FrontProperties
  <2>4. \A i \in 1..(2 * (n \div 2)) : history[i] = history'[i]
    BY <1>1, <2>2, <2>3
  <2>5. Completed(history') = Completed(history)
    BY <1>1, <2>2, <2>3, <2>4, SameCompleted
  <2> QED
    BY <1>1, <2>1, <2>5 DEF Conv!Drop
<1>4. ASSUME Forgetting PROVE Conv!Forget
  <2>1. pc' = "idle" /\ history' = << >>
    BY <1>4 DEF Forgetting
  <2>2. Completed(history') = << >>
    <3>1. Len(history') \div 2 = 0 /\ history' \in Seq(Message)
      BY <2>1
    <3>2. Completed(history') \in [1..0 -> {}]
      BY <3>1 DEF Completed
    <3> QED
      BY <3>2
  <2> QED
    BY <2>1, <2>2 DEF Conv!Forget
<1>5. ASSUME Moving \/ Showing \/ Resting PROVE UNCHANGED <<Completed(history), AskingNow>>
  <2>1. UNCHANGED <<turn, history>> /\ (pc = "idle" <=> pc' = "idle")
    BY <1>5 DEF Moving, Showing, Going, Resting
  <2> QED
    BY <2>1 DEF AskingNow, Completed
<1> QED
  BY <1>2, <1>3, <1>4, <1>5, AnswerRefines DEF Shapes, AbstractStep, Conv!ConvNext

LEMMA StepRefines == ConvInv /\ [Next]_vars => AbstractStep
<1> SUFFICES ASSUME ConvInv, [Next]_vars PROVE AbstractStep
  OBVIOUS
<1>1. CASE Device
  <2>1. HistoryInv /\ OrderInv /\ QuestionInv /\ Shapes
    BY <1>1, DeviceShapes DEF ConvInv, HistoryInv, Device
  <2> QED
    BY <2>1, DeviceRefines
<1>2. CASE UNCHANGED deviceVars
  <2>1. UNCHANGED <<history, pc, turn>>
    BY <1>2 DEF deviceVars
  <2> QED
    BY <2>1 DEF AbstractStep, AskingNow, Completed
<1>3. CASE Proxy \/ Network \/ UNCHANGED vars
  BY <1>2, <1>3 DEF Proxy, Network, vars
<1> QED
  BY <1>1, <1>3 DEF Next

LEMMA InitRefines == Init => Conv!ConvInit
<1> SUFFICES ASSUME Init PROVE Conv!ConvInit
  OBVIOUS
<1>1. history = << >> /\ pc = "idle"
  BY DEF Init, DeviceInit
<1>2. Completed(history) = << >>
  <2>1. Len(history) \div 2 = 0
    BY <1>1
  <2>2. Completed(history) \in [1..0 -> {}]
    BY <2>1 DEF Completed
  <2> QED
    BY <2>2
<1> QED
  BY <1>1, <1>2 DEF Conv!ConvInit

(* The chat path implements the conversation: whatever is lost, late, cut  *)
(* or refused, its user sees a list of question and reply pairs that only  *)
(* grows, and each reply holds only text generated for its own question,   *)
(* in order and nothing twice.                                             *)
THEOREM ChatImplements == Spec => ImplementsConversation
<1>1. AbstractStep <=> [Conv!ConvNext]_(Conv!convVars)
  BY DEF AbstractStep, AskingNow, Conv!convVars
<1>2. ConvInv /\ [Next]_vars => [Conv!ConvNext]_(Conv!convVars)
  BY <1>1, StepRefines
<1> QED
  BY <1>2, ConvInvInit, ConvInvNext, InitRefines, PTL
     DEF Spec, ImplementsConversation, Conv!ConvSpec
=============================================================================
