---------------------------- MODULE ScreenProofs -----------------------------
(***************************************************************************)
(* Whatever the capacity, the width and the texts, the scrollback shows a  *)
(* window on the newest lines, no line is wider than it may be, no letter  *)
(* is lost, repeated or moved before its line goes, every handler leaves   *)
(* the display as the program has it, and each call it makes comes nearer  *)
(* to its end.                                                             *)
(***************************************************************************)
EXTENDS Screen, FiniteSetTheorems, WellFoundedInduction, TLAPS

LEMMA Sizes ==
  /\ Capacity \in Nat \ {0} /\ Widest \in Nat \ {0} /\ "system" \in Kinds
  /\ Blank \in Lines
BY ScrollbackAssumption DEF Widest, Blank, Lines

----------------------------------------------------------------------------
(* Breaking a text                                                         *)

LEMMA LeastNumber ==
  ASSUME NEW T, T \subseteq Nat, T # {}
  PROVE  \E x \in T : \A y \in T : x <= y
<1>1. \E x \in T : \A y \in T : ~(<<y, x>> \in OpToRel(<, Nat))
  BY WFMin, NatLessThanWellFounded, Zenon
<1>2. PICK x \in T : \A y \in T : ~(<<y, x>> \in OpToRel(<, Nat))
  BY <1>1
<1>3. ASSUME NEW y \in T PROVE x <= y
  <2>1. <<y, x>> \notin OpToRel(<, Nat)
    BY <1>2
  <2>2. <<y, x>> \in Nat \X Nat
    OBVIOUS
  <2>3. ~(<<y, x>>[1] < <<y, x>>[2])
    BY <2>1, <2>2, Zenon DEF OpToRel
  <2> QED
    BY <2>3
<1> QED
  BY <1>3

\* The greatest is the least, counted from above.
LEMMA Greatest ==
  ASSUME NEW n \in Nat, NEW S \in SUBSET (0..n), S # {}
  PROVE  \E b \in S : \A c \in S : c <= b
<1> DEFINE T == {m \in 0..n : n - m \in S}
<1>1. T # {} /\ T \subseteq Nat
  <2>1. PICK b \in S : TRUE
    OBVIOUS
  <2>2. n - b \in T
    BY <2>1
  <2> QED
    BY <2>2
<1>2. PICK m \in T : \A k \in T : m <= k
  <2> HIDE DEF T
  <2> QED
    BY <1>1, LeastNumber
<1>3. n - m \in S
  BY <1>2
<1>4. ASSUME NEW c \in S PROVE c <= n - m
  <2>1. n - c \in T
    OBVIOUS
  <2>2. m <= n - c
    BY <1>2, <2>1
  <2> QED
    BY <1>2, <2>2
<1> QED
  BY <1>3, <1>4

LEMMA LastBreakBounds == ASSUME NEW text PROVE LastBreak(text) \in 1..Widest
<1>1. 1 \in Breaks(text) /\ Breaks(text) \subseteq 0..Widest
  BY Sizes DEF Breaks
<1>2. \E b \in Breaks(text) : \A c \in Breaks(text) : c <= b
  BY <1>1, Greatest, Sizes
<1>3. LastBreak(text) \in Breaks(text)
  BY <1>2 DEF LastBreak
<1> QED
  BY <1>3 DEF Breaks

LEMMA CutBounds ==
  ASSUME NEW text \in Seq(Nat)
  PROVE  /\ Cut(text) \in 0..Widest /\ Cut(text) <= Len(text)
         /\ text # << >> => Cut(text) > 0
         /\ SubSeq(text, 1, Cut(text)) \in Seq(Nat)
         /\ Len(SubSeq(text, 1, Cut(text))) = Cut(text)
<1>1. Cut(text) \in 0..Widest /\ Cut(text) <= Len(text) /\ (text # << >> => Cut(text) > 0)
  BY LastBreakBounds, Sizes DEF Cut
<1> QED
  BY <1>1

LEMMA CutWidth ==
  ASSUME NEW text \in Seq(Nat)
  PROVE  SubSeq(text, 1, Cut(text)) \in Seq(Nat) /\ Len(SubSeq(text, 1, Cut(text))) <= Widest
BY CutBounds, Sizes

LEMMA SkipType == ASSUME NEW text \in Seq(Nat) PROVE SkipSpaces(text) \in Seq(Nat)
<1> DEFINE starts == {i \in 1..Len(text) : text[i] # Space}
<1>1. CASE starts = {}
  BY <1>1 DEF SkipSpaces
<1>2. CASE starts # {}
  <2>1. \E i \in starts : \A j \in starts : i <= j
    <3>1. starts \subseteq Nat
      OBVIOUS
    <3> HIDE DEF starts
    <3> QED
      BY <1>2, <3>1, LeastNumber
  <2>2. PICK i \in starts : SkipSpaces(text) = SubSeq(text, i, Len(text))
    BY <1>2, <2>1 DEF SkipSpaces
  <2> QED
    BY <2>2
<1> QED
  BY <1>1, <1>2

LEMMA RemainderType == ASSUME NEW text \in Seq(Nat) PROVE Remainder(text) \in Seq(Nat)
<1>1. SubSeq(text, Cut(text) + 1, Len(text)) \in Seq(Nat)
  BY CutBounds
<1> QED
  BY <1>1, SkipType DEF Remainder

----------------------------------------------------------------------------
(* Slots                                                                   *)

LEMMA Wrap ==
  ASSUME NEW c \in Nat \ {0}, NEW h \in 0..(c - 1), NEW n \in 0..c, NEW i \in 0..(n - 1)
  PROVE  /\ (h + c - n + i) % c \in 0..(c - 1)
         /\ (h + c - n + i) % c = IF h - n + i < 0 THEN h + c - n + i ELSE h - n + i
<1>1. PICK a \in 0..(2 * c - 1) : a = h + c - n + i
  OBVIOUS
<1>2. a % c = IF a < c THEN a ELSE a - c
  OBVIOUS
<1> QED
  BY <1>1, <1>2

\* The window as a function of the ring.
Place(h, n, i) == (h + Capacity - n + (i - 1)) % Capacity
WindowOf(ls, h, n) == [i \in 1..n |-> ls[Place(h, n, i)]]

LEMMA Places ==
  ASSUME NEW h \in 0..(Capacity - 1), NEW n \in 0..Capacity, NEW i \in 1..n
  PROVE  /\ Place(h, n, i) \in 0..(Capacity - 1)
         /\ Place(h, n, i) = IF h - n + i < 1 THEN h + Capacity - n + (i - 1)
                             ELSE h - n + (i - 1)
<1>1. i - 1 \in 0..(n - 1)
  BY Sizes
<1>2. /\ Place(h, n, i) \in 0..(Capacity - 1)
      /\ Place(h, n, i) = IF h - n + (i - 1) < 0 THEN h + Capacity - n + (i - 1)
                          ELSE h - n + (i - 1)
  BY <1>1, Wrap, Sizes, Zenon DEF Place
<1> QED
  BY <1>2, Sizes

LEMMA WindowType ==
  ASSUME NEW ls \in [0..(Capacity - 1) -> Lines], NEW h \in 0..(Capacity - 1), NEW n \in 0..Capacity
  PROVE  /\ WindowOf(ls, h, n) \in Seq(Lines) /\ Len(WindowOf(ls, h, n)) = n
         /\ \A i \in 1..n : WindowOf(ls, h, n)[i] = ls[Place(h, n, i)]
<1>1. \A i \in 1..n : ls[Place(h, n, i)] \in Lines
  BY Places
<1> QED
  BY <1>1, Sizes DEF WindowOf

LEMMA HeadWraps ==
  ASSUME NEW h \in 0..(Capacity - 1)
  PROVE  /\ (h + 1) % Capacity \in 0..(Capacity - 1)
         /\ (h + 1) % Capacity = IF h + 1 < Capacity THEN h + 1 ELSE 0
<1>1. PICK a \in 0..(2 * Capacity - 1) : a = h + 1
  BY Sizes
<1>2. a % Capacity = IF a < Capacity THEN a ELSE a - Capacity
  BY Sizes
<1> QED
  BY <1>1, <1>2, Sizes

(* A line pushed comes last, and displaces the first when all are in use.  *)
LEMMA PushedWindow ==
  ASSUME NEW ls \in [0..(Capacity - 1) -> Lines], NEW h \in 0..(Capacity - 1),
         NEW n \in 0..Capacity, NEW line \in Lines
  PROVE  LET before == WindowOf(ls, h, n)
             after  == WindowOf([ls EXCEPT ![h] = line], (h + 1) % Capacity,
                                IF n < Capacity THEN n + 1 ELSE n) IN
         after = IF Len(before) < Capacity
                   THEN Append(before, line) ELSE Append(Tail(before), line)
<1> DEFINE ls2 == [ls EXCEPT ![h] = line]
           h2  == (h + 1) % Capacity
           n2  == IF n < Capacity THEN n + 1 ELSE n
           before == WindowOf(ls, h, n)
           after  == WindowOf(ls2, h2, n2)
<1>1. /\ h2 \in 0..(Capacity - 1) /\ h2 = IF h + 1 < Capacity THEN h + 1 ELSE 0
      /\ n2 \in 1..Capacity /\ n2 \in 0..Capacity
      /\ ls2 \in [0..(Capacity - 1) -> Lines]
  BY HeadWraps, Sizes
<1>2. /\ before \in Seq(Lines) /\ Len(before) = n
      /\ \A i \in 1..n : before[i] = ls[Place(h, n, i)]
  BY WindowType
<1>3. /\ after \in Seq(Lines) /\ Len(after) = n2
      /\ \A i \in 1..n2 : after[i] = ls2[Place(h2, n2, i)]
  <2> HIDE DEF ls2, h2, n2
  <2> QED
    BY <1>1, WindowType
<1>4. after[n2] = line
  <2>1. Place(h2, n2, n2) = h
    <3>1. Place(h2, n2, n2) = IF h2 - n2 + n2 < 1 THEN h2 + Capacity - n2 + (n2 - 1)
                              ELSE h2 - n2 + (n2 - 1)
      <4> HIDE DEF h2, n2
      <4>1. n2 \in 1..n2
        BY <1>1, Sizes
      <4> QED
        BY <1>1, <4>1, Places
    <3> HIDE DEF n2
    <3> QED
      BY <1>1, <3>1, Sizes
  <2>2. after[n2] = ls2[h]
    <3> HIDE DEF n2, after, ls2
    <3>1. n2 \in 1..n2
      BY <1>1, Sizes
    <3> QED
      BY <1>3, <2>1, <3>1, Zenon
  <2> QED
    BY <2>2
<1>5. ASSUME NEW i \in 1..n, NEW j \in 1..(n2 - 1), j = IF n < Capacity THEN i ELSE i - 1
      PROVE  after[j] = before[i]
  <2>1. j \in 1..n2
    BY <1>1, Sizes
  <2>2. /\ Place(h, n, i) \in 0..(Capacity - 1)
        /\ Place(h, n, i) = IF h - n + i < 1 THEN h + Capacity - n + (i - 1) ELSE h - n + (i - 1)
    BY Places
  <2>3. Place(h2, n2, j) = IF h2 - n2 + j < 1 THEN h2 + Capacity - n2 + (j - 1)
                           ELSE h2 - n2 + (j - 1)
    <3> HIDE DEF h2, n2
    <3>1. h2 \in 0..(Capacity - 1) /\ n2 \in 0..Capacity /\ j \in 1..n2
      BY <1>1, <2>1
    <3>2. \A k \in 1..n2 : Place(h2, n2, k) = IF h2 - n2 + k < 1 THEN h2 + Capacity - n2 + (k - 1)
                                                ELSE h2 - n2 + (k - 1)
      BY <3>1, Places
    <3> QED
      BY <3>1, <3>2
  <2>4. Place(h2, n2, j) = Place(h, n, i) /\ Place(h, n, i) # h
    <3> DEFINE p == Place(h, n, i)
               q == Place(h2, n2, j)
    <3> HIDE DEF p, q, h2
    <3> QED
      BY <1>1, <1>5, <2>1, <2>2, <2>3, Sizes
  <2> QED
    BY <1>2, <1>3, <2>1, <2>2, <2>4
<1>6. ASSUME n < Capacity
      PROVE  after = Append(before, line)
  <2>1. n2 = n + 1
    BY <1>6
  <2>2. ASSUME NEW i \in 1..n
        PROVE  after[i] = before[i]
    <3>1. i \in 1..(n2 - 1) /\ i = IF n < Capacity THEN i ELSE i - 1
      BY <1>6, <2>1
    <3> QED
      BY <1>5, <3>1, Zenon
  <2> HIDE DEF after, before, n2
  <2> QED
    BY <1>2, <1>3, <1>4, <1>6, <2>1, <2>2
<1>7. ASSUME n = Capacity
      PROVE  after = Append(Tail(before), line)
  <2>1. n2 = n
    BY <1>7, Sizes
  <2>2. ASSUME NEW i \in 1..(n - 1)
        PROVE  after[i] = before[i + 1]
    <3>1. i + 1 \in 1..n /\ i \in 1..(n2 - 1) /\ i = IF n < Capacity THEN i + 1 ELSE (i + 1) - 1
      BY <1>7, <2>1, Sizes
    <3> QED
      BY <1>5, <3>1
  <2>3. Tail(before) \in Seq(Lines) /\ Len(Tail(before)) = n - 1
        /\ \A i \in 1..(n - 1) : Tail(before)[i] = before[i + 1]
    <3> HIDE DEF before
    <3> QED
      BY <1>2, <1>7, Sizes
  <2> HIDE DEF after, before, n2
  <2> QED
    BY <1>2, <1>3, <1>4, <1>7, <2>1, <2>2, <2>3, Sizes
<1>8. after = IF Len(before) < Capacity
                THEN Append(before, line) ELSE Append(Tail(before), line)
  <2> HIDE DEF after, before
  <2> QED
    BY <1>2, <1>6, <1>7, Sizes
<1> QED
  BY <1>8, Zenon

WritesAt(ls, ls2, p, line) ==
  \A k \in 0..(Capacity - 1) : ls2[k] = IF k = p THEN line ELSE ls[k]

(* A delta goes on in the last line and leaves the others as they are.     *)
LEMMA ExtendedWindow ==
  ASSUME NEW ls \in [0..(Capacity - 1) -> Lines], NEW h \in 0..(Capacity - 1),
         NEW n \in 1..Capacity, NEW line \in Lines,
         NEW ls2 \in [0..(Capacity - 1) -> Lines],
         WritesAt(ls, ls2, Place(h, n, n), line)
  PROVE  /\ Len(WindowOf(ls2, h, n)) = n /\ WindowOf(ls2, h, n)[n] = line
         /\ \A i \in 1..n : i # n => WindowOf(ls2, h, n)[i] = WindowOf(ls, h, n)[i]
<1> DEFINE before == WindowOf(ls, h, n)
           after  == WindowOf(ls2, h, n)
<1>0. n \in 0..Capacity /\ n \in 1..n
  BY Sizes
<1>1. ASSUME NEW i \in 1..n
      PROVE  /\ Place(h, n, i) \in 0..(Capacity - 1)
             /\ i # n => Place(h, n, i) # Place(h, n, n)
  <2>1. \A k \in 1..n : /\ Place(h, n, k) \in 0..(Capacity - 1)
                        /\ Place(h, n, k) = IF h - n + k < 1 THEN h + Capacity - n + (k - 1)
                                            ELSE h - n + (k - 1)
    BY <1>0, Places
  <2> DEFINE p == Place(h, n, i)
             q == Place(h, n, n)
  <2>2. /\ p \in 0..(Capacity - 1)
        /\ p = IF h - n + i < 1 THEN h + Capacity - n + (i - 1) ELSE h - n + (i - 1)
        /\ q = IF h - n + n < 1 THEN h + Capacity - n + (n - 1) ELSE h - n + (n - 1)
    BY <1>0, <2>1
  <2> HIDE DEF p, q
  <2>3. i # n => p # q
    BY <2>2, Sizes
  <2> QED
    BY <2>2, <2>3 DEF p, q
<1>3. \A i \in 1..n : before[i] = ls[Place(h, n, i)]
  BY <1>0, WindowType
<1>4. /\ Len(after) = n
      /\ \A i \in 1..n : after[i] = ls2[Place(h, n, i)]
  BY <1>0, WindowType
<1> HIDE DEF before, after
<1>5. after[n] = line /\ \A i \in 1..n : i # n => after[i] = before[i]
  BY <1>0, <1>1, <1>3, <1>4 DEF WritesAt
<1> QED
  BY <1>4, <1>5 DEF before, after

LEMMA WindowIs ==
  /\ Window = WindowOf(lines, head, size)
  /\ Window' = WindowOf(lines', head', size')
  /\ Slot(size - 1) = Place(head, size, size)
BY DEF Window, WindowOf, Slot, Place

----------------------------------------------------------------------------
(* Steps on the ring                                                       *)

LEMMA LettersCount == ASSUME NEW shape \in Texts PROVE Letters(shape) \in Nat
<1>1. Len(shape) \in Nat /\ IsFiniteSet(1..Len(shape))
  BY ScreenAssumption, FS_Interval
<1>2. {j \in 1..Len(shape) : shape[j]} \subseteq 1..Len(shape)
  OBVIOUS
<1> QED
  BY <1>1, <1>2, FS_Subset, FS_CardinalityType DEF Letters, LettersBefore

LEMMA NumberedType ==
  ASSUME NEW shape \in Texts, NEW from \in Nat
  PROVE  Numbered(shape, from) \in Seq(Nat)
<1>1. Len(shape) \in Nat
  BY ScreenAssumption
<1>2. ASSUME NEW i \in 1..Len(shape) PROVE LettersBefore(shape, i) \in Nat
  <2>1. IsFiniteSet(1..i) /\ {j \in 1..i : shape[j]} \subseteq 1..i
    BY <1>1, FS_Interval
  <2> QED
    BY <2>1, FS_Subset, FS_CardinalityType DEF LettersBefore
<1> QED
  BY <1>1, <1>2 DEF Numbered, Space

LEMMA PushTypes ==
  ASSUME RingTypeOK, NEW kind \in Kinds, NEW text \in Seq(Nat), Len(text) <= Widest,
         PushOne(kind, text)
  PROVE  RingTypeOK'
<1>1. [kind |-> kind, text |-> text] \in Lines
  BY DEF Lines
<1>2. (head + 1) % Capacity \in 0..(Capacity - 1)
  BY HeadWraps DEF RingTypeOK
<1> QED
  BY <1>1, <1>2, Sizes DEF PushOne, RingTypeOK

LEMMA LastAppended ==
  ASSUME NEW S, NEW s \in Seq(S), NEW e \in S
  PROVE  Append(s, e) # << >> /\ Append(s, e)[Len(Append(s, e))] = e
OBVIOUS

LEMMA PushAdds ==
  ASSUME RingTypeOK, NEW kind \in Kinds, NEW text \in Seq(Nat), Len(text) <= Widest,
         PushOne(kind, text)
  PROVE  View!AddLine
<1> DEFINE line == [kind |-> kind, text |-> text]
<1>1. line \in Lines /\ line \in [kind : Kinds, text : Seq(Nat)]
  BY DEF Lines
<1>2. Window' = IF Len(Window) < Capacity
                  THEN Append(Window, line) ELSE Append(Tail(Window), line)
  <2>1. /\ lines' = [lines EXCEPT ![head] = line] /\ head' = (head + 1) % Capacity
        /\ size' = IF size < Capacity THEN size + 1 ELSE size
    BY DEF PushOne
  <2> HIDE DEF line
  <2> QED
    BY <1>1, <2>1, PushedWindow, WindowIs DEF RingTypeOK
<1>3. Window \in Seq(Lines) /\ Len(Window) = size /\ size \in 0..Capacity
  BY WindowType, WindowIs DEF RingTypeOK
<1>4. Window' # << >> /\ Window'[Len(Window')] = line
  <2> HIDE DEF line
  <2>1. CASE Len(Window) < Capacity
    <3>1. Window' = Append(Window, line)
      BY <1>2, <2>1
    <3> QED
      BY <1>1, <1>3, <3>1, LastAppended, Zenon
  <2>2. CASE Len(Window) = Capacity
    <3>1. Window' = Append(Tail(Window), line) /\ Tail(Window) \in Seq(Lines)
      BY <1>2, <1>3, <2>2, Sizes
    <3> QED
      BY <1>1, <3>1, LastAppended, Zenon
  <2> QED
    BY <1>3, <2>1, <2>2, Sizes
<1> HIDE DEF line
<1>5. Len(line.text) <= Widest
  BY DEF line
<1> QED
  BY <1>1, <1>2, <1>4, <1>5 DEF View!AddLine, View!Newest, View!Fits

LastGrows(text) ==
  /\ Window \in Seq(Lines) /\ Len(Window) = size
  /\ Window' \in Seq(Lines) /\ Len(Window') = size
  /\ \A i \in 1..size : i # size => Window'[i] = Window[i]
  /\ Window[size].text \in Seq(Nat) /\ Window'[size].text = Window[size].text \o text

LEMMA ExtendTypes ==
  ASSUME RingTypeOK, size > 0, NEW text \in Seq(Nat),
         Len(text) <= Room(lines[Slot(size - 1)]), ExtendLast(text)
  PROVE  RingTypeOK' /\ View!Extend /\ LastGrows(text)
<1> DEFINE p == Slot(size - 1)
           old == lines[p]
           line == [kind |-> old.kind, text |-> old.text \o text]
<1>0. size \in 1..Capacity /\ size \in 0..Capacity /\ head \in 0..(Capacity - 1)
      /\ lines \in [0..(Capacity - 1) -> Lines]
  BY Sizes DEF RingTypeOK
<1>1. p = Place(head, size, size) /\ p \in 0..(Capacity - 1)
  BY <1>0, WindowIs, Places
<1>2. old \in Lines /\ old.text \in Seq(Nat) /\ old.kind \in Kinds
      /\ old \in [kind : Kinds, text : Seq(Nat)]
  BY <1>0, <1>1 DEF Lines
<1>3. line.text \in Seq(Nat) /\ Len(line.text) <= Widest /\ line \in Lines
      /\ Len(line.text) >= Len(old.text) /\ SubSeq(line.text, 1, Len(old.text)) = old.text
  BY <1>2, Sizes DEF Room, Lines
<1>4. lines' = [lines EXCEPT ![p] = line] /\ head' = head /\ size' = size
  <2>1. \A r \in [kind : Kinds, text : Seq(Nat)], t \in Seq(Nat) :
          [r EXCEPT !.text = t] = [kind |-> r.kind, text |-> t]
    OBVIOUS
  <2>2. lines' = [lines EXCEPT ![p] = [lines[p] EXCEPT !.text = @ \o text]]
    BY <1>0, <1>1 DEF ExtendLast
  <2>3. [old EXCEPT !.text = @ \o text] = line
    <3>1. old.text \o text \in Seq(Nat)
      BY <1>2
    <3> HIDE DEF old
    <3> QED
      BY <1>2, <2>1, <3>1
  <2> QED
    BY <2>2, <2>3 DEF ExtendLast
<1>5. RingTypeOK'
  BY <1>0, <1>1, <1>3, <1>4 DEF RingTypeOK
<1>6. /\ Window' = [Window EXCEPT ![size] = line]
      /\ Window' \in Seq(Lines) /\ \A i \in 1..size : i # size => Window'[i] = Window[i]
  <2>1. line \in Lines
    BY <1>3
  <2>2. /\ lines' \in [0..(Capacity - 1) -> Lines]
        /\ \A k \in 0..(Capacity - 1) :
             lines'[k] = IF k = Place(head, size, size) THEN line ELSE lines[k]
    <3> HIDE DEF line
    <3> QED
      BY <1>0, <1>1, <1>4, <2>1
  <2> HIDE DEF line, p
  <2>a. PICK ls, ls2, h, n : ls = lines /\ ls2 = lines' /\ h = head /\ n = size
    OBVIOUS
  <2>b. /\ ls \in [0..(Capacity - 1) -> Lines] /\ ls2 \in [0..(Capacity - 1) -> Lines]
        /\ h \in 0..(Capacity - 1) /\ n \in 1..Capacity /\ n \in 0..Capacity
        /\ WritesAt(ls, ls2, Place(h, n, n), line)
    BY <1>0, <2>2, <2>a DEF WritesAt
  <2> DEFINE after == WindowOf(ls2, h, n)
             before == WindowOf(ls, h, n)
  <2>3. /\ Len(after) = n /\ after[n] = line
        /\ \A i \in 1..n : i # n => after[i] = before[i]
    BY <2>1, <2>b, ExtendedWindow
  <2>4. after \in Seq(Lines) /\ before \in Seq(Lines) /\ Len(before) = n
    BY <2>b, WindowType
  <2>5. Window' = after /\ Window = before
    BY <1>4, <2>a, WindowIs
  <2> HIDE DEF before
  <2> HIDE DEF after
  <2>6. Window' \in Seq(Lines) /\ Window \in Seq(Lines) /\ Len(Window) = size /\ Len(Window') = size
        /\ Window'[size] = line /\ \A i \in 1..size : i # size => Window'[i] = Window[i]
    BY <2>3, <2>4, <2>5, <2>a
  <2> QED
    BY <1>0, <2>6
<1>7. Window \in Seq(Lines) /\ Len(Window) = size /\ Window[size] = old
  <2>1. size \in 1..size
    BY <1>0
  <2>2. WindowOf(lines, head, size)[size] = lines[Place(head, size, size)]
    BY <1>0, <2>1, WindowType
  <2> QED
    BY <1>0, <1>1, <2>2, WindowType, WindowIs
<1>8. Len(Window') = size /\ Window'[size] = line
  <2> HIDE DEF line
  <2> QED
    BY <1>0, <1>3, <1>6, <1>7
<1>9. Window' = [Window EXCEPT ![size].text = line.text]
  <2>1. [old EXCEPT !.text = line.text] = line
    <3>1. \A r \in [kind : Kinds, text : Seq(Nat)], t \in Seq(Nat) :
            [r EXCEPT !.text = t] = [kind |-> r.kind, text |-> t]
      OBVIOUS
    <3>2. line.text \in Seq(Nat) /\ line = [kind |-> old.kind, text |-> line.text]
      BY <1>3
    <3> HIDE DEF old, line
    <3> QED
      BY <1>2, <3>1, <3>2, Zenon
  <2> HIDE DEF line, old
  <2> QED
    BY <1>0, <1>6, <1>7, <2>1
<1>11. LastGrows(text)
  <2>1. line.text = old.text \o text
    OBVIOUS
  <2> HIDE DEF line, old
  <2> QED
    BY <1>2, <1>6, <1>7, <1>8, <2>1 DEF LastGrows
<1> HIDE DEF line, old
<1>10. View!Extend
  BY <1>0, <1>3, <1>7, <1>8, <1>9 DEF View!Extend, View!Fits
<1> QED
  BY <1>5, <1>10, <1>11

LEMMA RoomType ==
  ASSUME RingTypeOK, size > 0
  PROVE  Room(lines[Slot(size - 1)]) \in Nat /\ Room(lines[Slot(size - 1)]) <= Widest
<1>1. size \in 1..size /\ size \in 0..Capacity /\ head \in 0..(Capacity - 1)
  BY Sizes DEF RingTypeOK
<1>2. Slot(size - 1) \in 0..(Capacity - 1)
  BY <1>1, WindowIs, Places
<1>3. lines[Slot(size - 1)] \in Lines
  BY <1>2 DEF RingTypeOK
<1> HIDE DEF Slot
<1>4. \A line \in Lines : Len(line.text) \in 0..Widest
  BY Sizes DEF Lines
<1> QED
  BY <1>3, <1>4, Sizes DEF Room

(* Whether the delta fits or not, the last line takes what there is room   *)
(* for, and only that.                                                     *)
LEMMA AppendSteps ==
  ASSUME RingTypeOK, AppendToLast, NextCall.text \in Seq(Nat)
  PROVE  RingTypeOK' /\ (View!Extend \/ UNCHANGED ringVars)
<1> DEFINE text == NextCall.text
           room == Room(lines[Slot(size - 1)])
<1>1. CASE size = 0
  BY <1>1 DEF AppendToLast, RingTypeOK, ringVars
<1>2. CASE size > 0 /\ Len(text) <= room
  <2>1. ExtendLast(text)
    BY <1>2 DEF AppendToLast, RingTypeOK
  <2> QED
    BY <1>2, <2>1, ExtendTypes
<1>3. CASE size > 0 /\ ~(Len(text) <= room)
  <2>1. room \in Nat
    BY <1>3, RoomType
  <2>2. ExtendLast(SubSeq(text, 1, room))
    BY <1>3 DEF AppendToLast, RingTypeOK
  <2>3. SubSeq(text, 1, room) \in Seq(Nat) /\ Len(SubSeq(text, 1, room)) = room
    <3> HIDE DEF room
    <3>1. \A t \in Seq(Nat) : ~(Len(t) <= room) =>
            SubSeq(t, 1, room) \in Seq(Nat) /\ Len(SubSeq(t, 1, room)) = room
      BY <2>1
    <3> QED
      BY <1>3, <3>1
  <2>4. Len(SubSeq(text, 1, room)) <= room
    BY <2>1, <2>3
  <2> QED
    BY <1>3, <2>2, <2>3, <2>4, ExtendTypes
<1> QED
  BY <1>1, <1>2, <1>3 DEF RingTypeOK

----------------------------------------------------------------------------
(* Types                                                                   *)

LEMMA CallTypes ==
  /\ \A kind \in Kinds, text \in Seq(Nat) : Push(kind, text) \in Calls
  /\ \A text \in Seq(Nat) : AppendText(text) \in Calls
  /\ \A s \in Statuses : SetStatus(s) \in Calls
  /\ MarkDirty \in Calls /\ SetLabel \in Calls /\ SetInput \in Calls /\ RenderCall \in Calls
  /\ Redraw \in Seq(Calls)
<1>1. \A kind \in Kinds, text \in Seq(Nat) : Push(kind, text) \in Calls
  BY DEF Push, Call, Calls
<1>2. \A text \in Seq(Nat) : AppendText(text) \in Calls
  BY DEF AppendText, Call, Calls
<1>3. \A s \in Statuses : SetStatus(s) \in Calls
  BY DEF SetStatus, Call, Calls
<1>4. MarkDirty \in Calls /\ SetLabel \in Calls /\ SetInput \in Calls /\ RenderCall \in Calls
  BY DEF MarkDirty, SetLabel, SetInput, RenderCall, Call, Calls
<1> QED
  BY <1>1, <1>2, <1>3, <1>4 DEF Redraw

LEMMA KindsKnown == {"system", "user", "assistant", "error"} \subseteq Kinds
BY ScrollbackAssumption, ScreenAssumption

LEMMA ClearTypes == ASSUME Clear PROVE RingTypeOK' /\ Window' = << >>
<1>1. RingTypeOK'
  BY Sizes DEF Clear, RingTypeOK
<1>2. Window' = << >>
  BY DEF Clear, Window
<1> QED
  BY <1>1, <1>2

LEMMA FirstType ==
  ASSUME NEW S, NEW c \in S, NEW rest \in Seq(S)
  PROVE  <<c>> \o rest \in Seq(S)
OBVIOUS

LEMMA CallParts ==
  ASSUME NEW c \in Calls
  PROVE  /\ c.text \in Seq(Nat)
         /\ c.call = "push" => c.arg \in Kinds
         /\ c.call = "status" => c.arg \in Statuses
<1>0. << >> \in Seq(Nat)
  OBVIOUS
<1>1. CASE c \in [call : {"push"}, arg : Kinds, text : Seq(Nat)]
  BY <1>1
<1>2. CASE c \in [call : {"append"}, arg : {"system"}, text : Seq(Nat)]
  BY <1>2
<1>3. CASE c \in [call : {"status"}, arg : Statuses, text : {<< >>}]
  <2>1. c.call = "status" /\ c.arg \in Statuses /\ c.text = << >>
    BY <1>3
  <2> QED
    BY <1>0, <2>1
<1>4. CASE c \in [call : {"dirty", "label", "input", "render"}, arg : {""}, text : {<< >>}]
  <2>1. c.call \in {"dirty", "label", "input", "render"} /\ c.text = << >>
    BY <1>4
  <2> QED
    BY <1>0, <2>1
<1> QED
  BY <1>1, <1>2, <1>3, <1>4 DEF Calls

LEMMA NextCallTypes ==
  ASSUME todo \in Seq(Calls), todo # << >>
  PROVE  /\ NextCall \in Calls /\ Tail(todo) \in Seq(Calls)
         /\ NextCall.text \in Seq(Nat)
         /\ NextCall.call = "push" => NextCall.arg \in Kinds
         /\ NextCall.call = "status" => NextCall.arg \in Statuses
<1>1. NextCall \in Calls /\ Tail(todo) \in Seq(Calls)
  BY DEF NextCall
<1> HIDE DEF NextCall
<1> QED
  BY <1>1, CallParts

LEMMA Scripts ==
  ASSUME NEW given0 \in Nat, NEW kind \in Kinds, NEW shape \in Texts
  PROVE  /\ Push(kind, Numbered(shape, given0)) \in Calls
         /\ AppendText(Numbered(shape, given0)) \in Calls
         /\ given0 + Letters(shape) \in Nat
<1>1. Numbered(shape, given0) \in Seq(Nat) /\ Letters(shape) \in Nat
  BY NumberedType, LettersCount
<1> QED
  BY <1>1, CallTypes

LEMMA OverflowType ==
  ASSUME NEW text \in Seq(Nat), NEW r \in Nat, ~(Len(text) <= r)
  PROVE  Overflow(text, r) \in Seq(Nat)
<1>1. r + 1 \in 1..Len(text)
  OBVIOUS
<1> QED
  BY <1>1 DEF Overflow

LEMMA SomeLine == ASSUME RingTypeOK, size # 0 PROVE size > 0
<1>1. size \in 0..Capacity
  BY DEF RingTypeOK
<1> QED
  BY <1>1, Sizes

LEMMA TypeInit == Init => TypeOK
<1> SUFFICES ASSUME Init PROVE TypeOK
  OBVIOUS
<1>1. RingInit
  BY DEF Init
<1>2. RingTypeOK
  BY <1>1, Sizes DEF RingInit, RingTypeOK
<1>3. /\ phase \in Phases /\ todo \in Seq(Calls) /\ active \in Profiles /\ given \in Nat
      /\ status \in Statuses /\ label \in Profiles \cup {""} /\ dirty \in BOOLEAN
  <2>1. << >> \in Seq(Calls) /\ "off" \in Phases /\ "boot" \in Statuses
    BY DEF Phases, Statuses
  <2>2. /\ phase = "off" /\ todo = << >> /\ active \in Profiles
        /\ status = "boot" /\ label = "" /\ dirty = TRUE /\ given = 0
    BY DEF Init
  <2> QED
    BY <2>1, <2>2
<1>4. input \in 0..MaxInput /\ shownInput \in 0..MaxInput /\ boots \in 0..MaxBoots
  <2>1. input = 0 /\ shownInput = 0 /\ boots = 0
    BY DEF Init
  <2> QED
    BY <2>1, ScreenAssumption
<1> QED
  BY <1>2, <1>3, <1>4 DEF TypeOK

LEMMA TypeCalling == TypeOK /\ Calling => TypeOK'
<1> SUFFICES ASSUME TypeOK, Calling PROVE TypeOK'
  OBVIOUS
<1> USE DEF TypeOK
<1>0. /\ todo # << >> /\ NextCall \in Calls /\ Tail(todo) \in Seq(Calls)
      /\ NextCall.text \in Seq(Nat)
      /\ NextCall.call = "push" => NextCall.arg \in Kinds
      /\ NextCall.call = "status" => NextCall.arg \in Statuses
  <2>1. todo # << >>
    BY DEF Calling, PushLine, AppendToLast, Mark, ShowStatus, ShowLabel, ShowInput, Render, IsNext
  <2> QED
    BY <2>1, NextCallTypes
<1>1. CASE PushLine
  <2>1. NextCall.call = "push" /\ NextCall.arg \in Kinds
    BY <1>0, <1>1 DEF PushLine, IsNext
  <2>a. PICK kind \in Kinds, text \in Seq(Nat) : kind = NextCall.arg /\ text = NextCall.text
    BY <1>0, <2>1
  <2>2. RingTypeOK'
    <3>1. PushOne(kind, SubSeq(text, 1, Cut(text)))
      BY <1>1, <2>a DEF PushLine
    <3> QED
      BY <3>1, CutWidth, PushTypes
  <2>3. todo' \in Seq(Calls)
    <3>1. Push("system", Remainder(text)) \in Calls
      BY RemainderType, CallTypes, KindsKnown
    <3>2. \/ todo' = Tail(todo)
          \/ todo' = <<Push("system", Remainder(text))>> \o Tail(todo)
      BY <1>1, <2>a DEF PushLine
    <3> QED
      BY <1>0, <3>1, <3>2, FirstType
  <2> QED
    BY <1>1, <2>2, <2>3 DEF PushLine, viewVars, mainVars
<1>2. CASE AppendToLast
  <2> DEFINE text == NextCall.text
             room == Room(lines[Slot(size - 1)])
  <2>1. RingTypeOK'
    BY <1>0, <1>2, AppendSteps DEF AppendToLast
  <2>a. PICK t \in Seq(Nat) : t = text
    BY <1>0
  <2>2. todo' \in Seq(Calls)
    <3>1. Push("system", t) \in Calls
      BY CallTypes, KindsKnown
    <3>2. CASE size # 0
      <4>0. size > 0
        BY <3>2, SomeLine
      <4>1. PICK r \in Nat : r = room
        BY <4>0, RoomType
      <4>2. ASSUME ~(Len(t) <= r) PROVE Push("system", Overflow(t, r)) \in Calls
        <5>1. Overflow(t, r) \in Seq(Nat)
          BY <4>2, OverflowType
        <5> QED
          BY <5>1, CallTypes, KindsKnown
      <4>3. todo' = IF Len(t) <= r THEN Tail(todo)
                    ELSE <<Push("system", Overflow(t, r))>> \o Tail(todo)
        <5> HIDE DEF text, room
        <5>2. IF Len(text) <= room THEN todo' = Tail(todo)
              ELSE todo' = <<Push("system", Overflow(text, room))>> \o Tail(todo)
          BY <1>2, <3>2, Zenon DEF AppendToLast, Done, text, room
        <5> QED
          BY <2>a, <4>1, <5>2
      <4> QED
        BY <1>0, <4>2, <4>3, FirstType
    <3>3. CASE size = 0
      <4>1. todo' = <<Push("system", t)>> \o Tail(todo)
        BY <1>2, <2>a, <3>3 DEF AppendToLast
      <4> QED
        BY <1>0, <3>1, <4>1, FirstType
    <3> QED
      BY <3>2, <3>3
  <2> QED
    BY <1>2, <2>1, <2>2 DEF AppendToLast, viewVars, mainVars
<1>3. CASE Mark
  BY <1>0, <1>3 DEF Mark, Done, ringVars, mainVars, RingTypeOK
<1>4. CASE ShowStatus
  BY <1>0, <1>4 DEF ShowStatus, Done, IsNext, ringVars, mainVars, RingTypeOK
<1>5. CASE ShowLabel
  BY <1>0, <1>5 DEF ShowLabel, Done, ringVars, mainVars, RingTypeOK
<1>6. CASE ShowInput
  BY <1>0, <1>6 DEF ShowInput, Done, ringVars, mainVars, RingTypeOK
<1>7. CASE Render
  BY <1>0, <1>7 DEF Render, Done, ringVars, mainVars, RingTypeOK
<1> QED
  BY <1>1, <1>2, <1>3, <1>4, <1>5, <1>6, <1>7 DEF Calling

LEMMA ConcatType == ASSUME NEW S, NEW s \in Seq(S), NEW t \in Seq(S) PROVE s \o t \in Seq(S)
OBVIOUS

LEMMA Tuples ==
  ASSUME NEW S, NEW a1 \in S, NEW a2 \in S, NEW a3 \in S, NEW a4 \in S
  PROVE  /\ <<a1>> \in Seq(S) /\ <<a1, a2>> \in Seq(S) /\ <<a1, a2, a3>> \in Seq(S)
         /\ <<a1, a2, a3, a4>> \in Seq(S)
OBVIOUS

\* The calls every handler is made of.
LEMMA Parts ==
  /\ MarkDirty \in Calls /\ SetLabel \in Calls /\ RenderCall \in Calls
  /\ \A s \in {"wifi", "wg", "ready", "sending", "error"} :
       SetStatus(s) \in Calls /\ <<SetStatus(s)>> \in Seq(Calls)
  /\ Redraw \in Seq(Calls) /\ << >> \in Seq(Calls)
BY CallTypes DEF Statuses

LEMMA Numbers ==
  ASSUME TypeOK
  PROVE  /\ given \in Nat /\ input \in 0..MaxInput /\ 0 \in 0..MaxInput /\ phase \in Phases
         /\ boots \in 0..MaxBoots /\ MaxInput \in Nat /\ MaxBoots \in Nat
<1>1. MaxInput \in Nat /\ MaxBoots \in Nat
  BY ScreenAssumption
<1>2. 0 \in 0..MaxInput
  BY <1>1
<1> QED
  BY <1>1, <1>2 DEF TypeOK

LEMMA Kept ==
  ASSUME TypeOK, Keep
  PROVE  /\ RingTypeOK' /\ active' \in Profiles /\ boots' \in 0..MaxBoots
         /\ label' \in Profiles \cup {""} /\ status' \in Statuses /\ dirty' \in BOOLEAN
         /\ shownInput' \in 0..MaxInput
<1>1. RingTypeOK'
  BY DEF TypeOK, Keep, RingTypeOK, ringVars
<1> QED
  BY <1>1 DEF TypeOK, Keep, viewVars

LEMMA TypeOf ==
  ASSUME TypeOK, Keep, phase' \in Phases, todo' \in Seq(Calls), input' \in 0..MaxInput,
         given' \in Nat
  PROVE  TypeOK'
BY Kept DEF TypeOK

LEMMA TypeSetup ==
  ASSUME TypeOK, NEW shape \in Texts,
         SetupDone(shape) \/ \E s \in {"wifi", "wg"} : SetupFails(s, shape)
  PROVE  TypeOK'
<1> DEFINE said(kind) == Push(kind, Numbered(shape, given))
<1>1. said("error") \in Calls /\ said("system") \in Calls /\ given + Letters(shape) \in Nat
  BY Scripts, KindsKnown DEF TypeOK
<1> HIDE DEF said
<1>2. CASE SetupDone(shape)
  <2>1. todo' = <<SetStatus("wg")>> \o Redraw
                \o <<SetLabel, said("system"), MarkDirty, SetStatus("ready")>> \o Redraw
    BY <1>2 DEF SetupDone, said
  <2>2. <<SetLabel, said("system"), MarkDirty, SetStatus("ready")>> \in Seq(Calls)
    BY <1>1, Parts, Tuples
  <2>3. todo' \in Seq(Calls)
    BY <2>1, <2>2, Parts, ConcatType
  <2> QED
    BY <1>1, <1>2, <2>3, TypeOf DEF SetupDone, TypeOK, Phases
<1>3. ASSUME NEW s \in {"wifi", "wg"}, SetupFails(s, shape) PROVE TypeOK'
  <2> DEFINE first == IF s = "wg" THEN <<SetStatus("wg")>> \o Redraw ELSE << >>
  <2>1. todo' = first \o <<said("error"), MarkDirty, SetStatus("error")>> \o Redraw
    BY <1>3 DEF SetupFails, said
  <2>2. <<said("error"), MarkDirty, SetStatus("error")>> \in Seq(Calls)
    BY <1>1, Parts, Tuples
  <2>3. first \in Seq(Calls)
    BY Parts, ConcatType
  <2> HIDE DEF first
  <2>4. todo' \in Seq(Calls)
    BY <2>1, <2>2, <2>3, Parts, ConcatType
  <2> QED
    BY <1>1, <1>3, <2>4, TypeOf DEF SetupFails, TypeOK, Phases
<1> QED
  BY <1>2, <1>3

LEMMA TypeTurn ==
  ASSUME TypeOK, NEW shape \in Texts, NEW prompt \in Texts,
         Send(shape, prompt) \/ Delta(shape) \/ TurnFails(shape)
  PROVE  TypeOK'
<1>0. given \in Nat /\ input \in 0..MaxInput /\ 0 \in 0..MaxInput
  BY Numbers
<1>1. given + Letters(shape) \in Nat
      /\ Push("user", Numbered(shape, given)) \in Calls
      /\ Push("error", Numbered(shape, given)) \in Calls
      /\ AppendText(Numbered(shape, given)) \in Calls
  BY <1>0, Scripts, KindsKnown
<1>2. CASE Send(shape, prompt)
  <2> DEFINE answer == Push("assistant", Numbered(prompt, given + Letters(shape)))
             question == Push("user", Numbered(shape, given))
  <2>1. answer \in Calls /\ given + Letters(shape) + Letters(prompt) \in Nat
    <3>1. PICK n \in Nat : n = given + Letters(shape)
      BY <1>1
    <3>2. Push("assistant", Numbered(prompt, n)) \in Calls /\ n + Letters(prompt) \in Nat
      BY Scripts, KindsKnown
    <3> QED
      BY <3>1, <3>2
  <2>2. todo' = <<question, answer, MarkDirty, SetStatus("sending")>> \o Redraw
    BY <1>2 DEF Send
  <2>3. question \in Calls
    BY <1>1
  <2> HIDE DEF answer, question
  <2>4. <<question, answer, MarkDirty, SetStatus("sending")>> \in Seq(Calls)
    BY <2>1, <2>3, Parts, Tuples
  <2>5. todo' \in Seq(Calls)
    BY <2>2, <2>4, Parts, ConcatType
  <2> QED
    BY <1>0, <1>2, <2>1, <2>5, TypeOf DEF Send, Phases
<1>3. CASE Delta(shape)
  <2>1. todo' \in Seq(Calls)
    BY <1>1, <1>3, Parts, Tuples DEF Delta, OnDelta
  <2>2. phase' \in Phases
    BY <1>3 DEF Delta, TypeOK
  <2> QED
    BY <1>0, <1>1, <1>3, <2>1, <2>2, TypeOf DEF Delta
<1>4. CASE TurnFails(shape)
  <2>1. <<Push("error", Numbered(shape, given)), MarkDirty, SetStatus("error")>> \in Seq(Calls)
    BY <1>1, Parts, Tuples
  <2>2. todo' \in Seq(Calls)
    BY <1>4, <2>1, Parts, ConcatType DEF TurnFails
  <2> QED
    BY <1>0, <1>1, <1>4, <2>2, TypeOf DEF TurnFails, Phases
<1> QED
  BY <1>2, <1>3, <1>4

LEMMA TypePower == ASSUME TypeOK, PowerOn \/ PowerOff PROVE TypeOK'
<1>1. RingTypeOK'
  BY ClearTypes DEF PowerOn, PowerOff
<1>2. CASE PowerOn
  <2>1. <<MarkDirty, RenderCall, SetLabel, SetStatus("wifi")>> \in Seq(Calls)
    BY Parts, Tuples
  <2>2. todo' \in Seq(Calls)
    BY <1>2, <2>1, Parts, ConcatType DEF PowerOn
  <2>3. boots' \in 0..MaxBoots
    <3>1. boots < MaxBoots /\ boots' = boots + 1
      BY <1>2 DEF PowerOn
    <3> QED
      BY <3>1, Numbers
  <2>4. phase' \in Phases
    BY <1>2 DEF PowerOn, Phases
  <2> QED
    BY <1>1, <1>2, <2>2, <2>3, <2>4 DEF PowerOn, TypeOK, viewVars
<1>3. CASE PowerOff
  <2>1. /\ phase' = "off" /\ todo' = << >> /\ input' = 0 /\ given' = 0 /\ status' = "boot"
        /\ label' = "" /\ shownInput' = 0 /\ dirty' = TRUE /\ active' = active /\ boots' = boots
    BY <1>3 DEF PowerOff
  <2>2. /\ "off" \in Phases /\ << >> \in Seq(Calls) /\ "boot" \in Statuses
        /\ "" \in Profiles \cup {""} /\ TRUE \in BOOLEAN /\ 0 \in Nat
    BY DEF Phases, Statuses
  <2>3. /\ phase' \in Phases /\ todo' \in Seq(Calls) /\ status' \in Statuses
        /\ label' \in Profiles \cup {""} /\ dirty' \in BOOLEAN /\ given' \in Nat
    BY <2>1, <2>2
  <2>4. /\ input' \in 0..MaxInput /\ shownInput' \in 0..MaxInput /\ boots' \in 0..MaxBoots
    BY <2>1, Numbers
  <2> QED
    BY <1>1, <2>1, <2>3, <2>4 DEF TypeOK
<1> QED
  BY <1>2, <1>3

LEMMA TypeViews ==
  ASSUME TypeOK, OpenView \/ CloseView \/ \E id \in Profiles, shape \in Texts : Pick(id, shape)
  PROVE  TypeOK'
<1>1. CASE OpenView
  BY <1>1 DEF OpenView, TypeOK, RingTypeOK, ringVars, Phases
<1>2. CASE CloseView
  <2>1. todo' \in Seq(Calls)
    BY <1>2, Parts, Tuples, ConcatType DEF CloseView
  <2> QED
    BY <1>2, <2>1, TypeOf DEF CloseView, TypeOK, Phases
<1>3. ASSUME NEW id \in Profiles, NEW shape \in Texts, Pick(id, shape) PROVE TypeOK'
  <2>1. Push("system", Numbered(shape, given)) \in Calls /\ given + Letters(shape) \in Nat
    BY Scripts, KindsKnown DEF TypeOK
  <2>2. <<SetLabel, Push("system", Numbered(shape, given)), MarkDirty>> \in Seq(Calls)
    BY <2>1, Parts, Tuples
  <2>3. todo' \in Seq(Calls)
    BY <1>3, <2>2, Parts, ConcatType DEF Pick
  <2>4. RingTypeOK' /\ phase' \in Phases
    BY <1>3 DEF Pick, TypeOK, RingTypeOK, ringVars, Phases
  <2> QED
    BY <1>3, <2>1, <2>3, <2>4 DEF Pick, TypeOK, viewVars
<1> QED
  BY <1>1, <1>2, <1>3

LEMMA TypeLoop ==
  ASSUME TypeOK, ReconnectWifi \/ RestartTunnel \/ Heartbeat \/ Type \/ Backspace \/ TurnEnds
  PROVE  TypeOK'
<1>0. given \in Nat /\ input \in 0..MaxInput /\ 0 \in 0..MaxInput /\ phase \in Phases
      /\ MaxInput \in Nat /\ "idle" \in Phases
  BY Numbers DEF Phases
<1>1. CASE ReconnectWifi
  BY <1>0, <1>1, Parts, ConcatType, TypeOf DEF ReconnectWifi
<1>2. CASE RestartTunnel
  BY <1>0, <1>2, Parts, ConcatType, TypeOf DEF RestartTunnel
<1>3. CASE Heartbeat
  BY <1>0, <1>3, Parts, ConcatType, TypeOf DEF Heartbeat
<1>4. CASE Type
  <2>1. input' \in 0..MaxInput
    BY <1>0, <1>4 DEF Type
  <2> QED
    BY <1>0, <1>4, <2>1, Parts, TypeOf DEF Type
<1>5. CASE Backspace
  <2>1. input' \in 0..MaxInput
    BY <1>0, <1>5 DEF Backspace
  <2> QED
    BY <1>0, <1>5, <2>1, Parts, TypeOf DEF Backspace
<1>6. CASE TurnEnds
  BY <1>0, <1>6, Parts, ConcatType, TypeOf DEF TurnEnds
<1> QED
  BY <1>1, <1>2, <1>3, <1>4, <1>5, <1>6

LEMMA TypeHandling == TypeOK /\ Handling => TypeOK'
<1> SUFFICES ASSUME TypeOK, Handling PROVE TypeOK'
  OBVIOUS
<1>1. CASE \E shape \in Texts :
             \/ \E s \in {"wifi", "wg"} : SetupFails(s, shape)
             \/ SetupDone(shape)
  BY <1>1, TypeSetup
<1>2. CASE \E shape \in Texts :
             Delta(shape) \/ TurnFails(shape) \/ \E prompt \in Texts : Send(shape, prompt)
  BY <1>2, TypeTurn
<1>3. CASE PowerOn \/ PowerOff
  BY <1>3, TypePower
<1>4. CASE OpenView \/ CloseView \/ \E id \in Profiles, shape \in Texts : Pick(id, shape)
  BY <1>4, TypeViews
<1>5. CASE ReconnectWifi \/ RestartTunnel \/ Heartbeat \/ Type \/ Backspace \/ TurnEnds
  BY <1>5, TypeLoop
<1> QED
  BY <1>1, <1>2, <1>3, <1>4, <1>5 DEF Handling

LEMMA TypeStutters == TypeOK /\ UNCHANGED vars => TypeOK'
BY DEF TypeOK, vars, RingTypeOK, ringVars, viewVars, mainVars

(* The ring's indices and lines, the calls still to make and the view stay *)
(* in their types: in particular no line is ever wider than the display.   *)
THEOREM ScreenTypeCorrect == Spec => []TypeOK
<1>1. TypeOK /\ [Next]_vars => TypeOK'
  BY TypeCalling, TypeHandling, TypeStutters DEF Next
<1> QED
  BY TypeInit, <1>1, PTL DEF Spec

----------------------------------------------------------------------------
(* The window                                                              *)

LEMMA WindowStep == TypeOK /\ [Next]_vars => [View!WindowNext]_Window
<1> SUFFICES ASSUME TypeOK, [Next]_vars PROVE [View!WindowNext]_Window
  OBVIOUS
<1>0. UNCHANGED ringVars => UNCHANGED Window
  BY DEF ringVars, Window, Slot
<1>1. CASE PushLine
  <2>1. NextCall.call = "push" /\ todo # << >>
    BY <1>1 DEF PushLine, IsNext
  <2>2. NextCall.text \in Seq(Nat) /\ NextCall.arg \in Kinds
    BY <2>1, NextCallTypes DEF TypeOK
  <2>3. PICK kind \in Kinds, text \in Seq(Nat) : kind = NextCall.arg /\ text = NextCall.text
    BY <2>2
  <2>4. PushOne(kind, SubSeq(text, 1, Cut(text)))
    BY <1>1, <2>3 DEF PushLine
  <2>5. View!AddLine
    BY <2>4, CutWidth, PushAdds DEF TypeOK
  <2> QED
    BY <2>5 DEF View!WindowNext
<1>2. CASE AppendToLast
  <2>1. NextCall.text \in Seq(Nat)
    BY <1>2, NextCallTypes DEF TypeOK, AppendToLast, IsNext
  <2>2. View!Extend \/ UNCHANGED ringVars
    BY <1>2, <2>1, AppendSteps DEF TypeOK
  <2> QED
    BY <1>0, <2>2 DEF View!WindowNext
<1>3. CASE PowerOn \/ PowerOff
  BY <1>3, ClearTypes DEF PowerOn, PowerOff, View!WindowNext, View!Erase
<1>4. CASE Mark \/ ShowStatus \/ ShowLabel \/ ShowInput \/ Render
  BY <1>0, <1>4 DEF Mark, ShowStatus, ShowLabel, ShowInput, Render
<1>5. CASE ReconnectWifi \/ RestartTunnel \/ Heartbeat \/ Type \/ Backspace \/ TurnEnds
           \/ OpenView \/ CloseView
  BY <1>0, <1>5 DEF ReconnectWifi, RestartTunnel, Heartbeat, Type, Backspace, TurnEnds,
                    OpenView, CloseView, Keep
<1>6. ASSUME NEW shape \in Texts,
             \/ \E s \in {"wifi", "wg"} : SetupFails(s, shape)
             \/ SetupDone(shape) \/ Delta(shape) \/ TurnFails(shape)
             \/ \E id \in Profiles : Pick(id, shape)
             \/ \E prompt \in Texts : Send(shape, prompt)
      PROVE  UNCHANGED ringVars
  BY <1>6 DEF SetupFails, SetupDone, Delta, TurnFails, Pick, Send, Keep
<1>7. CASE UNCHANGED vars
  BY <1>0, <1>7 DEF vars
<1> QED
  BY <1>0, <1>1, <1>2, <1>3, <1>4, <1>5, <1>6, <1>7 DEF Next, Calling, Handling

(* scrollback.h promises indices "0 = oldest still-present line": however  *)
(* often the slots have wrapped, what is shown is the newest lines in      *)
(* order, and a line once shown only grows, while it is the last.          *)
THEOREM ScreenImplements == Spec => ImplementsWindow
<1>1. Init => View!WindowInit
  <2>1. Init => size = 0
    BY DEF Init, RingInit
  <2>2. size = 0 => Window = << >>
    BY DEF Window
  <2> QED
    BY <2>1, <2>2 DEF View!WindowInit
<1> QED
  BY <1>1, WindowStep, ScreenTypeCorrect, PTL DEF Spec, ImplementsWindow, View!WindowSpec

----------------------------------------------------------------------------
(* The display is current: whatever changes the image is followed by a     *)
(* call that marks it, and every mark by one that paints.                  *)

Adding == {"push", "append"}
Marks  == {"dirty", "status", "label", "input"}

HasCall(q, names) == \E i \in 1..Len(q) : q[i].call \in names

Followed(q, names, by) ==
  \A i \in 1..Len(q) : q[i].call \in names => \E j \in 1..Len(q) : j > i /\ q[j].call \in by

Settles(q) == Followed(q, Adding, Marks) /\ Followed(q, Marks, {"render"})

PaintInv ==
  /\ dirty /\ phase \notin {"off", "view"} => HasCall(todo, {"render"})
  /\ phase \in {"setup", "idle", "reply"} => painted = Image \/ dirty \/ HasCall(todo, Marks)
  /\ phase = "view" => ~dirty /\ todo = << >>

ShownInv ==
  phase # "off" => /\ label = active \/ HasCall(todo, {"label"})
                   /\ shownInput = input \/ HasCall(todo, {"input"})

CurrentInv == Settles(todo) /\ PaintInv /\ ShownInv

\* What remains when the first call is made.
LEMMA RestHas ==
  ASSUME NEW q \in Seq(Calls), q # << >>, NEW names, HasCall(q, names)
  PROVE  Head(q).call \in names \/ HasCall(Tail(q), names)
<1>1. /\ Len(q) \in Nat /\ Len(Tail(q)) = Len(q) - 1 /\ Head(q) = q[1]
      /\ \A i \in 1..Len(Tail(q)) : Tail(q)[i] = q[i + 1]
  OBVIOUS
<1>2. PICK i \in 1..Len(q) : q[i].call \in names
  BY DEF HasCall
<1>3. CASE i = 1
  BY <1>1, <1>2, <1>3
<1>4. CASE i # 1
  <2>1. i - 1 \in 1..Len(Tail(q)) /\ (i - 1) + 1 = i
    BY <1>1, <1>4
  <2>2. Tail(q)[i - 1] = q[i]
    BY <1>1, <2>1
  <2> QED
    BY <1>2, <2>1, <2>2 DEF HasCall
<1> QED
  BY <1>3, <1>4

LEMMA RestFollowed ==
  ASSUME NEW q \in Seq(Calls), q # << >>, NEW names, NEW by, Followed(q, names, by)
  PROVE  /\ Followed(Tail(q), names, by)
         /\ Head(q).call \in names => HasCall(Tail(q), by)
<1>1. /\ Len(q) \in Nat /\ Len(q) > 0 /\ Len(Tail(q)) = Len(q) - 1 /\ Head(q) = q[1]
      /\ \A i \in 1..Len(Tail(q)) : Tail(q)[i] = q[i + 1] /\ i + 1 \in 1..Len(q)
  OBVIOUS
<1>2. ASSUME NEW i \in 1..Len(q), q[i].call \in names
      PROVE  \E j \in 1..Len(Tail(q)) : j > i - 1 /\ Tail(q)[j].call \in by
  <2>1. PICK j \in 1..Len(q) : j > i /\ q[j].call \in by
    BY <1>2 DEF Followed
  <2>2. j - 1 \in 1..Len(Tail(q)) /\ j - 1 > i - 1 /\ (j - 1) + 1 = j
    BY <1>1, <2>1
  <2>3. Tail(q)[j - 1] = q[j]
    BY <1>1, <2>2
  <2> QED
    BY <2>1, <2>2, <2>3
<1>3. Followed(Tail(q), names, by)
  <2> SUFFICES ASSUME NEW i \in 1..Len(Tail(q)), Tail(q)[i].call \in names
               PROVE  \E j \in 1..Len(Tail(q)) : j > i /\ Tail(q)[j].call \in by
    BY DEF Followed
  <2>1. i + 1 \in 1..Len(q) /\ q[i + 1].call \in names /\ (i + 1) - 1 = i
    BY <1>1
  <2> QED
    BY <1>2, <2>1
<1>4. ASSUME Head(q).call \in names PROVE HasCall(Tail(q), by)
  <2>1. 1 \in 1..Len(q) /\ q[1].call \in names
    BY <1>1, <1>4
  <2> QED
    BY <1>2, <2>1 DEF HasCall
<1> QED
  BY <1>3, <1>4

\* A call put in front.
LEMMA FirstOf ==
  ASSUME NEW c, NEW q \in Seq(Calls)
  PROVE  /\ Len(<<c>> \o q) = Len(q) + 1 /\ Len(q) \in Nat /\ (<<c>> \o q)[1] = c
         /\ \A i \in 1..Len(q) : (<<c>> \o q)[i + 1] = q[i]
<1> DEFINE S == Calls \cup {c}
<1>1. q \in Seq(S) /\ c \in S
  OBVIOUS
<1> HIDE DEF S
<1> QED
  BY <1>1

LEMMA FrontHas ==
  ASSUME NEW c, NEW q \in Seq(Calls), NEW names, HasCall(q, names)
  PROVE  HasCall(<<c>> \o q, names)
<1>1. PICK i \in 1..Len(q) : q[i].call \in names
  BY DEF HasCall
<1>2. i + 1 \in 1..Len(<<c>> \o q) /\ (<<c>> \o q)[i + 1] = q[i]
  BY FirstOf
<1> QED
  BY <1>1, <1>2 DEF HasCall

LEMMA FrontFollowed ==
  ASSUME NEW c, NEW q \in Seq(Calls), NEW names, NEW by, Followed(q, names, by),
         c.call \in names => HasCall(q, by)
  PROVE  Followed(<<c>> \o q, names, by)
<1> DEFINE r == <<c>> \o q
<1>1. /\ Len(r) = Len(q) + 1 /\ Len(q) \in Nat /\ r[1] = c
      /\ \A i \in 1..Len(q) : r[i + 1] = q[i]
  BY FirstOf
<1> HIDE DEF r
<1>2. ASSUME NEW i \in 1..Len(r), r[i].call \in names
      PROVE  \E j \in 1..Len(r) : j > i /\ r[j].call \in by
  <2>1. CASE i = 1
    <3>1. PICK j \in 1..Len(q) : q[j].call \in by
      BY <1>1, <1>2, <2>1 DEF HasCall
    <3>2. j + 1 \in 1..Len(r) /\ j + 1 > 1 /\ r[j + 1] = q[j]
      BY <1>1
    <3> QED
      BY <2>1, <3>1, <3>2
  <2>2. CASE i # 1
    <3>1. i - 1 \in 1..Len(q) /\ (i - 1) + 1 = i
      BY <1>1, <2>2
    <3>2. q[i - 1].call \in names
      BY <1>1, <1>2, <3>1
    <3>3. PICK j \in 1..Len(q) : j > i - 1 /\ q[j].call \in by
      BY <3>1, <3>2 DEF Followed
    <3>4. j + 1 \in 1..Len(r) /\ j + 1 > i /\ r[j + 1] = q[j]
      BY <1>1, <3>1, <3>3
    <3> QED
      BY <3>3, <3>4
  <2> QED
    BY <2>1, <2>2
<1>3. Followed(r, names, by)
  BY <1>2 DEF Followed
<1> QED
  BY <1>3 DEF r

LEMMA Joined ==
  ASSUME NEW S, NEW s \in Seq(S), NEW t \in Seq(S)
  PROVE  /\ s \o t \in Seq(S) /\ Len(s \o t) = Len(s) + Len(t)
         /\ Len(s) \in Nat /\ Len(t) \in Nat
         /\ \A i \in 1..Len(s) : (s \o t)[i] = s[i]
         /\ \A i \in 1..Len(t) : (s \o t)[Len(s) + i] = t[i]
OBVIOUS

\* redraw() at the end of a handler settles whatever came before it.
LEMMA RedrawSettles ==
  ASSUME NEW s \in Seq(Calls)
  PROVE  /\ s \o Redraw \in Seq(Calls) /\ Settles(s \o Redraw)
         /\ HasCall(s \o Redraw, {"input"}) /\ HasCall(s \o Redraw, {"render"})
         /\ HasCall(s \o Redraw, Marks)
         /\ \A names : HasCall(s, names) => HasCall(s \o Redraw, names)
<1> DEFINE q == s \o Redraw
           n == Len(s)
<1>1. /\ Redraw \in Seq(Calls) /\ Len(Redraw) = 2
      /\ Redraw[1].call = "input" /\ Redraw[2].call = "render"
  BY CallTypes DEF Redraw, SetInput, RenderCall, Call
<1>2. /\ n \in Nat /\ q \in Seq(Calls) /\ Len(q) = n + 2
      /\ \A i \in 1..n : q[i] = s[i]
      /\ q[n + 1] = Redraw[1] /\ q[n + 2] = Redraw[2]
  <2>1. /\ n \in Nat /\ q \in Seq(Calls) /\ Len(q) = n + Len(Redraw)
        /\ \A i \in 1..n : q[i] = s[i]
        /\ \A i \in 1..Len(Redraw) : q[n + i] = Redraw[i]
    BY <1>1, Joined
  <2> HIDE DEF q, n
  <2> QED
    BY <1>1, <2>1
<1> HIDE DEF q, n
<1>3. /\ n + 1 \in 1..Len(q) /\ n + 2 \in 1..Len(q) /\ n + 2 > n + 1
      /\ q[n + 1].call = "input" /\ q[n + 2].call = "render"
  BY <1>1, <1>2
<1>4. Followed(q, Adding, Marks)
  <2> SUFFICES ASSUME NEW i \in 1..Len(q), q[i].call \in Adding
               PROVE  \E j \in 1..Len(q) : j > i /\ q[j].call \in Marks
    BY DEF Followed
  <2>1. i # n + 1 /\ i # n + 2
    BY <1>3 DEF Adding
  <2>2. n + 1 > i
    BY <1>2, <2>1
  <2> QED
    BY <1>3, <2>2 DEF Marks
<1>5. Followed(q, Marks, {"render"})
  <2> SUFFICES ASSUME NEW i \in 1..Len(q), q[i].call \in Marks
               PROVE  \E j \in 1..Len(q) : j > i /\ q[j].call \in {"render"}
    BY DEF Followed
  <2>1. i # n + 2
    BY <1>3 DEF Marks
  <2>2. n + 2 > i
    BY <1>2, <2>1
  <2> QED
    BY <1>3, <2>2
<1>6. HasCall(q, {"input"}) /\ HasCall(q, {"render"}) /\ HasCall(q, Marks)
  BY <1>3 DEF HasCall, Marks
<1>7. ASSUME NEW names, HasCall(s, names) PROVE HasCall(q, names)
  <2>1. PICK i \in 1..n : s[i].call \in names
    BY <1>7 DEF HasCall, n
  <2>2. i \in 1..Len(q) /\ q[i] = s[i]
    BY <1>2
  <2> QED
    BY <2>1, <2>2 DEF HasCall
<1> QED
  BY <1>2, <1>4, <1>5, <1>6, <1>7 DEF Settles, q

\* Handlers that end in redraw().
LEMMA HandlerCurrent ==
  ASSUME NEW s \in Seq(Calls), todo' = s \o Redraw, phase' \in {"setup", "idle", "reply"},
         label' = active' \/ HasCall(s, {"label"})
  PROVE  CurrentInv'
<1>1. /\ Settles(todo') /\ HasCall(todo', {"input"}) /\ HasCall(todo', {"render"})
      /\ HasCall(todo', Marks) /\ (label' = active' \/ HasCall(todo', {"label"}))
  BY RedrawSettles
<1> QED
  BY <1>1 DEF CurrentInv, PaintInv, ShownInv

LEMMA NothingWaits == \A names : ~HasCall(<< >>, names)
BY DEF HasCall

LEMMA KeepCurrent ==
  ASSUME CurrentInv, todo = << >>, phase # "off", Keep, NEW s \in Seq(Calls),
         todo' = s \o Redraw, phase' \in {"setup", "idle", "reply"}
  PROVE  CurrentInv'
<1>1. label = active /\ label' = active'
  BY NothingWaits DEF CurrentInv, ShownInv, Keep, viewVars
<1> QED
  BY <1>1, HandlerCurrent

LEMMA SettledRest ==
  ASSUME NEW q \in Seq(Calls), q # << >>, Settles(q)
  PROVE  /\ Settles(Tail(q))
         /\ Head(q).call \in Adding => HasCall(Tail(q), Marks)
         /\ Head(q).call \in Marks => HasCall(Tail(q), {"render"})
  BY RestFollowed DEF Settles

\* A line pushed, or a delta appended: the image changes, and a mark follows.
LEMMA AddingCurrent ==
  ASSUME TypeOK, CurrentInv, PushLine \/ AppendToLast
  PROVE  CurrentInv'
<1>1. /\ todo \in Seq(Calls) /\ todo # << >> /\ Tail(todo) \in Seq(Calls)
      /\ Head(todo).call \in Adding /\ Head(todo).text \in Seq(Nat)
      /\ UNCHANGED <<phase, dirty, label, active, shownInput, input>>
  BY NextCallTypes DEF TypeOK, PushLine, AppendToLast, IsNext, NextCall, Adding, viewVars, mainVars
<1>2. /\ Settles(Tail(todo)) /\ HasCall(Tail(todo), Marks)
  BY <1>1, SettledRest DEF CurrentInv
<1>3. (dirty /\ phase \notin {"off", "view"}) => HasCall(Tail(todo), {"render"})
  BY <1>1, RestHas DEF CurrentInv, PaintInv, Adding
<1>10. phase # "view"
  BY <1>1 DEF CurrentInv, PaintInv
<1>11. phase # "off" => (label = active \/ HasCall(Tail(todo), {"label"}))
  BY <1>1, RestHas DEF CurrentInv, ShownInv, Adding
<1>12. phase # "off" => (shownInput = input \/ HasCall(Tail(todo), {"input"}))
  BY <1>1, RestHas DEF CurrentInv, ShownInv, Adding
<1>9. ASSUME Settles(todo'), HasCall(todo', Marks),
             \A names : HasCall(Tail(todo), names) => HasCall(todo', names)
      PROVE  CurrentInv'
  <2>1. PaintInv'
    BY <1>1, <1>3, <1>9, <1>10 DEF PaintInv
  <2>2. ShownInv'
    <3>1. phase' # "off" => (label' = active' \/ HasCall(todo', {"label"}))
      BY <1>1, <1>9, <1>11
    <3>2. phase' # "off" => (shownInput' = input' \/ HasCall(todo', {"input"}))
      BY <1>1, <1>9, <1>12
    <3> QED
      BY <3>1, <3>2 DEF ShownInv
  <2> QED
    BY <1>9, <2>1, <2>2 DEF CurrentInv
<1>4. ASSUME NEW c, c.call = "push", todo' = <<c>> \o Tail(todo)
      PROVE  CurrentInv'
  <2> DEFINE q == Tail(todo)
  <2>1. q \in Seq(Calls) /\ todo' = <<c>> \o q /\ Settles(q) /\ HasCall(q, Marks)
    BY <1>1, <1>2, <1>4
  <2>2. Settles(todo') /\ HasCall(todo', Marks)
    <3> HIDE DEF q
    <3>1. c.call \in Adding => HasCall(q, Marks)
      BY <2>1
    <3>2. c.call \notin Marks
      BY <1>4 DEF Marks
    <3> QED
      BY <2>1, <3>1, <3>2, FrontFollowed, FrontHas DEF Settles
  <2>3. \A names : HasCall(q, names) => HasCall(todo', names)
    BY <2>1, FrontHas
  <2> QED
    BY <1>9, <2>2, <2>3
<1>5. ASSUME todo' = Tail(todo) PROVE CurrentInv'
  BY <1>2, <1>5, <1>9
<1>6. \A text : Push("system", text).call = "push"
  BY DEF Push, Call
<1>7. CASE PushLine
  <2>1. \/ todo' = Tail(todo)
        \/ todo' = <<Push("system", Remainder(NextCall.text))>> \o Tail(todo)
    BY <1>7 DEF PushLine
  <2> QED
    BY <1>4, <1>5, <1>6, <2>1
<1>8. CASE AppendToLast
  <2> DEFINE text == NextCall.text
             room == Room(lines[Slot(size - 1)])
  <2>1. \/ todo' = Tail(todo)
        \/ todo' = <<Push("system", text)>> \o Tail(todo)
        \/ todo' = <<Push("system", Overflow(text, room))>> \o Tail(todo)
    BY <1>8, Zenon DEF AppendToLast, Done
  <2> HIDE DEF text, room
  <2> QED
    BY <1>4, <1>5, <1>6, <2>1
<1> QED
  BY <1>7, <1>8

\* A mark: something that paints follows.
LEMMA MarkingCurrent ==
  ASSUME TypeOK, CurrentInv, Mark \/ ShowStatus \/ ShowLabel \/ ShowInput
  PROVE  CurrentInv'
<1>1. /\ todo \in Seq(Calls) /\ todo # << >> /\ todo' = Tail(todo)
      /\ Head(todo).call \in Marks /\ dirty' = TRUE
      /\ UNCHANGED <<phase, active, input>>
      /\ label' = active \/ (label' = label /\ Head(todo).call # "label")
      /\ shownInput' = input \/ (shownInput' = shownInput /\ Head(todo).call # "input")
  <2>0. todo \in Seq(Calls)
    BY DEF TypeOK
  <2>1. CASE Mark
    BY <2>0, <2>1 DEF Mark, IsNext, NextCall, Done, Marks, mainVars
  <2>2. CASE ShowStatus
    BY <2>0, <2>2 DEF ShowStatus, IsNext, NextCall, Done, Marks, mainVars
  <2>3. CASE ShowLabel
    BY <2>0, <2>3 DEF ShowLabel, IsNext, NextCall, Done, Marks, mainVars
  <2>4. CASE ShowInput
    BY <2>0, <2>4 DEF ShowInput, IsNext, NextCall, Done, Marks, mainVars
  <2> QED
    BY <2>1, <2>2, <2>3, <2>4
<1>2. Settles(todo') /\ HasCall(todo', {"render"}) /\ phase # "view"
  BY <1>1, SettledRest DEF CurrentInv, PaintInv
<1>3. ShownInv'
  BY <1>1, RestHas DEF CurrentInv, ShownInv
<1> QED
  BY <1>1, <1>2, <1>3 DEF CurrentInv, PaintInv

LEMMA RenderCurrent ==
  ASSUME TypeOK, CurrentInv, Render
  PROVE  CurrentInv'
<1>1. /\ todo \in Seq(Calls) /\ todo # << >> /\ todo' = Tail(todo)
      /\ Head(todo).call = "render" /\ dirty' = FALSE
      /\ painted' = IF dirty THEN Image ELSE painted
      /\ UNCHANGED <<phase, active, input, label, shownInput, status, ringVars>>
  BY DEF TypeOK, Render, IsNext, NextCall, Done, mainVars
<1>2. Image' = Image
  BY <1>1 DEF Image, LastLines, Window, Slot, ringVars
<1>3. HasCall(todo, Marks) => HasCall(todo', Marks)
  BY <1>1, RestHas DEF Marks
<1>4. Settles(todo')
  BY <1>1, SettledRest DEF CurrentInv
<1>5. ShownInv'
  BY <1>1, RestHas DEF CurrentInv, ShownInv
<1>6. PaintInv'
  BY <1>1, <1>2, <1>3 DEF CurrentInv, PaintInv
<1> QED
  BY <1>4, <1>5, <1>6 DEF CurrentInv

LEMMA DeltaCurrent ==
  ASSUME TypeOK, CurrentInv, NEW shape \in Texts, Delta(shape)
  PROVE  CurrentInv'
<1>1. /\ todo = << >> /\ phase = "reply" /\ UNCHANGED <<phase, input, active>>
      /\ UNCHANGED <<label, shownInput, dirty>>
      /\ todo' = <<AppendText(Numbered(shape, given)), MarkDirty, RenderCall>>
  BY DEF Delta, Ready, Keep, viewVars, OnDelta
<1> DEFINE c == AppendText(Numbered(shape, given))
<1>2. c.call = "append" /\ MarkDirty.call = "dirty" /\ RenderCall.call = "render"
  BY DEF AppendText, MarkDirty, RenderCall, Call
<1> HIDE DEF c
<1>3. todo' = <<c, MarkDirty, RenderCall>>
  BY <1>1 DEF c
<1>4. /\ Len(todo') = 3 /\ todo'[1].call = "append" /\ todo'[2].call = "dirty"
      /\ todo'[3].call = "render"
  BY <1>2, <1>3
<1>5. /\ Settles(todo') /\ HasCall(todo', {"render"}) /\ HasCall(todo', Marks)
  BY <1>4 DEF Settles, Followed, HasCall, Marks, Adding
<1>6. label = active /\ shownInput = input
  BY <1>1, NothingWaits DEF CurrentInv, ShownInv
<1> QED
  BY <1>1, <1>5, <1>6 DEF CurrentInv, PaintInv, ShownInv

\* Each handler is one of: some calls and redraw(), a delta, a view, the power.
LEMMA HandlersCurrent ==
  ASSUME TypeOK, CurrentInv, Handling
  PROVE  CurrentInv'
<1>0. given \in Nat /\ << >> \in Seq(Calls) /\ Redraw \in Seq(Calls)
  BY Parts DEF TypeOK
<1> DEFINE said(kind, shape) == Push(kind, Numbered(shape, given))
<1>1. \A shape \in Texts : \A kind \in {"system", "user", "assistant", "error"} :
        said(kind, shape) \in Calls
  BY <1>0, Scripts, KindsKnown
<1> HIDE DEF said
<1>2. CASE PowerOn
  <2> DEFINE s == <<MarkDirty, RenderCall, SetLabel, SetStatus("wifi")>>
  <2>1. s \in Seq(Calls) /\ Len(s) = 4 /\ s[3].call = "label"
    BY Parts, Tuples DEF SetLabel, Call
  <2>2. HasCall(s, {"label"})
    BY <2>1 DEF HasCall
  <2>3. todo' = s \o Redraw /\ phase' = "setup"
    BY <1>2 DEF PowerOn
  <2> QED
    BY <2>1, <2>2, <2>3, HandlerCurrent
<1>3. CASE PowerOff
  <2>1. todo' = << >> /\ phase' = "off" /\ dirty' = TRUE
    BY <1>3 DEF PowerOff
  <2> QED
    BY <2>1 DEF CurrentInv, Settles, Followed, PaintInv, ShownInv
<1>4. CASE OpenView
  <2>1. /\ todo = << >> /\ phase = "idle" /\ phase' = "view"
        /\ UNCHANGED <<todo, input, active, label, shownInput, dirty>>
    BY <1>4 DEF OpenView, Ready
  <2>2. ~dirty /\ label = active /\ shownInput = input
    BY <2>1, NothingWaits DEF CurrentInv, PaintInv, ShownInv
  <2> QED
    BY <2>1, <2>2 DEF CurrentInv, PaintInv, ShownInv
<1>5. ASSUME NEW id \in Profiles, NEW shape \in Texts, Pick(id, shape)
      PROVE  CurrentInv'
  <2> DEFINE s == <<SetLabel, said("system", shape), MarkDirty>>
  <2>1. s \in Seq(Calls) /\ Len(s) = 3 /\ s[1].call = "label"
    BY <1>1, Parts, Tuples DEF SetLabel, Call
  <2>2. HasCall(s, {"label"})
    BY <2>1 DEF HasCall
  <2>3. todo' = s \o Redraw /\ phase' = "idle"
    BY <1>5 DEF Pick, said
  <2> QED
    BY <2>1, <2>2, <2>3, HandlerCurrent
<1>6. ASSUME NEW s \in Seq(Calls), NEW p \in {"setup", "idle", "reply", "view"}, Ready(p), Keep,
             todo' = s \o Redraw, phase' \in {"setup", "idle", "reply"}
      PROVE  CurrentInv'
  BY <1>6, KeepCurrent DEF Ready
<1>7. CASE ReconnectWifi \/ Heartbeat \/ TurnEnds \/ CloseView
  <2>1. /\ <<SetStatus("wifi")>> \in Seq(Calls) /\ <<SetStatus("ready")>> \in Seq(Calls)
        /\ <<MarkDirty>> \in Seq(Calls)
    BY Parts, Tuples
  <2> QED
    BY <1>6, <1>7, <2>1 DEF ReconnectWifi, Heartbeat, TurnEnds, CloseView, Ready
<1>8. CASE Type \/ Backspace
  <2>1. << >> \o Redraw = Redraw
    BY <1>0
  <2>2. todo' = << >> \o Redraw /\ Ready("idle") /\ Keep /\ phase' = "idle"
    BY <1>8, <2>1 DEF Type, Backspace, Ready
  <2> QED
    BY <1>0, <1>6, <2>2
<1>9. CASE RestartTunnel
  <2>1. <<SetStatus("wg")>> \o Redraw \o <<SetStatus("ready")>> \in Seq(Calls)
    BY Parts, ConcatType
  <2> QED
    BY <1>6, <1>9, <2>1 DEF RestartTunnel, Ready
<1>10. ASSUME NEW shape \in Texts, NEW t \in {"wifi", "wg"}, SetupFails(t, shape)
       PROVE  CurrentInv'
  <2> DEFINE first == IF t = "wg" THEN <<SetStatus("wg")>> \o Redraw ELSE << >>
             rest == <<said("error", shape), MarkDirty, SetStatus("error")>>
  <2>1. first \in Seq(Calls) /\ rest \in Seq(Calls)
    BY <1>0, <1>1, Parts, Tuples, ConcatType
  <2>2. todo' = first \o rest \o Redraw /\ Ready("setup") /\ Keep /\ phase' = "idle"
    BY <1>10 DEF SetupFails, said
  <2> HIDE DEF first, rest
  <2> QED
    BY <1>6, <2>1, <2>2, ConcatType
<1>11. ASSUME NEW shape \in Texts, SetupDone(shape) PROVE CurrentInv'
  <2> DEFINE first == <<SetStatus("wg")>> \o Redraw
             rest == <<SetLabel, said("system", shape), MarkDirty, SetStatus("ready")>>
  <2>1. first \in Seq(Calls) /\ rest \in Seq(Calls)
    BY <1>0, <1>1, Parts, Tuples, ConcatType
  <2>2. todo' = first \o rest \o Redraw /\ Ready("setup") /\ Keep /\ phase' = "idle"
    BY <1>11 DEF SetupDone, said
  <2> HIDE DEF first, rest
  <2> QED
    BY <1>6, <2>1, <2>2, ConcatType
<1>12. ASSUME NEW shape \in Texts, TurnFails(shape) PROVE CurrentInv'
  <2> DEFINE s == <<said("error", shape), MarkDirty, SetStatus("error")>>
  <2>1. s \in Seq(Calls)
    BY <1>1, Parts, Tuples
  <2>2. todo' = s \o Redraw /\ Ready("reply") /\ Keep /\ phase' = "idle"
    BY <1>12 DEF TurnFails, said
  <2> HIDE DEF s
  <2> QED
    BY <1>6, <2>1, <2>2
<1>13. ASSUME NEW shape \in Texts, NEW prompt \in Texts, Send(shape, prompt) PROVE CurrentInv'
  <2> DEFINE answer == Push("assistant", Numbered(prompt, given + Letters(shape)))
             s == <<said("user", shape), answer, MarkDirty, SetStatus("sending")>>
  <2>1. answer \in Calls
    <3>1. PICK n \in Nat : n = given + Letters(shape)
      BY <1>0, LettersCount
    <3>2. Push("assistant", Numbered(prompt, n)) \in Calls
      BY Scripts, KindsKnown
    <3> QED
      BY <3>1, <3>2
  <2> HIDE DEF answer
  <2>2. s \in Seq(Calls)
    BY <1>1, <2>1, Parts, Tuples
  <2>3. todo' = s \o Redraw /\ Ready("idle") /\ Keep /\ phase' = "reply"
    BY <1>13 DEF Send, said, answer
  <2> HIDE DEF s
  <2> QED
    BY <1>6, <2>2, <2>3
<1> QED
  BY <1>2, <1>3, <1>4, <1>5, <1>7, <1>8, <1>9, <1>10, <1>11, <1>12, <1>13, DeltaCurrent DEF Handling

LEMMA CurrentInit == Init => CurrentInv
<1> SUFFICES ASSUME Init PROVE CurrentInv
  OBVIOUS
<1>1. todo = << >> /\ phase = "off"
  BY DEF Init
<1>2. Settles(todo)
  BY <1>1 DEF Settles, Followed
<1> QED
  BY <1>1, <1>2 DEF CurrentInv, PaintInv, ShownInv

LEMMA CurrentNext == TypeOK /\ CurrentInv /\ [Next]_vars => CurrentInv'
<1> SUFFICES ASSUME TypeOK, CurrentInv, [Next]_vars PROVE CurrentInv'
  OBVIOUS
<1>1. CASE Calling
  BY <1>1, AddingCurrent, MarkingCurrent, RenderCurrent DEF Calling
<1>2. CASE Handling
  BY <1>2, HandlersCurrent
<1>3. CASE UNCHANGED vars
  BY <1>3 DEF vars, ringVars, viewVars, mainVars, CurrentInv, PaintInv, ShownInv, Image,
              LastLines, Window, Slot
<1> QED
  BY <1>1, <1>2, <1>3 DEF Next

(* At the end of every handler the display shows the status, the profile,  *)
(* the input line and the newest lines as the program has them: no handler *)
(* changes one of them without a later mark and a later render.            *)
THEOREM ScreenIsCurrent == Spec => []ScreenCurrent
<1>1. CurrentInv => ScreenCurrent
  <2> SUFFICES ASSUME CurrentInv, phase \in {"idle", "reply"}, todo = << >>
               PROVE  painted = [status |-> status, label |-> active, input |-> input,
                                 lines |-> LastLines]
    BY DEF ScreenCurrent
  <2>1. label = active /\ shownInput = input /\ painted = Image
    BY NothingWaits DEF CurrentInv, PaintInv, ShownInv
  <2> QED
    BY <2>1 DEF Image
<1> QED
  BY <1>1, CurrentInit, CurrentNext, ScreenTypeCorrect, PTL DEF Spec

----------------------------------------------------------------------------
(* Letters of texts                                                        *)

LEMMA LetterIs ==
  ASSUME NEW text \in Seq(Nat)
  PROVE  /\ \A i \in 1..Len(text) : text[i] # Space => text[i] \in LettersIn(text)
         /\ \A n \in LettersIn(text) : n \in Nat /\ n # Space
         /\ \A n \in LettersIn(text) : \E i \in 1..Len(text) : text[i] = n
<1>1. DOMAIN text = 1..Len(text) /\ \A i \in 1..Len(text) : text[i] \in Nat
  OBVIOUS
<1> QED
  BY <1>1 DEF LettersIn, Range

LEMMA LetterAt ==
  ASSUME NEW text \in Seq(Nat)
  PROVE  \A n : n \in LettersIn(text) <=> (n # Space /\ \E i \in 1..Len(text) : text[i] = n)
<1>1. DOMAIN text = 1..Len(text)
  OBVIOUS
<1> QED
  BY <1>1, Zenon DEF LettersIn, Range

AllBelow(M, N) == \A m \in M, n \in N : m < n

\* A text cut in two.
TwoPieces(text, a, b) ==
  /\ a \in Seq(Nat) /\ b \in Seq(Nat)
  /\ LettersIn(text) = LettersIn(a) \cup LettersIn(b)
  /\ Ascending(text) => Ascending(a) /\ Ascending(b) /\ AllBelow(LettersIn(a), LettersIn(b))

LEMMA PiecesNamed ==
  ASSUME NEW text \in Seq(Nat), NEW c \in 0..Len(text), NEW a \in Seq(Nat), NEW b \in Seq(Nat),
         a = SubSeq(text, 1, c), b = SubSeq(text, c + 1, Len(text))
  PROVE  TwoPieces(text, a, b)
<1>0. Len(text) \in Nat /\ c \in Nat /\ c <= Len(text)
  OBVIOUS
<1>1. Len(a) = c /\ \A i \in 1..c : a[i] = text[i]
  BY <1>0
<1>2. Len(b) = Len(text) - c /\ \A i \in 1..(Len(text) - c) : b[i] = text[c + i]
  BY <1>0
<1> DEFINE len == Len(text)
           rest == len - c
<1>3. rest \in Nat /\ len \in Nat /\ len = c + rest
  BY <1>0
<1>4. Len(b) = rest /\ \A i \in 1..rest : b[i] = text[c + i]
  BY <1>2
<1>5. Len(text) = len
  OBVIOUS
<1> HIDE DEF len, rest
<1>6. ASSUME NEW i \in 1..len PROVE i \in 1..c \/ (\E j \in 1..rest : i = c + j)
  <2>1. CASE ~(i <= c)
    <3>1. i - c \in 1..rest /\ i = c + (i - c)
      BY <1>0, <1>3, <2>1
    <3> QED
      BY <3>1
  <2> QED
    BY <1>0, <2>1
<1>7. /\ \A j \in 1..c : j \in 1..len
      /\ \A j \in 1..rest : c + j \in 1..len
      /\ \A i, j \in 1..rest : i < j => c + i < c + j
      /\ \A i \in 1..c, j \in 1..rest : i < c + j
  BY <1>0, <1>3
<1>8. LettersIn(text) = LettersIn(a) \cup LettersIn(b)
  <2>1. ASSUME NEW n PROVE n \in LettersIn(text) <=> n \in LettersIn(a) \cup LettersIn(b)
    <3>1. ASSUME n \in LettersIn(text) PROVE n \in LettersIn(a) \cup LettersIn(b)
      <4>1. PICK i \in 1..len : text[i] = n /\ n # Space
        BY <3>1, LetterIs, Zenon DEF len
      <4>2. CASE i \in 1..c
        <5>1. i \in 1..Len(a) /\ a[i] = n
          BY <1>1, <4>1, <4>2
        <5> QED
          BY <4>1, <5>1, LetterAt, Zenon
      <4>3. ASSUME NEW j \in 1..rest, i = c + j PROVE n \in LettersIn(b)
        <5>1. j \in 1..Len(b) /\ b[j] = n
          BY <1>4, <4>1, <4>3
        <5> QED
          BY <4>1, <5>1, LetterAt, Zenon
      <4> QED
        BY <1>6, <4>2, <4>3
    <3>2. ASSUME n \in LettersIn(a) PROVE n \in LettersIn(text)
      <4>1. PICK i \in 1..Len(a) : a[i] = n /\ n # Space
        BY <3>2, LetterIs, Zenon
      <4>2. i \in 1..Len(text) /\ text[i] = n
        BY <1>1, <1>5, <1>7, <4>1
      <4> QED
        BY <4>1, <4>2, LetterAt, Zenon
    <3>3. ASSUME n \in LettersIn(b) PROVE n \in LettersIn(text)
      <4>1. PICK i \in 1..Len(b) : b[i] = n /\ n # Space
        BY <3>3, LetterIs, Zenon
      <4>2. c + i \in 1..Len(text) /\ text[c + i] = n
        BY <1>4, <1>5, <1>7, <4>1
      <4> QED
        BY <4>1, <4>2, LetterAt, Zenon
    <3> QED
      BY <3>1, <3>2, <3>3
  <2> QED
    BY <2>1
<1>9. ASSUME Ascending(text)
      PROVE  \A i, j \in 1..len : i < j /\ Space \notin {text[i], text[j]} => text[i] < text[j]
  BY <1>5, <1>9 DEF Ascending
<1>10. ASSUME Ascending(text) PROVE Ascending(a)
  BY <1>1, <1>7, <1>9, <1>10 DEF Ascending
<1>11. ASSUME Ascending(text) PROVE Ascending(b)
  <2> SUFFICES ASSUME NEW i \in 1..rest, NEW j \in 1..rest,
                      i < j, Space \notin {b[i], b[j]}
               PROVE  b[i] < b[j]
    BY <1>4 DEF Ascending
  <2> QED
    BY <1>4, <1>7, <1>9, <1>11
<1>12. ASSUME Ascending(text), NEW m \in LettersIn(a), NEW n \in LettersIn(b) PROVE m < n
  <2>1. PICK i \in 1..c : a[i] = m
    BY <1>1, LetterIs
  <2>2. PICK j \in 1..rest : b[j] = n
    BY <1>4, LetterIs
  <2>3. m # Space /\ n # Space
    BY LetterIs
  <2> QED
    BY <1>1, <1>4, <1>7, <1>9, <1>12, <2>1, <2>2, <2>3
<1> QED
  BY <1>8, <1>10, <1>11, <1>12 DEF TwoPieces, AllBelow

LEMMA Pieces ==
  ASSUME NEW text \in Seq(Nat), NEW c \in 0..Len(text)
  PROVE  TwoPieces(text, SubSeq(text, 1, c), SubSeq(text, c + 1, Len(text)))
<1>1. c + 1 \in 1..(Len(text) + 1) /\ c \in Nat /\ c <= Len(text) /\ Len(text) \in Nat
  OBVIOUS
<1>2. SubSeq(text, 1, c) \in Seq(Nat)
  BY <1>1
<1>3. SubSeq(text, c + 1, Len(text)) \in Seq(Nat)
  BY <1>1
<1> QED
  BY <1>2, <1>3, PiecesNamed, Zenon

\* Leading spaces hold no letter.
LEMMA Skipped ==
  ASSUME NEW text \in Seq(Nat)
  PROVE  /\ LettersIn(SkipSpaces(text)) = LettersIn(text)
         /\ Ascending(text) => Ascending(SkipSpaces(text))
<1> DEFINE starts == {i \in 1..Len(text) : text[i] # Space}
           s == CHOOSE i \in starts : \A j \in starts : i <= j
<1>1. Len(text) \in Nat /\ DOMAIN text = 1..Len(text)
  OBVIOUS
<1>2. CASE starts = {}
  <2>1. SkipSpaces(text) = << >>
    BY <1>2 DEF SkipSpaces
  <2>2. LettersIn(text) = {}
    BY <1>1, <1>2 DEF LettersIn, Range
  <2>3. DOMAIN << >> = {}
    OBVIOUS
  <2> QED
    BY <2>1, <2>2, <2>3 DEF LettersIn, Range, Ascending
<1>3. CASE starts # {}
  <2>1. s \in starts /\ \A j \in starts : s <= j
    <3>1. starts \subseteq Nat
      OBVIOUS
    <3>2. \E i \in starts : \A j \in starts : i <= j
      BY <1>3, <3>1, LeastNumber
    <3> QED
      BY <3>2
  <2>2. SkipSpaces(text) = SubSeq(text, s, Len(text))
    BY <1>3 DEF SkipSpaces
  <2>3. s \in 1..Len(text) /\ \A i \in 1..Len(text) : i < s => text[i] = Space
    BY <1>1, <2>1
  <2> HIDE DEF s, starts
  <2>4. PICK c \in 0..Len(text) : c + 1 = s /\ c \in Nat
    <3>1. s - 1 \in 0..Len(text) /\ (s - 1) + 1 = s /\ s - 1 \in Nat
      BY <1>1, <2>3
    <3> QED
      BY <3>1
  <2>7. PICK a, b : TwoPieces(text, a, b) /\ a = SubSeq(text, 1, c) /\ b = SubSeq(text, s, Len(text))
    BY <2>4, Pieces, Zenon
  <2>5. /\ LettersIn(text) = LettersIn(a) \cup LettersIn(b) /\ a \in Seq(Nat)
        /\ Ascending(text) => Ascending(b)
    BY <2>7, Zenon DEF TwoPieces
  <2>6. LettersIn(a) = {}
    <3>1. Len(a) = c /\ \A i \in 1..c : a[i] = text[i]
      BY <1>1, <2>4, <2>7
    <3>2. \A i \in 1..c : i \in 1..Len(text) /\ i < s
      BY <1>1, <2>4
    <3>3. ASSUME NEW n \in LettersIn(a) PROVE FALSE
      <4>1. PICK i \in 1..c : a[i] = n
        BY <2>5, <3>1, LetterIs
      <4>2. n # Space
        BY <2>5, LetterIs
      <4> QED
        BY <2>3, <3>1, <3>2, <4>1, <4>2
    <3> QED
      BY <3>3
  <2> QED
    BY <2>2, <2>5, <2>6, <2>7
<1> QED
  BY <1>2, <1>3

\* Two texts made one.
LEMMA JoinedText ==
  ASSUME NEW a \in Seq(Nat), NEW b \in Seq(Nat)
  PROVE  /\ LettersIn(a \o b) = LettersIn(a) \cup LettersIn(b)
         /\ (Ascending(a) /\ Ascending(b) /\ AllBelow(LettersIn(a), LettersIn(b)))
              => Ascending(a \o b)
<1> DEFINE q == a \o b
           k == Len(a)
           l == Len(b)
<1>1. /\ q \in Seq(Nat) /\ Len(q) = k + l /\ k \in Nat /\ l \in Nat
      /\ \A i \in 1..k : q[i] = a[i]
      /\ \A i \in 1..l : q[k + i] = b[i]
  BY Joined
<1>2. Len(a) = k /\ Len(b) = l
  OBVIOUS
<1> HIDE DEF q, k, l
<1>4. ASSUME NEW i \in 1..(k + l) PROVE i \in 1..k \/ (\E j \in 1..l : i = k + j)
  <2>1. CASE ~(i <= k)
    <3>1. i - k \in 1..l /\ i = k + (i - k)
      BY <1>1, <2>1
    <3> QED
      BY <3>1
  <2> QED
    BY <1>1, <2>1
<1>5. /\ \A j \in 1..k : j \in 1..(k + l)
      /\ \A j \in 1..l : k + j \in 1..(k + l)
  BY <1>1
<1>6. LettersIn(q) = LettersIn(a) \cup LettersIn(b)
  <2>1. ASSUME NEW n PROVE n \in LettersIn(q) <=> n \in LettersIn(a) \cup LettersIn(b)
    <3>1. ASSUME n \in LettersIn(q) PROVE n \in LettersIn(a) \cup LettersIn(b)
      <4>1. PICK i \in 1..(k + l) : q[i] = n /\ n # Space
        BY <1>1, <3>1, LetterIs
      <4>2. CASE i \in 1..k
        <5>1. i \in 1..Len(a) /\ a[i] = n
          BY <1>1, <1>2, <4>1, <4>2
        <5> QED
          BY <4>1, <5>1, LetterAt, Zenon
      <4>3. ASSUME NEW j \in 1..l, i = k + j PROVE n \in LettersIn(b)
        <5>1. j \in 1..Len(b) /\ b[j] = n
          BY <1>1, <1>2, <4>1, <4>3
        <5> QED
          BY <4>1, <5>1, LetterAt, Zenon
      <4> QED
        BY <1>4, <4>2, <4>3
    <3>2. ASSUME n \in LettersIn(a) PROVE n \in LettersIn(q)
      <4>1. PICK i \in 1..Len(a) : a[i] = n /\ n # Space
        BY <3>2, LetterIs, Zenon
      <4>2. i \in 1..Len(q) /\ q[i] = n
        BY <1>1, <1>2, <1>5, <4>1
      <4> QED
        BY <1>1, <4>1, <4>2, LetterAt, Zenon
    <3>3. ASSUME n \in LettersIn(b) PROVE n \in LettersIn(q)
      <4>1. PICK i \in 1..Len(b) : b[i] = n /\ n # Space
        BY <3>3, LetterIs, Zenon
      <4>2. k + i \in 1..Len(q) /\ q[k + i] = n
        BY <1>1, <1>2, <1>5, <4>1
      <4> QED
        BY <1>1, <4>1, <4>2, LetterAt, Zenon
    <3> QED
      BY <3>1, <3>2, <3>3
  <2> QED
    BY <2>1
<1>7. ASSUME Ascending(a), Ascending(b), AllBelow(LettersIn(a), LettersIn(b))
      PROVE  Ascending(q)
  <2> SUFFICES ASSUME NEW i \in 1..(k + l), NEW j \in 1..(k + l),
                      i < j, Space \notin {q[i], q[j]}
               PROVE  q[i] < q[j]
    BY <1>1 DEF Ascending
  <2>1. CASE i \in 1..k /\ j \in 1..k
    BY <1>1, <1>2, <1>7, <2>1 DEF Ascending
  <2>2. ASSUME i \in 1..k, NEW t \in 1..l, j = k + t
        PROVE  q[i] < q[j]
    <3>1. q[i] = a[i] /\ q[j] = b[t]
      BY <1>1, <2>2
    <3>2. a[i] \in LettersIn(a) /\ b[t] \in LettersIn(b)
      BY <1>2, <2>2, <3>1, LetterIs
    <3> QED
      BY <1>7, <3>1, <3>2 DEF AllBelow
  <2>3. ASSUME NEW r \in 1..l, NEW t \in 1..l, i = k + r, j = k + t
        PROVE  q[i] < q[j]
    <3>1. r < t
      BY <1>1, <2>3
    <3> QED
      BY <1>1, <1>2, <1>7, <2>3, <3>1 DEF Ascending
  <2>4. ASSUME NEW r \in 1..l, i = k + r, j \in 1..k
        PROVE  FALSE
    BY <1>1, <2>4
  <2> QED
    BY <1>4, <2>1, <2>2, <2>3, <2>4
<1> QED
  BY <1>6, <1>7 DEF q
----------------------------------------------------------------------------
(* Letters of a queue of lines or of calls                                 *)

TextsOf(q) == [i \in 1..Len(q) |-> q[i].text]
Held(q)    == LettersOf(TextsOf(q))
Sorted(q)  == InOrder(TextsOf(q))

LEMMA HeldIs ==
  ASSUME NEW S, NEW q \in Seq(S)
  PROVE  \A n : n \in Held(q) <=> \E i \in 1..Len(q) : n \in LettersIn(q[i].text)
<1>1. /\ DOMAIN TextsOf(q) = 1..Len(q)
      /\ \A i \in 1..Len(q) : TextsOf(q)[i] = q[i].text
  BY DEF TextsOf
<1>2. Held(q) = UNION {LettersIn(q[i].text) : i \in 1..Len(q)}
  BY <1>1 DEF Held, LettersOf
<1> QED
  BY <1>2

LEMMA SortedIs ==
  ASSUME NEW S, NEW q \in Seq(S)
  PROVE  Sorted(q) <=> \A i \in 1..Len(q) :
           /\ Ascending(q[i].text)
           /\ \A j \in 1..Len(q) : i < j =>
                AllBelow(LettersIn(q[i].text), LettersIn(q[j].text))
<1>1. /\ DOMAIN TextsOf(q) = 1..Len(q)
      /\ \A i \in 1..Len(q) : TextsOf(q)[i] = q[i].text
  BY DEF TextsOf
<1> QED
  BY <1>1 DEF Sorted, InOrder, AllBelow

\* Nothing, and one.
LEMMA OneHeld ==
  /\ Held(<< >>) = {} /\ Sorted(<< >>)
  /\ \A c : /\ Held(<<c>>) = LettersIn(c.text)
            /\ Sorted(<<c>>) <=> Ascending(c.text)
<1>1. << >> \in Seq({}) /\ Len(<< >>) = 0
  OBVIOUS
<1>2. Held(<< >>) = {} /\ Sorted(<< >>)
  <2>1. \A i \in 1..Len(<< >>) : FALSE
    BY <1>1
  <2> QED
    BY <1>1, <2>1, HeldIs, SortedIs
<1>3. ASSUME NEW c PROVE /\ Held(<<c>>) = LettersIn(c.text)
                         /\ Sorted(<<c>>) <=> Ascending(c.text)
  <2> DEFINE q == <<c>>
  <2>1. q \in Seq({c}) /\ Len(q) = 1 /\ q[1] = c
    OBVIOUS
  <2> HIDE DEF q
  <2>2. Held(q) = LettersIn(c.text)
    <3>1. \A n : n \in Held(q) <=> \E i \in 1..Len(q) : n \in LettersIn(q[i].text)
      BY <2>1, HeldIs
    <3>2. /\ \A i \in 1..Len(q) : q[i] = c
          /\ 1 \in 1..Len(q)
      BY <2>1
    <3>3. \A n : n \in Held(q) <=> n \in LettersIn(c.text)
      BY <3>1, <3>2, Zenon
    <3> QED
      BY <3>3
  <2>3. Sorted(q) <=> Ascending(c.text)
    <3>1. \A i, j \in 1..Len(q) : i = 1 /\ ~(i < j)
      BY <2>1
    <3>2. 1 \in 1..Len(q)
      BY <2>1
    <3> QED
      BY <2>1, <3>1, <3>2, SortedIs
  <2> QED
    BY <2>2, <2>3 DEF q
<1> QED
  BY <1>2, <1>3

\* One queue after the other.
Joins(s, t) ==
  /\ Held(s \o t) = Held(s) \cup Held(t)
  /\ (Sorted(s) /\ Sorted(t) /\ AllBelow(Held(s), Held(t))) => Sorted(s \o t)

LEMMA JoinedHeld == ASSUME NEW S, NEW s \in Seq(S), NEW t \in Seq(S) PROVE Joins(s, t)
<1> DEFINE q == s \o t
           k == Len(s)
           l == Len(t)
<1>1. /\ q \in Seq(S) /\ Len(q) = k + l /\ k \in Nat /\ l \in Nat
      /\ \A i \in 1..k : q[i] = s[i]
      /\ \A i \in 1..l : q[k + i] = t[i]
  BY Joined
<1>2. Len(s) = k /\ Len(t) = l
  OBVIOUS
<1> HIDE DEF q, k, l
<1>3. ASSUME NEW i \in 1..(k + l) PROVE i \in 1..k \/ (\E j \in 1..l : i = k + j)
  <2>1. CASE ~(i <= k)
    <3>1. i - k \in 1..l /\ i = k + (i - k)
      BY <1>1, <2>1
    <3> QED
      BY <3>1
  <2> QED
    BY <1>1, <2>1
<1>4. /\ \A j \in 1..k : j \in 1..(k + l)
      /\ \A j \in 1..l : k + j \in 1..(k + l)
  BY <1>1
<1>5. /\ \A n : n \in Held(q) <=> \E i \in 1..(k + l) : n \in LettersIn(q[i].text)
      /\ \A n : n \in Held(s) <=> \E i \in 1..k : n \in LettersIn(s[i].text)
      /\ \A n : n \in Held(t) <=> \E i \in 1..l : n \in LettersIn(t[i].text)
  <2>1. \A n : n \in Held(q) <=> \E i \in 1..Len(q) : n \in LettersIn(q[i].text)
    BY <1>1, HeldIs
  <2>2. \A n : n \in Held(s) <=> \E i \in 1..Len(s) : n \in LettersIn(s[i].text)
    BY HeldIs
  <2>3. \A n : n \in Held(t) <=> \E i \in 1..Len(t) : n \in LettersIn(t[i].text)
    BY HeldIs
  <2> QED
    BY <1>1, <1>2, <2>1, <2>2, <2>3
<1>6. ASSUME NEW n PROVE n \in Held(q) <=> n \in Held(s) \/ n \in Held(t)
  <2>1. ASSUME n \in Held(q) PROVE n \in Held(s) \/ n \in Held(t)
    <3>1. PICK i \in 1..(k + l) : n \in LettersIn(q[i].text)
      BY <1>5, <2>1
    <3> QED
      BY <1>1, <1>3, <1>5, <3>1
  <2>2. ASSUME n \in Held(s) PROVE n \in Held(q)
    <3>1. PICK i \in 1..k : n \in LettersIn(s[i].text)
      BY <1>5, <2>2
    <3> QED
      BY <1>1, <1>4, <1>5, <3>1
  <2>3. ASSUME n \in Held(t) PROVE n \in Held(q)
    <3>1. PICK i \in 1..l : n \in LettersIn(t[i].text)
      BY <1>5, <2>3
    <3> QED
      BY <1>1, <1>4, <1>5, <3>1
  <2> QED
    BY <2>1, <2>2, <2>3
<1>7. ASSUME Sorted(s), Sorted(t), AllBelow(Held(s), Held(t)) PROVE Sorted(q)
  <2>1. \A i \in 1..k : /\ Ascending(s[i].text)
                        /\ \A j \in 1..k : i < j => AllBelow(LettersIn(s[i].text), LettersIn(s[j].text))
    BY <1>2, <1>7, SortedIs
  <2>2. \A i \in 1..l : /\ Ascending(t[i].text)
                        /\ \A j \in 1..l : i < j => AllBelow(LettersIn(t[i].text), LettersIn(t[j].text))
    BY <1>2, <1>7, SortedIs
  <2>3. \A i \in 1..k, j \in 1..l : AllBelow(LettersIn(s[i].text), LettersIn(t[j].text))
    BY <1>5, <1>7 DEF AllBelow
  <2>4. ASSUME NEW i \in 1..(k + l) PROVE Ascending(q[i].text)
    BY <1>1, <1>3, <2>1, <2>2
  <2>5. ASSUME NEW i \in 1..(k + l), NEW j \in 1..(k + l), i < j
        PROVE  AllBelow(LettersIn(q[i].text), LettersIn(q[j].text))
    <3>1. CASE i \in 1..k /\ j \in 1..k
      BY <1>1, <2>1, <2>5, <3>1
    <3>2. ASSUME i \in 1..k, NEW d \in 1..l, j = k + d
          PROVE  AllBelow(LettersIn(q[i].text), LettersIn(q[j].text))
      BY <1>1, <2>3, <3>2
    <3>3. ASSUME NEW r \in 1..l, NEW d \in 1..l, i = k + r, j = k + d
          PROVE  AllBelow(LettersIn(q[i].text), LettersIn(q[j].text))
      <4>1. r < d
        BY <1>1, <2>5, <3>3
      <4> QED
        BY <1>1, <2>2, <3>3, <4>1
    <3>4. ASSUME NEW r \in 1..l, i = k + r, j \in 1..k PROVE FALSE
      BY <1>1, <2>5, <3>4
    <3> QED
      BY <1>3, <3>1, <3>2, <3>3, <3>4
  <2> QED
    BY <1>1, <2>4, <2>5, SortedIs
<1>8. Held(q) = Held(s) \cup Held(t)
  BY <1>6
<1> QED
  BY <1>7, <1>8 DEF q, Joins

\* The first of a queue, and the rest.
LEMMA FirstHeld ==
  ASSUME NEW S, NEW q \in Seq(S), q # << >>
  PROVE  /\ Tail(q) \in Seq(S) /\ Head(q) \in S
         /\ Held(q) = LettersIn(Head(q).text) \cup Held(Tail(q))
         /\ Sorted(q) => /\ Sorted(Tail(q)) /\ Ascending(Head(q).text)
                         /\ AllBelow(LettersIn(Head(q).text), Held(Tail(q)))
<1> DEFINE r == Tail(q)
           k == Len(r)
<1>1. /\ r \in Seq(S) /\ Head(q) \in S /\ Head(q) = q[1] /\ k \in Nat /\ Len(q) = k + 1
      /\ \A i \in 1..k : r[i] = q[i + 1]
  OBVIOUS
<1>2. Len(r) = k
  OBVIOUS
<1> HIDE DEF r, k
<1>3. /\ \A i \in 1..k : i + 1 \in 1..(k + 1) /\ 1 < i + 1
      /\ 1 \in 1..(k + 1)
      /\ \A i, j \in 1..k : i < j => i + 1 < j + 1
  BY <1>1
<1>4. ASSUME NEW i \in 1..(k + 1) PROVE i = 1 \/ \E j \in 1..k : i = j + 1
  <2>1. CASE i # 1
    <3>1. i - 1 \in 1..k /\ i = (i - 1) + 1
      BY <1>1, <2>1
    <3> QED
      BY <3>1
  <2> QED
    BY <2>1
<1>5. /\ \A n : n \in Held(q) <=> \E i \in 1..(k + 1) : n \in LettersIn(q[i].text)
      /\ \A n : n \in Held(r) <=> \E i \in 1..k : n \in LettersIn(r[i].text)
  <2>1. \A n : n \in Held(q) <=> \E i \in 1..Len(q) : n \in LettersIn(q[i].text)
    BY HeldIs
  <2>2. \A n : n \in Held(r) <=> \E i \in 1..Len(r) : n \in LettersIn(r[i].text)
    BY <1>1, HeldIs
  <2> QED
    BY <1>1, <1>2, <2>1, <2>2
<1>6. ASSUME NEW n PROVE n \in Held(q) <=> n \in LettersIn(q[1].text) \/ n \in Held(r)
  <2>1. ASSUME n \in Held(q) PROVE n \in LettersIn(q[1].text) \/ n \in Held(r)
    <3>1. PICK i \in 1..(k + 1) : n \in LettersIn(q[i].text)
      BY <1>5, <2>1
    <3> QED
      BY <1>1, <1>4, <1>5, <3>1
  <2>2. ASSUME n \in Held(r) PROVE n \in Held(q)
    <3>1. PICK i \in 1..k : n \in LettersIn(r[i].text)
      BY <1>5, <2>2
    <3> QED
      BY <1>1, <1>3, <1>5, <3>1
  <2> QED
    BY <1>3, <1>5, <2>1, <2>2
<1>7. ASSUME Sorted(q)
      PROVE  Sorted(r) /\ Ascending(q[1].text) /\ AllBelow(LettersIn(q[1].text), Held(r))
  <2>1. \A i \in 1..(k + 1) :
          /\ Ascending(q[i].text)
          /\ \A j \in 1..(k + 1) : i < j => AllBelow(LettersIn(q[i].text), LettersIn(q[j].text))
    BY <1>1, <1>7, SortedIs
  <2>2. \A i \in 1..k : /\ Ascending(r[i].text)
                        /\ \A j \in 1..k : i < j => AllBelow(LettersIn(r[i].text), LettersIn(r[j].text))
    BY <1>1, <1>3, <2>1
  <2>3. Sorted(r)
    BY <1>1, <1>2, <2>2, SortedIs
  <2>4. \A i \in 1..k : AllBelow(LettersIn(q[1].text), LettersIn(r[i].text))
    BY <1>1, <1>3, <2>1
  <2>5. AllBelow(LettersIn(q[1].text), Held(r))
    BY <1>5, <2>4 DEF AllBelow
  <2> QED
    BY <1>3, <2>1, <2>3, <2>5
<1>8. Held(q) = LettersIn(q[1].text) \cup Held(r)
  BY <1>6
<1> QED
  BY <1>1, <1>7, <1>8 DEF r

\* A queue whose last text has grown.
GrowsBy(q, r, t) ==
  /\ Held(r) = Held(q) \cup LettersIn(t)
  /\ (Sorted(q) /\ Ascending(t) /\ AllBelow(Held(q), LettersIn(t))) => Sorted(r)

LEMMA GrownHeld ==
  ASSUME NEW S, NEW q \in Seq(S), NEW r \in Seq(S), NEW k \in Nat \ {0}, Len(q) = k, Len(r) = k,
         \A i \in 1..k : i # k => r[i] = q[i],
         NEW t \in Seq(Nat), q[k].text \in Seq(Nat), r[k].text = q[k].text \o t
  PROVE  GrowsBy(q, r, t)
<1>1. k \in 1..k /\ \A i \in 1..k : i < k <=> i # k
  OBVIOUS
<1>2. /\ \A n : n \in Held(q) <=> \E i \in 1..k : n \in LettersIn(q[i].text)
      /\ \A n : n \in Held(r) <=> \E i \in 1..k : n \in LettersIn(r[i].text)
  <2>1. \A n : n \in Held(q) <=> \E i \in 1..Len(q) : n \in LettersIn(q[i].text)
    BY HeldIs, Zenon
  <2>2. \A n : n \in Held(r) <=> \E i \in 1..Len(r) : n \in LettersIn(r[i].text)
    BY HeldIs, Zenon
  <2> QED
    BY <2>1, <2>2
<1>3. /\ LettersIn(r[k].text) = LettersIn(q[k].text) \cup LettersIn(t)
      /\ (Ascending(q[k].text) /\ Ascending(t) /\ AllBelow(LettersIn(q[k].text), LettersIn(t)))
           => Ascending(r[k].text)
  BY JoinedText
<1>4. ASSUME NEW n PROVE n \in Held(r) <=> n \in Held(q) \/ n \in LettersIn(t)
  <2>1. ASSUME n \in Held(r) PROVE n \in Held(q) \/ n \in LettersIn(t)
    <3>1. PICK i \in 1..k : n \in LettersIn(r[i].text)
      BY <1>2, <2>1
    <3> QED
      BY <1>1, <1>2, <1>3, <3>1
  <2>2. ASSUME n \in Held(q) PROVE n \in Held(r)
    <3>1. PICK i \in 1..k : n \in LettersIn(q[i].text)
      BY <1>2, <2>2
    <3> QED
      BY <1>1, <1>2, <1>3, <3>1
  <2>3. ASSUME n \in LettersIn(t) PROVE n \in Held(r)
    BY <1>1, <1>2, <1>3, <2>3
  <2> QED
    BY <2>1, <2>2, <2>3
<1>5. ASSUME Sorted(q), Ascending(t), AllBelow(Held(q), LettersIn(t)) PROVE Sorted(r)
  <2>1. \A i \in 1..k : /\ Ascending(q[i].text)
                        /\ \A j \in 1..k : i < j => AllBelow(LettersIn(q[i].text), LettersIn(q[j].text))
    BY <1>5, SortedIs
  <2>2. \A i \in 1..k : AllBelow(LettersIn(q[i].text), LettersIn(t))
    BY <1>2, <1>5 DEF AllBelow
  <2>3. \A i \in 1..k : Ascending(r[i].text)
    BY <1>1, <1>3, <1>5, <2>1, <2>2
  <2>4. ASSUME NEW i \in 1..k, NEW j \in 1..k, i < j
        PROVE  AllBelow(LettersIn(r[i].text), LettersIn(r[j].text))
    <3>1. i # k /\ r[i] = q[i] /\ AllBelow(LettersIn(q[i].text), LettersIn(q[j].text))
      BY <2>1, <2>4
    <3>2. CASE j # k
      BY <3>1, <3>2
    <3>3. CASE j = k
      BY <1>3, <2>2, <3>1, <3>3 DEF AllBelow
    <3> QED
      BY <3>2, <3>3
  <2> QED
    BY <2>3, <2>4, SortedIs
<1>6. Held(r) = Held(q) \cup LettersIn(t)
  BY <1>4
<1> QED
  BY <1>5, <1>6 DEF GrowsBy

----------------------------------------------------------------------------
(* Letters that are given                                                  *)

LEMMA LettersStep ==
  ASSUME NEW shape \in Seq(BOOLEAN)
  PROVE  /\ \A i \in 0..Len(shape) : LettersBefore(shape, i) \in Nat
         /\ LettersBefore(shape, 0) = 0
         /\ \A i \in 1..Len(shape) :
              LettersBefore(shape, i) = LettersBefore(shape, i - 1) + (IF shape[i] THEN 1 ELSE 0)
         /\ \A i, j \in 0..Len(shape) : i <= j => LettersBefore(shape, i) <= LettersBefore(shape, j)
<1> DEFINE upTo(i) == {j \in 1..i : shape[j]}
<1>0. Len(shape) \in Nat
  OBVIOUS
<1>1. ASSUME NEW i \in 0..Len(shape)
      PROVE  IsFiniteSet(upTo(i)) /\ LettersBefore(shape, i) \in Nat
  <2>1. i \in Int /\ IsFiniteSet(1..i) /\ upTo(i) \subseteq 1..i
    BY <1>0, FS_Interval
  <2>2. IsFiniteSet(upTo(i))
    BY <2>1, FS_Subset
  <2> QED
    BY <2>2, FS_CardinalityType DEF LettersBefore
<1>2. LettersBefore(shape, 0) = 0
  <2>1. upTo(0) = {}
    OBVIOUS
  <2> QED
    BY <2>1, FS_EmptySet DEF LettersBefore
<1>3. ASSUME NEW i \in 1..Len(shape)
      PROVE  LettersBefore(shape, i) = LettersBefore(shape, i - 1) + (IF shape[i] THEN 1 ELSE 0)
  <2>1. i - 1 \in 0..Len(shape) /\ i \notin 1..(i - 1) /\ 1..i = (1..(i - 1)) \cup {i}
    BY <1>0
  <2>2. CASE shape[i]
    <3>1. upTo(i) = upTo(i - 1) \cup {i} /\ i \notin upTo(i - 1)
      BY <2>1, <2>2
    <3>2. IsFiniteSet(upTo(i - 1))
      BY <1>1, <2>1
    <3> HIDE DEF upTo
    <3>3. Cardinality(upTo(i)) = Cardinality(upTo(i - 1)) + 1
      BY <3>1, <3>2, FS_AddElement
    <3> QED
      BY <2>2, <3>3 DEF LettersBefore, upTo
  <2>3. CASE ~shape[i]
    <3>1. upTo(i) = upTo(i - 1)
      BY <2>1, <2>3
    <3>2. LettersBefore(shape, i) = LettersBefore(shape, i - 1)
      BY <3>1 DEF LettersBefore
    <3>3. LettersBefore(shape, i - 1) \in Nat
      BY <1>1, <2>1
    <3> QED
      BY <2>3, <3>2, <3>3
  <2> QED
    BY <2>2, <2>3
<1>4. ASSUME NEW i \in 0..Len(shape), NEW j \in 0..Len(shape), i <= j
      PROVE  LettersBefore(shape, i) <= LettersBefore(shape, j)
  <2>1. upTo(i) \subseteq upTo(j)
    BY <1>0, <1>4
  <2>2. IsFiniteSet(upTo(j))
    BY <1>1
  <2> QED
    BY <2>1, <2>2, FS_Subset DEF LettersBefore
<1> QED
  BY <1>1, <1>2, <1>3, <1>4

\* They take the next numbers, in order and without a gap.
LEMMA NumberedLetters ==
  ASSUME NEW shape \in Texts, NEW from \in Nat
  PROVE  /\ Numbered(shape, from) \in Seq(Nat) /\ Ascending(Numbered(shape, from))
         /\ Letters(shape) \in Nat
         /\ LettersIn(Numbered(shape, from)) = (from + 1)..(from + Letters(shape))
<1> DEFINE len == Len(shape)
           before(i) == LettersBefore(shape, i)
           text == Numbered(shape, from)
<1>0. len \in Nat /\ shape \in Seq(BOOLEAN)
  BY ScreenAssumption
<1>1. /\ \A i \in 0..len : before(i) \in Nat
      /\ before(0) = 0
      /\ \A i \in 1..len : before(i) = before(i - 1) + (IF shape[i] THEN 1 ELSE 0)
      /\ \A i, j \in 0..len : i <= j => before(i) <= before(j)
  BY <1>0, LettersStep
<1>2. /\ text \in Seq(Nat) /\ Len(text) = len
      /\ \A i \in 1..len : text[i] = IF shape[i] THEN from + before(i) ELSE 0
  <2>1. text = [i \in 1..len |-> IF shape[i] THEN from + before(i) ELSE 0]
    BY DEF Numbered, Space
  <2>2. text \in Seq(Nat)
    BY NumberedType
  <2> HIDE DEF before, text
  <2>3. DOMAIN text = 1..len
    BY <2>1
  <2>4. Len(text) = len
    BY <1>0, <2>2, <2>3
  <2> QED
    BY <2>1, <2>2, <2>4
<1>3. Letters(shape) = before(len)
  BY DEF Letters
<1> HIDE DEF len, before, text
<1>4. ASSUME NEW i \in 1..len, shape[i]
      PROVE  text[i] = from + before(i) /\ before(i) \in 1..before(len)
  <2>1. i \in 0..len /\ i - 1 \in 0..len /\ len \in 0..len /\ i <= len
    BY <1>0
  <2> QED
    BY <1>1, <1>2, <1>4, <2>1
<1>5. Ascending(text)
  <2> SUFFICES ASSUME NEW i \in 1..len, NEW j \in 1..len, i < j, Space \notin {text[i], text[j]}
               PROVE  text[i] < text[j]
    BY <1>2 DEF Ascending
  <2>1. shape[i] /\ shape[j]
    BY <1>2 DEF Space
  <2>2. before(i) <= before(j - 1) /\ before(j) = before(j - 1) + 1
    <3>1. i \in 0..len /\ j - 1 \in 0..len /\ i <= j - 1
      BY <1>0
    <3> QED
      BY <1>1, <2>1, <3>1
  <2>3. before(i) \in Nat /\ before(j) \in Nat /\ before(j - 1) \in Nat
    <3>1. i \in 0..len /\ j - 1 \in 0..len /\ j \in 0..len
      BY <1>0
    <3> QED
      BY <1>1, <3>1
  <2> QED
    BY <1>4, <2>1, <2>2, <2>3
<1>6. ASSUME NEW m \in 1..before(len)
      PROVE  \E i \in 1..len : shape[i] /\ before(i) = m
  <2> DEFINE T == {i \in 0..len : m <= before(i)}
  <2>1. len \in 0..len /\ before(len) \in Nat
    BY <1>0, <1>1
  <2>2. len \in T /\ T \subseteq Nat
    BY <1>0, <2>1
  <2>3. PICK i \in T : \A j \in T : i <= j
    BY <2>2, LeastNumber
  <2>4. i # 0
    BY <1>1, <2>1, <2>3
  <2>5. i \in 1..len /\ i - 1 \in 0..len /\ ~(m <= before(i - 1)) /\ m <= before(i)
    BY <1>0, <2>3, <2>4
  <2>6. before(i) = before(i - 1) + (IF shape[i] THEN 1 ELSE 0) /\ before(i - 1) \in Nat
    BY <1>1, <2>5
  <2> QED
    BY <2>1, <2>5, <2>6
<1>7. before(len) \in Nat
  BY <1>0, <1>1
<1>8. ASSUME NEW n PROVE n \in LettersIn(text) <=> n \in (from + 1)..(from + before(len))
  <2>1. ASSUME n \in LettersIn(text) PROVE n \in (from + 1)..(from + before(len))
    <3>1. PICK i \in 1..len : text[i] = n /\ n # Space
      BY <1>2, <2>1, LetterIs
    <3>2. shape[i]
      BY <1>2, <3>1 DEF Space
    <3> QED
      BY <1>4, <1>7, <3>1, <3>2
  <2>2. ASSUME n \in (from + 1)..(from + before(len)) PROVE n \in LettersIn(text)
    <3>1. n - from \in 1..before(len) /\ n # Space /\ from + (n - from) = n
      BY <1>7, <2>2 DEF Space
    <3>2. PICK i \in 1..len : shape[i] /\ before(i) = n - from
      BY <1>6, <3>1
    <3>3. i \in 1..Len(text) /\ text[i] = n
      BY <1>2, <1>4, <3>1, <3>2
    <3> QED
      BY <1>2, <3>1, <3>3, LetterAt, Zenon
  <2> QED
    BY <2>1, <2>2
<1>9. LettersIn(text) = (from + 1)..(from + before(len))
  BY <1>8
<1> QED
  BY <1>2, <1>3, <1>5, <1>7, <1>9 DEF text

----------------------------------------------------------------------------
(* Steps on the letters                                                    *)

\* What is gone is older than what is here, and has gone from a full ring.
Remains(H, g, n) ==
  /\ H \subseteq 1..g
  /\ \A m \in (1..g) \ H : n = Capacity /\ \A h \in H : m < h

LettersInv ==
  /\ Sorted(Window) /\ Sorted(todo) /\ AllBelow(Held(Window), Held(todo))
  /\ Remains(Held(Window) \cup Held(todo), given, size)
  /\ phase = "off" => given = 0

LEMMA LettersMean == ASSUME TypeOK PROVE LettersInv => LettersInOrder
<1>1. Len(Window) = size
  BY WindowIs, WindowType DEF TypeOK, RingTypeOK
<1>2. Shown = TextsOf(Window) /\ Waiting = TextsOf(todo)
  BY <1>1 DEF Shown, Waiting, TextsOf
<1> QED
  BY <1>2 DEF LettersInv, LettersInOrder, Sorted, Held, AllBelow, Remains

\* The letters of a line pushed stand last; the oldest line may go for it.
LEMMA PushedLetters ==
  ASSUME RingTypeOK, NEW kind \in Kinds, NEW text \in Seq(Nat), Len(text) <= Widest,
         PushOne(kind, text), Sorted(Window), Ascending(text), AllBelow(Held(Window), LettersIn(text))
  PROVE  /\ Sorted(Window')
         /\ \/ /\ size < Capacity /\ Held(Window') = Held(Window) \cup LettersIn(text)
            \/ /\ size = Capacity /\ size' = Capacity
               /\ \E H : /\ Held(Window) = H \cup Held(Tail(Window))
                         /\ AllBelow(H, Held(Tail(Window)))
                         /\ Held(Window') = Held(Tail(Window)) \cup LettersIn(text)
<1> DEFINE line == [kind |-> kind, text |-> text]
<1>1. line \in Lines /\ line.text = text
  BY DEF Lines
<1>2. Window' = IF Len(Window) < Capacity
                  THEN Append(Window, line) ELSE Append(Tail(Window), line)
  <2>1. /\ lines' = [lines EXCEPT ![head] = line] /\ head' = (head + 1) % Capacity
        /\ size' = IF size < Capacity THEN size + 1 ELSE size
    BY DEF PushOne
  <2> HIDE DEF line
  <2> QED
    BY <1>1, <2>1, PushedWindow, WindowIs DEF RingTypeOK
<1>3. Window \in Seq(Lines) /\ Len(Window) = size /\ size \in 0..Capacity
  BY WindowType, WindowIs DEF RingTypeOK
<1> HIDE DEF line
<1> DEFINE one == <<line>>
<1>4. one \in Seq(Lines) /\ Held(one) = LettersIn(text) /\ Sorted(one)
  BY <1>1, OneHeld
<1>7. \A q \in Seq(Lines) : Append(q, line) = q \o one
  BY <1>1
<1> HIDE DEF one
<1>5. CASE size < Capacity
  <2>1. Window' = Window \o one
    BY <1>2, <1>3, <1>5, <1>7
  <2>2. AllBelow(Held(Window), Held(one))
    BY <1>4
  <2>4. Joins(Window, one)
    BY <1>3, <1>4, JoinedHeld
  <2>3. Sorted(Window \o one) /\ Held(Window \o one) = Held(Window) \cup Held(one)
    BY <1>4, <2>2, <2>4 DEF Joins
  <2> QED
    BY <1>4, <1>5, <2>1, <2>3
<1>6. CASE ~(size < Capacity)
  <2>1. size = Capacity /\ size' = Capacity /\ Window # << >>
    BY <1>3, <1>6, Sizes DEF PushOne
  <2>2. /\ Tail(Window) \in Seq(Lines) /\ Sorted(Tail(Window))
        /\ Held(Window) = LettersIn(Head(Window).text) \cup Held(Tail(Window))
        /\ AllBelow(LettersIn(Head(Window).text), Held(Tail(Window)))
    BY <1>3, <2>1, FirstHeld, Zenon
  <2> DEFINE rest == Tail(Window)
  <2>3. Window' = rest \o one
    BY <1>2, <1>3, <1>6, <1>7, <2>2
  <2>4. AllBelow(Held(rest), Held(one))
    BY <1>4, <2>2 DEF AllBelow
  <2>6. Joins(rest, one)
    BY <1>4, <2>2, JoinedHeld
  <2>5. Sorted(rest \o one) /\ Held(rest \o one) = Held(rest) \cup Held(one)
    BY <1>4, <2>2, <2>4, <2>6 DEF Joins
  <2> QED
    BY <1>4, <2>1, <2>2, <2>3, <2>5
<1> QED
  BY <1>5, <1>6

\* So do those of a delta that the last line takes.
LEMMA ExtendedLetters ==
  ASSUME RingTypeOK, size > 0, NEW text \in Seq(Nat), ExtendLast(text),
         Len(text) <= Room(lines[Slot(size - 1)]),
         Sorted(Window), Ascending(text), AllBelow(Held(Window), LettersIn(text))
  PROVE  Sorted(Window') /\ Held(Window') = Held(Window) \cup LettersIn(text)
<1>1. LastGrows(text) /\ size \in Nat \ {0}
  BY ExtendTypes, Sizes DEF RingTypeOK
<1> DEFINE old == Window
           new == Window'
<1>2. /\ old \in Seq(Lines) /\ new \in Seq(Lines) /\ Len(old) = size /\ Len(new) = size
      /\ \A i \in 1..size : i # size => new[i] = old[i]
      /\ old[size].text \in Seq(Nat) /\ new[size].text = old[size].text \o text
  BY <1>1 DEF LastGrows
<1> HIDE DEF old, new
<1>3. GrowsBy(old, new, text)
  BY <1>1, <1>2, GrownHeld
<1> QED
  BY <1>3 DEF old, new, GrowsBy

LEMMA BlankText == LettersIn(<< >>) = {} /\ Ascending(<< >>) /\ << >> \in Seq(Nat)
<1>1. << >> \in Seq(Nat) /\ Len(<< >>) = 0
  OBVIOUS
<1>2. Ascending(<< >>)
  BY <1>1 DEF Ascending
<1>3. \A n \in LettersIn(<< >>) : FALSE
  <2>1. \A i \in 1..Len(<< >>) : FALSE
    BY <1>1
  <2> QED
    BY <1>1, <2>1, LetterIs, Zenon
<1> QED
  BY <1>1, <1>2, <1>3

\* What is left of a text goes back to the front.
LEMMA FrontLetters ==
  ASSUME NEW q \in Seq(Calls), Sorted(q), NEW text \in Seq(Nat), Ascending(text),
         AllBelow(LettersIn(text), Held(q))
  PROVE  LET r == <<Push("system", text)>> \o q IN
         r \in Seq(Calls) /\ Held(r) = LettersIn(text) \cup Held(q) /\ Sorted(r)
<1> DEFINE c == Push("system", text)
           one == <<c>>
<1>1. c \in Calls /\ c.text = text
  BY CallTypes, KindsKnown DEF Push, Call
<1> HIDE DEF c
<1>2. one \in Seq(Calls) /\ Held(one) = LettersIn(text) /\ Sorted(one)
  BY <1>1, OneHeld
<1> HIDE DEF one
<1>3. Joins(one, q)
  BY <1>2, JoinedHeld
<1>4. one \o q \in Seq(Calls)
  BY <1>2, ConcatType
<1>5. Held(one \o q) = LettersIn(text) \cup Held(q) /\ Sorted(one \o q)
  BY <1>2, <1>3 DEF Joins
<1> QED
  BY <1>4, <1>5 DEF one, c

LEMMA RemainsDrop ==
  ASSUME NEW H, NEW P, NEW g, Remains(H \cup P, g, Capacity), AllBelow(H, P)
  PROVE  Remains(P, g, Capacity)
<1> SUFFICES ASSUME NEW m \in (1..g) \ P, NEW h \in P
             PROVE  m < h
  BY DEF Remains
<1>1. CASE m \in H
  BY <1>1 DEF AllBelow
<1>2. CASE m \notin H
  BY <1>2 DEF Remains
<1> QED
  BY <1>1, <1>2

\* The first call gives the letters of a to the window and keeps those of b.
LEMMA TakenLetters ==
  ASSUME LettersInv, todo \in Seq(Calls), todo # << >>, NEW a, NEW b,
         LettersIn(NextCall.text) = LettersIn(a) \cup LettersIn(b),
         AllBelow(LettersIn(a), LettersIn(b)),
         UNCHANGED <<phase, given>>,
         Sorted(todo'), Held(todo') = LettersIn(b) \cup Held(Tail(todo)),
         Sorted(Window'),
         \/ /\ Held(Window') = Held(Window) \cup LettersIn(a)
            /\ size = Capacity => size' = Capacity
         \/ /\ size = Capacity /\ size' = Capacity
            /\ \E H : /\ Held(Window) = H \cup Held(Tail(Window))
                      /\ AllBelow(H, Held(Tail(Window)))
                      /\ Held(Window') = Held(Tail(Window)) \cup LettersIn(a)
  PROVE  LettersInv'
<1> DEFINE A == LettersIn(a)
           B == LettersIn(b)
           T == Held(Tail(todo))
           W == Held(Window)
           R == Held(Tail(Window))
           Q == Held(todo)
<1>1. Q = A \cup B \cup T /\ AllBelow(A \cup B, T) /\ AllBelow(W, Q)
      /\ Remains(W \cup Q, given, size) /\ (phase = "off" => given = 0)
  <2>1. Q = LettersIn(NextCall.text) \cup T /\ AllBelow(LettersIn(NextCall.text), T)
    BY FirstHeld DEF LettersInv, NextCall
  <2> QED
    BY <2>1 DEF LettersInv
<1>2. AllBelow(A, B) /\ Held(todo') = B \cup T
  OBVIOUS
<1>3. CASE /\ Held(Window') = W \cup A
           /\ size = Capacity => size' = Capacity
  <2> HIDE DEF A, B, T, W, Q
  <2>1. AllBelow(W \cup A, B \cup T)
    BY <1>1, <1>2 DEF AllBelow
  <2>2. Remains((W \cup A) \cup (B \cup T), given, size')
    <3>1. (W \cup A) \cup (B \cup T) = W \cup Q
      BY <1>1
    <3> QED
      BY <1>1, <1>3, <3>1 DEF Remains
  <2> QED
    BY <1>1, <1>2, <1>3, <2>1, <2>2 DEF LettersInv
<1>4. ASSUME size = Capacity, size' = Capacity,
             NEW H, W = H \cup R, AllBelow(H, R), Held(Window') = R \cup A
      PROVE  LettersInv'
  <2> HIDE DEF A, B, T, W, Q, R
  <2>1. AllBelow(R \cup A, B \cup T)
    BY <1>1, <1>2, <1>4 DEF AllBelow
  <2>2. AllBelow(H, (R \cup A) \cup (B \cup T))
    BY <1>1, <1>2, <1>4 DEF AllBelow
  <2>3. W \cup Q = H \cup ((R \cup A) \cup (B \cup T))
    BY <1>1, <1>4
  <2>4. Remains((R \cup A) \cup (B \cup T), given, Capacity)
    BY <1>1, <1>4, <2>2, <2>3, RemainsDrop
  <2> QED
    BY <1>1, <1>2, <1>4, <2>1, <2>4 DEF LettersInv
<1> QED
  BY <1>3, <1>4

LEMMA FirstLetters ==
  ASSUME LettersInv, todo \in Seq(Calls), todo # << >>
  PROVE  /\ Tail(todo) \in Seq(Calls) /\ Sorted(Tail(todo)) /\ Ascending(NextCall.text)
         /\ AllBelow(Held(Window), LettersIn(NextCall.text))
         /\ AllBelow(LettersIn(NextCall.text), Held(Tail(todo)))
<1>1. /\ Tail(todo) \in Seq(Calls) /\ Sorted(Tail(todo)) /\ Ascending(NextCall.text)
      /\ Held(todo) = LettersIn(NextCall.text) \cup Held(Tail(todo))
      /\ AllBelow(LettersIn(NextCall.text), Held(Tail(todo)))
  BY FirstHeld DEF LettersInv, NextCall
<1>2. AllBelow(Held(Window), Held(todo))
  BY DEF LettersInv
<1> QED
  BY <1>1, <1>2 DEF AllBelow

\* A text stays in the queue, or nothing of it does.
LEMMA RestLetters ==
  ASSUME LettersInv, todo \in Seq(Calls), todo # << >>, NEW b \in Seq(Nat), Ascending(b),
         LettersIn(b) \subseteq LettersIn(NextCall.text),
         \/ todo' = Tail(todo) /\ LettersIn(b) = {}
         \/ todo' = <<Push("system", b)>> \o Tail(todo)
  PROVE  Sorted(todo') /\ Held(todo') = LettersIn(b) \cup Held(Tail(todo))
<1>1. AllBelow(LettersIn(b), Held(Tail(todo)))
  BY FirstLetters DEF AllBelow
<1>2. CASE todo' = Tail(todo) /\ LettersIn(b) = {}
  BY <1>2, FirstLetters
<1>3. CASE todo' = <<Push("system", b)>> \o Tail(todo)
  BY <1>1, <1>3, FirstLetters, FrontLetters
<1> QED
  BY <1>2, <1>3

LEMMA PushLineLetters ==
  ASSUME TypeOK, LettersInv, PushLine
  PROVE  LettersInv'
<1>1. /\ todo \in Seq(Calls) /\ todo # << >> /\ RingTypeOK /\ NextCall.text \in Seq(Nat)
      /\ NextCall.arg \in Kinds /\ UNCHANGED <<phase, given>>
  BY NextCallTypes DEF TypeOK, PushLine, IsNext, mainVars
<1>2. PICK text \in Seq(Nat), kind \in Kinds : text = NextCall.text /\ kind = NextCall.arg
  BY <1>1
<1> DEFINE c == Cut(text)
           a == SubSeq(text, 1, c)
           b == SubSeq(text, c + 1, Len(text))
           rest == Remainder(text)
<1>3. /\ TwoPieces(text, a, b) /\ Len(a) <= Widest
      /\ LettersIn(rest) = LettersIn(b) /\ (Ascending(b) => Ascending(rest)) /\ rest \in Seq(Nat)
  <2>1. c \in 0..Len(text)
    BY CutBounds, Sizes
  <2>2. TwoPieces(text, a, b)
    BY <2>1, Pieces, Zenon
  <2>3. LettersIn(rest) = LettersIn(b) /\ (Ascending(b) => Ascending(rest))
    BY <2>2, Skipped DEF Remainder, TwoPieces
  <2> QED
    BY <2>2, <2>3, CutWidth, RemainderType
<1>4. /\ PushOne(kind, a)
      /\ todo' = IF rest = << >> THEN Tail(todo) ELSE <<Push("system", rest)>> \o Tail(todo)
  BY <1>2 DEF PushLine
<1>5. Ascending(text) /\ AllBelow(Held(Window), LettersIn(text))
  BY <1>1, <1>2, FirstLetters
<1> HIDE DEF a, b, rest
<1>6. /\ a \in Seq(Nat) /\ LettersIn(text) = LettersIn(a) \cup LettersIn(rest)
      /\ Ascending(a) /\ Ascending(rest) /\ AllBelow(LettersIn(a), LettersIn(rest))
      /\ AllBelow(Held(Window), LettersIn(a))
  BY <1>3, <1>5 DEF TwoPieces, AllBelow
<1>7. /\ Sorted(Window')
      /\ \/ /\ size < Capacity /\ Held(Window') = Held(Window) \cup LettersIn(a)
         \/ /\ size = Capacity /\ size' = Capacity
            /\ \E H : /\ Held(Window) = H \cup Held(Tail(Window))
                      /\ AllBelow(H, Held(Tail(Window)))
                      /\ Held(Window') = Held(Tail(Window)) \cup LettersIn(a)
  BY <1>1, <1>3, <1>4, <1>6, PushedLetters DEF LettersInv
<1>8. Sorted(todo') /\ Held(todo') = LettersIn(rest) \cup Held(Tail(todo))
  <2>1. rest = << >> => LettersIn(rest) = {}
    BY BlankText
  <2> QED
    BY <1>1, <1>2, <1>3, <1>4, <1>6, <2>1, RestLetters
<1>9. size < Capacity => size # Capacity
  BY <1>1, Sizes DEF RingTypeOK
<1> QED
  BY <1>1, <1>2, <1>6, <1>7, <1>8, <1>9, TakenLetters

\* The last line takes a piece of the text, perhaps all, and the rest stays.
LEMMA PieceLetters ==
  ASSUME TypeOK, LettersInv, todo # << >>, size > 0, NEW a, NEW b,
         TwoPieces(NextCall.text, a, b), ExtendLast(a), Len(a) <= Room(lines[Slot(size - 1)]),
         UNCHANGED <<phase, given>>,
         \/ todo' = Tail(todo) /\ LettersIn(b) = {}
         \/ todo' = <<Push("system", b)>> \o Tail(todo)
  PROVE  LettersInv'
<1>1. todo \in Seq(Calls) /\ RingTypeOK /\ size' = size
  BY DEF TypeOK, ExtendLast
<1>2. Ascending(NextCall.text) /\ AllBelow(Held(Window), LettersIn(NextCall.text))
  BY <1>1, FirstLetters
<1>3. /\ a \in Seq(Nat) /\ b \in Seq(Nat)
      /\ LettersIn(NextCall.text) = LettersIn(a) \cup LettersIn(b)
      /\ Ascending(a) /\ Ascending(b) /\ AllBelow(LettersIn(a), LettersIn(b))
      /\ AllBelow(Held(Window), LettersIn(a))
  BY <1>2 DEF TwoPieces, AllBelow
<1>4. Sorted(Window') /\ Held(Window') = Held(Window) \cup LettersIn(a)
  BY <1>1, <1>3, ExtendedLetters DEF LettersInv
<1>5. Sorted(todo') /\ Held(todo') = LettersIn(b) \cup Held(Tail(todo))
  BY <1>1, <1>3, RestLetters
<1> QED
  BY <1>1, <1>3, <1>4, <1>5, TakenLetters

LEMMA AppendLetters ==
  ASSUME TypeOK, LettersInv, AppendToLast
  PROVE  LettersInv'
<1>1. /\ todo \in Seq(Calls) /\ todo # << >> /\ RingTypeOK /\ NextCall.text \in Seq(Nat)
      /\ UNCHANGED <<phase, given>>
  BY NextCallTypes DEF TypeOK, AppendToLast, IsNext, mainVars
<1>2. PICK text \in Seq(Nat) : text = NextCall.text
  BY <1>1
<1>3. CASE size = 0
  <2>1. todo' = <<Push("system", text)>> \o Tail(todo) /\ UNCHANGED ringVars
    BY <1>2, <1>3 DEF AppendToLast
  <2>2. Window' = Window /\ size' = size
    BY <2>1 DEF Window, Slot, ringVars
  <2>3. Ascending(text)
    BY <1>1, <1>2, FirstLetters
  <2>4. Sorted(todo') /\ Held(todo') = LettersIn(text) \cup Held(Tail(todo))
    BY <1>1, <1>2, <2>1, <2>3, RestLetters
  <2>5. /\ LettersIn(NextCall.text) = LettersIn(<< >>) \cup LettersIn(text)
        /\ AllBelow(LettersIn(<< >>), LettersIn(text))
        /\ Held(Window') = Held(Window) \cup LettersIn(<< >>) /\ Sorted(Window')
    BY <1>2, <2>2, BlankText DEF AllBelow, LettersInv
  <2> QED
    BY <1>1, <2>2, <2>4, <2>5, TakenLetters
<1>4. CASE size # 0
  <2>1. size > 0
    BY <1>1, <1>4, SomeLine
  <2>2. PICK r \in Nat : r = Room(lines[Slot(size - 1)])
    BY <1>1, <2>1, RoomType
  <2>3. CASE Len(text) <= r
    <3>1. ExtendLast(text) /\ todo' = Tail(todo)
      BY <1>2, <1>4, <2>2, <2>3 DEF AppendToLast, Done
    <3>2. TwoPieces(text, text, << >>)
      BY BlankText DEF TwoPieces, AllBelow
    <3> QED
      BY <1>1, <1>2, <2>1, <2>2, <2>3, <3>1, <3>2, BlankText, PieceLetters
  <2>4. CASE ~(Len(text) <= r)
    <3>1. /\ ExtendLast(SubSeq(text, 1, r))
          /\ todo' = <<Push("system", Overflow(text, r))>> \o Tail(todo)
      BY <1>2, <1>4, <2>2, <2>4 DEF AppendToLast
    <3>2. r \in 0..Len(text) /\ Len(SubSeq(text, 1, r)) = r
      BY <2>4
    <3>3. TwoPieces(text, SubSeq(text, 1, r), Overflow(text, r))
      BY <3>2, Pieces, Zenon DEF Overflow
    <3>4. Len(SubSeq(text, 1, r)) <= r
      BY <3>2
    <3> QED
      BY <1>1, <1>2, <2>1, <2>2, <3>1, <3>3, <3>4, PieceLetters
  <2> QED
    BY <2>3, <2>4
<1> QED
  BY <1>3, <1>4

\* The other calls have no text, and leave the lines as they are.
LEMMA QuietLetters ==
  ASSUME TypeOK, LettersInv, Mark \/ ShowStatus \/ ShowLabel \/ ShowInput \/ Render
  PROVE  LettersInv'
<1>1. /\ todo \in Seq(Calls) /\ todo # << >> /\ todo' = Tail(todo)
      /\ NextCall.call \in {"dirty", "status", "label", "input", "render"}
      /\ UNCHANGED ringVars /\ UNCHANGED <<phase, given>>
  BY DEF TypeOK, Mark, ShowStatus, ShowLabel, ShowInput, Render, IsNext, Done, mainVars
<1>2. NextCall.text = << >>
  <2>1. NextCall \in Calls
    BY <1>1, NextCallTypes
  <2>2. \A c \in Calls : c.call \in {"dirty", "status", "label", "input", "render"} => c.text = << >>
    BY DEF Calls
  <2> QED
    BY <1>1, <2>1, <2>2
<1>3. Window' = Window /\ size' = size
  BY <1>1 DEF Window, Slot, ringVars
<1>4. Sorted(todo') /\ Held(todo') = LettersIn(<< >>) \cup Held(Tail(todo))
  BY <1>1, BlankText, FirstLetters
<1>5. /\ LettersIn(NextCall.text) = LettersIn(<< >>) \cup LettersIn(<< >>)
      /\ AllBelow(LettersIn(<< >>), LettersIn(<< >>))
      /\ Held(Window') = Held(Window) \cup LettersIn(<< >>) /\ Sorted(Window')
  BY <1>2, <1>3, BlankText DEF AllBelow, LettersInv
<1> QED
  BY <1>1, <1>3, <1>4, <1>5, TakenLetters

----------------------------------------------------------------------------
(* Scripts: the letters a handler gives                                    *)

Tells(q, H) == q \in Seq(Calls) /\ Sorted(q) /\ Held(q) = H

LEMMA TellsNothing ==
  ASSUME NEW q \in Seq(Calls), \A i \in 1..Len(q) : q[i].text = << >>
  PROVE  Tells(q, {})
<1>1. Held(q) = {}
  BY HeldIs, BlankText
<1>2. Sorted(q)
  BY SortedIs, BlankText DEF AllBelow
<1> QED
  BY <1>1, <1>2 DEF Tells

LEMMA TellsOneText ==
  ASSUME NEW q \in Seq(Calls), NEW k \in 1..Len(q), Ascending(q[k].text),
         \A i \in 1..Len(q) : i # k => q[i].text = << >>
  PROVE  Tells(q, LettersIn(q[k].text))
<1>1. \A i \in 1..Len(q) : i # k => LettersIn(q[i].text) = {} /\ Ascending(q[i].text)
  BY BlankText
<1>2. Held(q) = LettersIn(q[k].text)
  <2>1. \A n : n \in Held(q) <=> \E i \in 1..Len(q) : n \in LettersIn(q[i].text)
    BY HeldIs
  <2>2. \A n : n \in Held(q) <=> n \in LettersIn(q[k].text)
    BY <1>1, <2>1
  <2> QED
    BY <2>2
<1>3. Sorted(q)
  <2>1. ASSUME NEW i \in 1..Len(q), NEW j \in 1..Len(q), i < j
        PROVE  AllBelow(LettersIn(q[i].text), LettersIn(q[j].text))
    <3>1. i # k \/ j # k
      BY <2>1
    <3> QED
      BY <1>1, <3>1 DEF AllBelow
  <2>2. \A i \in 1..Len(q) : Ascending(q[i].text)
    BY <1>1
  <2> QED
    BY <2>1, <2>2, SortedIs
<1> QED
  BY <1>2, <1>3 DEF Tells

LEMMA TellsBoth ==
  ASSUME NEW s, NEW t, NEW H, NEW K, Tells(s, H), Tells(t, K), AllBelow(H, K)
  PROVE  Tells(s \o t, H \cup K)
<1>1. /\ s \in Seq(Calls) /\ Sorted(s) /\ Held(s) = H
      /\ t \in Seq(Calls) /\ Sorted(t) /\ Held(t) = K
  BY DEF Tells
<1>2. Joins(s, t) /\ s \o t \in Seq(Calls)
  BY <1>1, JoinedHeld, ConcatType
<1> QED
  BY <1>1, <1>2 DEF Joins, Tells

LEMMA TellsOn ==
  ASSUME NEW s, NEW t, NEW H
  PROVE  /\ Tells(s, H) /\ Tells(t, {}) => Tells(s \o t, H)
         /\ Tells(s, {}) /\ Tells(t, H) => Tells(s \o t, H)
<1>1. AllBelow(H, {}) /\ AllBelow({}, H) /\ H \cup {} = H /\ {} \cup H = H
  BY DEF AllBelow
<1>2. ASSUME Tells(s, H), Tells(t, {}) PROVE Tells(s \o t, H \cup {})
  BY <1>1, <1>2, TellsBoth
<1>3. ASSUME Tells(s, {}), Tells(t, H) PROVE Tells(s \o t, {} \cup H)
  BY <1>1, <1>3, TellsBoth
<1> QED
  BY <1>1, <1>2, <1>3

LEMMA SilentCalls ==
  /\ MarkDirty.text = << >> /\ SetLabel.text = << >> /\ SetInput.text = << >>
  /\ RenderCall.text = << >> /\ \A s \in Statuses : SetStatus(s).text = << >>
  /\ Tells(Redraw, {}) /\ Tells(<< >>, {})
<1>1. /\ MarkDirty.text = << >> /\ SetLabel.text = << >> /\ SetInput.text = << >>
      /\ RenderCall.text = << >> /\ \A s \in Statuses : SetStatus(s).text = << >>
  BY DEF MarkDirty, SetLabel, SetInput, RenderCall, SetStatus, Call
<1>2. Tells(Redraw, {})
  <2>1. /\ Redraw \in Seq(Calls) /\ Len(Redraw) = 2
        /\ Redraw[1] = SetInput /\ Redraw[2] = RenderCall
    BY CallTypes DEF Redraw
  <2>2. \A i \in 1..Len(Redraw) : Redraw[i].text = << >>
    BY <1>1, <2>1
  <2> QED
    BY <2>1, <2>2, TellsNothing
<1>3. Tells(<< >>, {})
  <2>1. << >> \in Seq(Calls) /\ \A i \in 1..Len(<< >>) : FALSE
    OBVIOUS
  <2> QED
    BY <2>1, OneHeld DEF Tells
<1> QED
  BY <1>1, <1>2, <1>3

\* Tuples of calls.
LEMMA TellsTuple ==
  ASSUME NEW c1 \in Calls, c1.text = << >>
  PROVE  /\ Tells(<<c1>>, {})
         /\ \A c2 \in Calls, c3 \in Calls, c4 \in Calls :
              c2.text = << >> /\ c3.text = << >> /\ c4.text = << >> =>
                Tells(<<c1, c2, c3, c4>>, {})
         /\ \A c2 \in Calls, c3 \in Calls :
              Ascending(c2.text) /\ c3.text = << >> =>
                Tells(<<c1, c2, c3>>, LettersIn(c2.text))
         /\ \A c2 \in Calls, c3 \in Calls, c4 \in Calls :
              Ascending(c2.text) /\ c3.text = << >> /\ c4.text = << >> =>
                Tells(<<c1, c2, c3, c4>>, LettersIn(c2.text))
<1>1. Tells(<<c1>>, {})
  <2> DEFINE q == <<c1>>
  <2>1. q \in Seq(Calls) /\ Len(q) = 1 /\ q[1] = c1
    OBVIOUS
  <2> HIDE DEF q
  <2>2. \A i \in 1..Len(q) : q[i].text = << >>
    BY <2>1
  <2>3. Tells(q, {})
    BY <2>1, <2>2, TellsNothing
  <2> QED
    BY <2>3 DEF q
<1>2. ASSUME NEW c2 \in Calls, NEW c3 \in Calls, NEW c4 \in Calls,
             c2.text = << >>, c3.text = << >>, c4.text = << >>
      PROVE  Tells(<<c1, c2, c3, c4>>, {})
  <2> DEFINE q == <<c1, c2, c3, c4>>
  <2>1. q \in Seq(Calls) /\ Len(q) = 4 /\ q[1] = c1 /\ q[2] = c2 /\ q[3] = c3 /\ q[4] = c4
    OBVIOUS
  <2> HIDE DEF q
  <2>2. \A i \in 1..Len(q) : q[i].text = << >>
    BY <1>2, <2>1
  <2>3. Tells(q, {})
    BY <2>1, <2>2, TellsNothing
  <2> QED
    BY <2>3 DEF q
<1>3. ASSUME NEW c2 \in Calls, NEW c3 \in Calls, Ascending(c2.text), c3.text = << >>
      PROVE  Tells(<<c1, c2, c3>>, LettersIn(c2.text))
  <2> DEFINE q == <<c1, c2, c3>>
  <2>1. q \in Seq(Calls) /\ Len(q) = 3 /\ q[1] = c1 /\ q[2] = c2 /\ q[3] = c3
    OBVIOUS
  <2> HIDE DEF q
  <2>2. 2 \in 1..Len(q) /\ \A i \in 1..Len(q) : i # 2 => q[i].text = << >>
    BY <1>3, <2>1
  <2>3. Tells(q, LettersIn(c2.text))
    BY <1>3, <2>1, <2>2, TellsOneText
  <2> QED
    BY <2>3 DEF q
<1>4. ASSUME NEW c2 \in Calls, NEW c3 \in Calls, NEW c4 \in Calls,
             Ascending(c2.text), c3.text = << >>, c4.text = << >>
      PROVE  Tells(<<c1, c2, c3, c4>>, LettersIn(c2.text))
  <2> DEFINE q == <<c1, c2, c3, c4>>
  <2>1. q \in Seq(Calls) /\ Len(q) = 4 /\ q[1] = c1 /\ q[2] = c2 /\ q[3] = c3 /\ q[4] = c4
    OBVIOUS
  <2> HIDE DEF q
  <2>2. 2 \in 1..Len(q) /\ \A i \in 1..Len(q) : i # 2 => q[i].text = << >>
    BY <1>4, <2>1
  <2>3. Tells(q, LettersIn(c2.text))
    BY <1>4, <2>1, <2>2, TellsOneText
  <2> QED
    BY <2>3 DEF q
<1> QED
  BY <1>1, <1>2, <1>3, <1>4

LEMMA TellsFirst ==
  ASSUME NEW c1 \in Calls, Ascending(c1.text), NEW c2 \in Calls, NEW c3 \in Calls,
         c2.text = << >>, c3.text = << >>
  PROVE  Tells(<<c1, c2, c3>>, LettersIn(c1.text)) /\ Tells(<<c1>>, LettersIn(c1.text))
<1> DEFINE q == <<c1, c2, c3>>
           one == <<c1>>
<1>1. /\ q \in Seq(Calls) /\ Len(q) = 3 /\ q[1] = c1 /\ q[2] = c2 /\ q[3] = c3
      /\ one \in Seq(Calls) /\ Len(one) = 1 /\ one[1] = c1
  OBVIOUS
<1> HIDE DEF q, one
<1>2. /\ 1 \in 1..Len(q) /\ \A i \in 1..Len(q) : i # 1 => q[i].text = << >>
      /\ 1 \in 1..Len(one) /\ \A i \in 1..Len(one) : i # 1 => one[i].text = << >>
  BY <1>1
<1>3. Tells(q, LettersIn(c1.text))
  BY <1>1, <1>2, TellsOneText
<1>4. Tells(one, LettersIn(c1.text))
  BY <1>1, <1>2, TellsOneText
<1> QED
  BY <1>3, <1>4 DEF q, one

LEMMA HandlerTells ==
  ASSUME TypeOK, LettersInv, todo = << >>, UNCHANGED ringVars, NEW k \in Nat, given' = given + k,
         phase # "off", phase' # "off", Tells(todo', (given + 1)..(given + k))
  PROVE  LettersInv'
<1>1. given \in Nat /\ Held(todo) = {} /\ Window' = Window /\ size' = size
  BY OneHeld DEF TypeOK, Window, Slot, ringVars
<1> DEFINE W == Held(Window)
           G == (given + 1)..(given + k)
<1>2. /\ Sorted(Window') /\ Held(Window') = W /\ Sorted(todo') /\ Held(todo') = G
  BY <1>1 DEF Tells, LettersInv
<1>3. Remains(W, given, size) /\ W \subseteq 1..given
  BY <1>1 DEF LettersInv, Remains
<1> HIDE DEF W
<1>4. AllBelow(W, G)
  BY <1>1, <1>3 DEF AllBelow
<1>5. Remains(W \cup G, given', size)
  <2>1. W \cup G \subseteq 1..given' /\ (1..given') \ (W \cup G) \subseteq (1..given) \ W
    BY <1>1, <1>3
  <2>2. ASSUME NEW m \in (1..given) \ W PROVE size = Capacity /\ \A h \in W \cup G : m < h
    BY <1>1, <1>3 DEF Remains
  <2> HIDE DEF G
  <2> QED
    BY <2>1, <2>2 DEF Remains
<1> QED
  BY <1>1, <1>2, <1>4, <1>5 DEF LettersInv

LEMMA PowerLetters ==
  ASSUME TypeOK, LettersInv, PowerOn \/ PowerOff
  PROVE  LettersInv'
<1>1. Window' = << >> /\ given' = 0 /\ Clear
  BY ClearTypes DEF PowerOn, PowerOff, LettersInv
<1>2. Tells(todo', {})
  <2>1. CASE PowerOn
    <3>1. Tells(<<MarkDirty, RenderCall, SetLabel, SetStatus("wifi")>>, {})
      BY Parts, SilentCalls, TellsTuple DEF Statuses
    <3> QED
      BY <2>1, <3>1, SilentCalls, TellsOn DEF PowerOn
  <2>2. CASE PowerOff
    BY <2>2, SilentCalls DEF PowerOff
  <2> QED
    BY <2>1, <2>2
<1>3. Held(Window') = {} /\ Sorted(Window')
  BY <1>1, OneHeld
<1>4. Remains({}, 0, size')
  BY DEF Remains
<1> QED
  BY <1>1, <1>2, <1>3, <1>4 DEF LettersInv, Tells, AllBelow

\* Handlers that say nothing.
LEMMA QuietHandlers ==
  ASSUME TypeOK, LettersInv,
         \/ ReconnectWifi \/ RestartTunnel \/ Heartbeat \/ Type \/ Backspace
         \/ TurnEnds \/ OpenView \/ CloseView
  PROVE  LettersInv'
<1>1. /\ todo = << >> /\ UNCHANGED ringVars /\ given' = given /\ phase # "off" /\ phase' # "off"
  BY DEF ReconnectWifi, RestartTunnel, Heartbeat, Type, Backspace, TurnEnds, OpenView, CloseView,
         Ready, Keep
<1>2. \A s \in {"wifi", "wg", "ready"} : Tells(<<SetStatus(s)>> \o Redraw, {})
  BY Parts, SilentCalls, TellsTuple, TellsOn DEF Statuses
<1>3. Tells(<<MarkDirty>> \o Redraw, {})
  BY Parts, SilentCalls, TellsTuple, TellsOn
<1>4. Tells(todo', {})
  <2>1. CASE ReconnectWifi \/ Heartbeat \/ TurnEnds \/ CloseView
    BY <1>2, <1>3, <2>1 DEF ReconnectWifi, Heartbeat, TurnEnds, CloseView
  <2>2. CASE RestartTunnel
    <3>1. Tells(<<SetStatus("wg")>> \o Redraw \o <<SetStatus("ready")>>, {})
      BY <1>2, Parts, SilentCalls, TellsTuple, TellsOn DEF Statuses
    <3> QED
      BY <2>2, <3>1, SilentCalls, TellsOn DEF RestartTunnel
  <2>3. CASE Type \/ Backspace
    BY <2>3, SilentCalls DEF Type, Backspace
  <2>4. CASE OpenView
    BY <1>1, <2>4, SilentCalls DEF OpenView
  <2> QED
    BY <2>1, <2>2, <2>3, <2>4
<1>5. (given + 1)..(given + 0) = {} /\ given' = given + 0
  <2>1. given \in Nat
    BY DEF TypeOK
  <2>2. \A g \in Nat : (g + 1)..(g + 0) = {} /\ g + 0 = g
    OBVIOUS
  <2> QED
    BY <1>1, <2>1, <2>2
<1> QED
  BY <1>1, <1>4, <1>5, HandlerTells

\* Handlers that say one text.
LEMMA OneTextHandlers ==
  ASSUME TypeOK, LettersInv, NEW shape \in Texts,
         \/ \E t \in {"wifi", "wg"} : SetupFails(t, shape)
         \/ SetupDone(shape) \/ Delta(shape) \/ TurnFails(shape)
         \/ \E id \in Profiles : Pick(id, shape)
  PROVE  LettersInv'
<1>1. /\ todo = << >> /\ UNCHANGED ringVars /\ given' = given + Letters(shape)
      /\ phase # "off" /\ phase' # "off" /\ given \in Nat
  BY DEF SetupFails, SetupDone, Delta, TurnFails, Pick, Ready, Keep, TypeOK
<1> DEFINE text == Numbered(shape, given)
           G == (given + 1)..(given + Letters(shape))
           said(kind) == Push(kind, text)
<1>2. /\ text \in Seq(Nat) /\ Ascending(text) /\ Letters(shape) \in Nat /\ LettersIn(text) = G
  BY <1>1, NumberedLetters
<1> HIDE DEF text, G
<1>3. /\ \A kind \in {"error", "system"} : said(kind) \in Calls /\ said(kind).text = text
      /\ AppendText(text) \in Calls /\ AppendText(text).text = text
  BY <1>2, CallTypes, KindsKnown DEF Push, AppendText, Call
<1> HIDE DEF said
<1>4. Tells(<<said("error"), MarkDirty, SetStatus("error")>> \o Redraw, G)
  <2>1. Tells(<<said("error"), MarkDirty, SetStatus("error")>>, G)
    BY <1>2, <1>3, Parts, SilentCalls, TellsFirst DEF Statuses
  <2> QED
    BY <2>1, SilentCalls, TellsOn
<1>5. Tells(<<SetStatus("wg")>> \o Redraw, {})
  BY Parts, SilentCalls, TellsTuple, TellsOn DEF Statuses
<1>6. Tells(todo', G)
  <2>1. ASSUME NEW t \in {"wifi", "wg"}, SetupFails(t, shape) PROVE Tells(todo', G)
    <3> DEFINE first == IF t = "wg" THEN <<SetStatus("wg")>> \o Redraw ELSE << >>
               rest == <<said("error"), MarkDirty, SetStatus("error")>>
    <3>1. Tells(first, {})
      BY <1>5, SilentCalls
    <3>2. Tells(rest, G)
      BY <1>2, <1>3, Parts, SilentCalls, TellsFirst DEF Statuses
    <3>3. todo' = first \o rest \o Redraw
      BY <2>1 DEF SetupFails, said, text
    <3> HIDE DEF first, rest
    <3> QED
      BY <3>1, <3>2, <3>3, SilentCalls, TellsOn
  <2>2. CASE SetupDone(shape)
    <3> DEFINE first == <<SetStatus("wg")>> \o Redraw
               rest == <<SetLabel, said("system"), MarkDirty, SetStatus("ready")>>
    <3>2. Tells(rest, G)
      BY <1>2, <1>3, Parts, SilentCalls, TellsTuple DEF Statuses
    <3>3. todo' = first \o rest \o Redraw
      BY <2>2 DEF SetupDone, said, text
    <3> HIDE DEF first, rest
    <3>4. Tells(first, {})
      BY <1>5 DEF first
    <3> QED
      BY <3>2, <3>3, <3>4, SilentCalls, TellsOn
  <2>3. CASE Delta(shape)
    <3>1. todo' = <<AppendText(text), MarkDirty, RenderCall>>
      BY <2>3 DEF Delta, OnDelta, text
    <3> QED
      BY <1>2, <1>3, <3>1, Parts, SilentCalls, TellsFirst
  <2>4. CASE TurnFails(shape)
    BY <1>4, <2>4 DEF TurnFails, said, text
  <2>5. ASSUME NEW id \in Profiles, Pick(id, shape) PROVE Tells(todo', G)
    <3>1. Tells(<<SetLabel, said("system"), MarkDirty>>, G)
      BY <1>2, <1>3, Parts, SilentCalls, TellsTuple
    <3>2. todo' = <<SetLabel, said("system"), MarkDirty>> \o Redraw
      BY <2>5 DEF Pick, said, text
    <3> QED
      BY <3>1, <3>2, SilentCalls, TellsOn
  <2> QED
    BY <2>1, <2>2, <2>3, <2>4, <2>5
<1> QED
  BY <1>1, <1>2, <1>6, HandlerTells DEF G

LEMMA FirstOfFour ==
  ASSUME NEW S, NEW a1 \in S, NEW a2 \in S, NEW a3 \in S, NEW a4 \in S
  PROVE  <<a1>> \o <<a2, a3, a4>> = <<a1, a2, a3, a4>>
<1> DEFINE s == <<a1>>
           t == <<a2, a3, a4>>
           q == <<a1, a2, a3, a4>>
<1>1. /\ s \in Seq(S) /\ Len(s) = 1 /\ s[1] = a1
      /\ t \in Seq(S) /\ Len(t) = 3 /\ t[1] = a2 /\ t[2] = a3 /\ t[3] = a4
      /\ q \in Seq(S) /\ Len(q) = 4 /\ q[1] = a1 /\ q[2] = a2 /\ q[3] = a3 /\ q[4] = a4
  OBVIOUS
<1> HIDE DEF s, t, q
<1>5. /\ s \o t \in Seq(S) /\ Len(s \o t) = Len(s) + Len(t)
      /\ \A i \in 1..Len(s) : (s \o t)[i] = s[i]
      /\ \A i \in 1..Len(t) : (s \o t)[Len(s) + i] = t[i]
  <2>1. s \in Seq(S) /\ t \in Seq(S)
    BY <1>1
  <2> QED
    BY <2>1, Joined
<1> DEFINE r == s \o t
<1>6. /\ r \in Seq(S) /\ Len(r) = Len(s) + Len(t)
      /\ \A i \in 1..Len(s) : r[i] = s[i]
      /\ \A i \in 1..Len(t) : r[Len(s) + i] = t[i]
  BY <1>5
<1> HIDE DEF r
<1>7. 1 \in 1..1 /\ 1 \in 1..3 /\ 2 \in 1..3 /\ 3 \in 1..3 /\ 1 + 1 = 2 /\ 1 + 2 = 3 /\ 1 + 3 = 4
  OBVIOUS
<1>8. Len(r) = 4 /\ r[1] = a1 /\ r[2] = a2 /\ r[3] = a3 /\ r[4] = a4
  BY <1>1, <1>6, <1>7
<1>2. s \o t \in Seq(S) /\ Len(s \o t) = 4
  BY <1>6, <1>8 DEF r
<1>3. (s \o t)[1] = a1 /\ (s \o t)[2] = a2 /\ (s \o t)[3] = a3 /\ (s \o t)[4] = a4
  BY <1>8 DEF r
<1>4. s \o t = q
  BY <1>1, <1>2, <1>3
<1> QED
  BY <1>4 DEF s, t, q

\* A question, and the mark that the reply will follow.
LEMMA SendLetters ==
  ASSUME TypeOK, LettersInv, NEW ask \in Texts, NEW prompt \in Texts, Send(ask, prompt)
  PROVE  LettersInv'
<1>1. /\ todo = << >> /\ UNCHANGED ringVars /\ given' = given + Letters(ask) + Letters(prompt)
      /\ phase # "off" /\ phase' # "off" /\ given \in Nat
  BY DEF Send, Ready, Keep, TypeOK
<1> DEFINE n == Letters(ask)
           m == Letters(prompt)
           one == Numbered(ask, given)
           two == Numbered(prompt, given + n)
<1>2. /\ one \in Seq(Nat) /\ Ascending(one) /\ n \in Nat
      /\ LettersIn(one) = (given + 1)..(given + n)
  BY <1>1, NumberedLetters
<1>3. given + n \in Nat
  BY <1>1, <1>2
<1>4. /\ two \in Seq(Nat) /\ Ascending(two) /\ m \in Nat
      /\ LettersIn(two) = (given + n + 1)..(given + n + m)
  BY <1>3, NumberedLetters
<1> DEFINE c1 == Push("user", one)
           c2 == Push("assistant", two)
<1>5. todo' = <<c1, c2, MarkDirty, SetStatus("sending")>> \o Redraw
  BY DEF Send
<1> HIDE DEF n, m, one, two
<1>6. c1 \in Calls /\ c1.text = one /\ c2 \in Calls /\ c2.text = two
  BY <1>2, <1>4, CallTypes, KindsKnown DEF Push, Call
<1> HIDE DEF c1, c2
<1>7. /\ SetStatus("sending") \in Calls /\ SetStatus("sending").text = << >>
      /\ MarkDirty \in Calls /\ MarkDirty.text = << >>
  BY Parts, SilentCalls DEF Statuses
<1>8. Tells(<<c1>>, LettersIn(one)) /\ Tells(<<c2, MarkDirty, SetStatus("sending")>>, LettersIn(two))
  BY <1>2, <1>4, <1>6, <1>7, TellsFirst
<1>9. <<c1>> \o <<c2, MarkDirty, SetStatus("sending")>> = <<c1, c2, MarkDirty, SetStatus("sending")>>
  BY <1>6, <1>7, FirstOfFour
<1>10. /\ AllBelow(LettersIn(one), LettersIn(two))
       /\ LettersIn(one) \cup LettersIn(two) = (given + 1)..(given + (n + m))
  BY <1>1, <1>2, <1>4 DEF AllBelow
<1>11. Tells(<<c1, c2, MarkDirty, SetStatus("sending")>>, (given + 1)..(given + (n + m)))
  <2>1. Tells(<<c1>> \o <<c2, MarkDirty, SetStatus("sending")>>, LettersIn(one) \cup LettersIn(two))
    BY <1>8, <1>10, TellsBoth, Zenon
  <2> QED
    BY <1>9, <1>10, <2>1
<1>12. Tells(todo', (given + 1)..(given + (n + m)))
  BY <1>5, <1>11, SilentCalls, TellsOn
<1>13. n + m \in Nat /\ given' = given + (n + m)
  BY <1>1, <1>2, <1>4 DEF n, m
<1> QED
  BY <1>1, <1>12, <1>13, HandlerTells

LEMMA LettersInit == Init => LettersInv
<1> SUFFICES ASSUME Init PROVE LettersInv
  OBVIOUS
<1>1. Window = << >> /\ todo = << >> /\ given = 0
  <2>1. size = 0 /\ todo = << >> /\ given = 0
    BY DEF Init, RingInit
  <2> QED
    BY <2>1 DEF Window
<1>2. Remains({}, 0, size)
  BY DEF Remains
<1> QED
  BY <1>1, <1>2, OneHeld DEF LettersInv, AllBelow

LEMMA LettersNext == TypeOK /\ LettersInv /\ [Next]_vars => LettersInv'
<1> SUFFICES ASSUME TypeOK, LettersInv, [Next]_vars PROVE LettersInv'
  OBVIOUS
<1>1. CASE Calling
  BY <1>1, PushLineLetters, AppendLetters, QuietLetters DEF Calling
<1>2. CASE Handling
  BY <1>2, PowerLetters, QuietHandlers, OneTextHandlers, SendLetters DEF Handling
<1>3. CASE UNCHANGED vars
  BY <1>3 DEF vars, ringVars, mainVars, LettersInv, Window, Slot
<1> QED
  BY <1>1, <1>2, <1>3 DEF Next

(* Whatever the texts, the width and the capacity, breaking and            *)
(* overflowing keep each letter once and in the order given, and only the  *)
(* oldest are missing, when the ring is full.                              *)
THEOREM LettersKeepOrder == Spec => []LettersInOrder
<1>1. TypeOK /\ LettersInv => LettersInOrder
  BY LettersMean
<1> QED
  BY <1>1, LettersInit, LettersNext, ScreenTypeCorrect, PTL DEF Spec

----------------------------------------------------------------------------
(* Coming to an end                                                        *)

\* What is left to do is less: a call has gone, what did not fit in the last
\* line is pushed, or a push has less text to break.
Shrinks ==
  \/ Len(todo') < Len(todo)
  \/ /\ Len(todo') = Len(todo) /\ Tail(todo') = Tail(todo)
     /\ \/ todo[1].call = "append" /\ todo'[1].call = "push"
        \/ /\ todo[1].call = "push" /\ todo'[1].call = "push"
           /\ Len(todo'[1].text) < Len(todo[1].text)

EveryCallShrinks == [][Calling => Shrinks]_vars

LEMMA SkipShortens ==
  ASSUME NEW text \in Seq(Nat)
  PROVE  Len(SkipSpaces(text)) <= Len(text)
<1> DEFINE starts == {i \in 1..Len(text) : text[i] # Space}
<1>1. CASE starts = {}
  BY <1>1 DEF SkipSpaces
<1>2. CASE starts # {}
  <2>1. \E i \in starts : \A j \in starts : i <= j
    <3>1. starts \subseteq Nat
      OBVIOUS
    <3> HIDE DEF starts
    <3> QED
      BY <1>2, <3>1, LeastNumber
  <2>2. PICK i \in starts : SkipSpaces(text) = SubSeq(text, i, Len(text))
    BY <1>2, <2>1 DEF SkipSpaces
  <2>3. i \in 1..Len(text)
    OBVIOUS
  <2> QED
    BY <2>2, <2>3
<1> QED
  BY <1>1, <1>2

\* A line takes at least one character of a text that is not empty.
LEMMA RemainderShortens ==
  ASSUME NEW text \in Seq(Nat), Remainder(text) # << >>
  PROVE  Len(Remainder(text)) < Len(text)
<1> DEFINE b == SubSeq(text, Cut(text) + 1, Len(text))
<1>1. Cut(text) \in Nat /\ Cut(text) <= Len(text) /\ (text # << >> => Cut(text) > 0)
  BY CutBounds, Sizes
<1>2. b \in Seq(Nat) /\ Len(b) = Len(text) - Cut(text) /\ Len(text) \in Nat
  BY <1>1
<1>3. Remainder(text) = SkipSpaces(b)
  BY DEF Remainder
<1>4. Remainder(text) \in Seq(Nat)
  BY RemainderType
<1> HIDE DEF b
<1>5. Len(Remainder(text)) <= Len(b) /\ Len(Remainder(text)) \in Nat
  BY <1>2, <1>3, <1>4, SkipShortens
<1>6. text # << >>
  <2>1. Len(Remainder(text)) > 0
    BY <1>4, <1>5
  <2>2. Len(text) > 0
    BY <1>1, <1>2, <1>5, <2>1
  <2> QED
    BY <2>2
<1> QED
  BY <1>1, <1>2, <1>5, <1>6

LEMMA TailShorter ==
  ASSUME NEW s \in Seq(Calls), s # << >>
  PROVE  Len(Tail(s)) < Len(s)
OBVIOUS

\* The first call is replaced.
LEMMA Replaced ==
  ASSUME NEW s \in Seq(Calls), s # << >>, NEW c \in Calls
  PROVE  LET new == <<c>> \o Tail(s) IN
         Len(new) = Len(s) /\ Tail(new) = Tail(s) /\ new[1] = c
<1>1. Tail(s) \in Seq(Calls) /\ Len(s) \in Nat \ {0} /\ Len(Tail(s)) = Len(s) - 1
  OBVIOUS
<1>2. PICK rest \in Seq(Calls) : rest = Tail(s)
  BY <1>1
<1> DEFINE new == <<c>> \o rest
<1>3. /\ new \in Seq(Calls) /\ Len(new) = Len(rest) + 1 /\ new[1] = c
      /\ \A i \in 1..Len(rest) : new[i + 1] = rest[i]
  OBVIOUS
<1>4. Tail(new) = rest
  <2> HIDE DEF new
  <2>1. Tail(new) \in Seq(Calls) /\ Len(Tail(new)) = Len(rest)
        /\ \A i \in 1..Len(rest) : Tail(new)[i] = new[i + 1]
    BY <1>3
  <2> QED
    BY <1>3, <2>1
<1> HIDE DEF new
<1>5. Len(new) = Len(s) /\ Tail(new) = Tail(s)
  BY <1>1, <1>2, <1>3, <1>4
<1> QED
  BY <1>2, <1>3, <1>5 DEF new

LEMMA PushLineShrinks == ASSUME TypeOK, PushLine PROVE Shrinks
<1>1. todo \in Seq(Calls) /\ todo # << >> /\ NextCall.text \in Seq(Nat)
      /\ NextCall.call = "push" /\ NextCall = todo[1]
  <2>1. todo \in Seq(Calls) /\ todo # << >> /\ NextCall.call = "push"
    BY Zenon DEF TypeOK, PushLine, IsNext
  <2>2. NextCall = todo[1]
    BY <2>1 DEF NextCall
  <2> QED
    BY <2>1, <2>2, NextCallTypes
<1>2. PICK text \in Seq(Nat) : text = NextCall.text
  BY <1>1
<1>3. PICK rest \in Seq(Nat) : rest = Remainder(text)
  BY RemainderType
<1>4. todo' = IF rest = << >> THEN Tail(todo) ELSE <<Push("system", rest)>> \o Tail(todo)
  BY <1>2, <1>3 DEF PushLine
<1>5. CASE rest = << >>
  BY <1>1, <1>4, <1>5, TailShorter DEF Shrinks
<1>6. CASE rest # << >>
  <2>1. PICK c \in Calls : c = Push("system", rest)
    BY CallTypes, KindsKnown
  <2>2. c.call = "push" /\ c.text = rest
    BY <2>1 DEF Push, Call
  <2>3. Len(todo') = Len(todo) /\ Tail(todo') = Tail(todo) /\ todo'[1] = c
    BY <1>1, <1>4, <1>6, <2>1, Replaced, Zenon
  <2>4. Len(rest) < Len(text)
    BY <1>3, <1>6, RemainderShortens
  <2> QED
    BY <1>1, <1>2, <2>2, <2>3, <2>4, Zenon DEF Shrinks
<1> QED
  BY <1>5, <1>6

LEMMA AppendShrinks == ASSUME TypeOK, AppendToLast PROVE Shrinks
<1>1. todo \in Seq(Calls) /\ todo # << >> /\ NextCall.text \in Seq(Nat)
      /\ NextCall.call = "append" /\ NextCall = todo[1]
  <2>1. todo \in Seq(Calls) /\ todo # << >> /\ NextCall.call = "append"
    BY Zenon DEF TypeOK, AppendToLast, IsNext
  <2>2. NextCall = todo[1]
    BY <2>1 DEF NextCall
  <2> QED
    BY <2>1, <2>2, NextCallTypes
<1>2. \/ todo' = Tail(todo)
      \/ \E text \in Seq(Nat) : todo' = <<Push("system", text)>> \o Tail(todo)
  <2> DEFINE room == Room(lines[Slot(size - 1)])
  <2>1. CASE size = 0
    BY <1>1, <2>1 DEF AppendToLast
  <2>2. CASE size # 0 /\ Len(NextCall.text) <= room
    BY <2>2 DEF AppendToLast, Done
  <2>3. CASE size # 0 /\ ~(Len(NextCall.text) <= room)
    <3>1. room \in Nat
      BY <2>3, RoomType, SomeLine DEF TypeOK
    <3>2. Overflow(NextCall.text, room) \in Seq(Nat)
      BY <1>1, <2>3, <3>1, OverflowType
    <3>3. todo' = <<Push("system", Overflow(NextCall.text, room))>> \o Tail(todo)
      BY <2>3 DEF AppendToLast
    <3> QED
      BY <3>2, <3>3
  <2> QED
    BY <2>1, <2>2, <2>3
<1>3. CASE todo' = Tail(todo)
  BY <1>1, <1>3, TailShorter DEF Shrinks
<1>4. ASSUME NEW text \in Seq(Nat), todo' = <<Push("system", text)>> \o Tail(todo)
      PROVE  Shrinks
  <2>1. PICK c \in Calls : c = Push("system", text)
    BY CallTypes, KindsKnown
  <2>2. c.call = "push"
    BY <2>1 DEF Push, Call
  <2>3. Len(todo') = Len(todo) /\ Tail(todo') = Tail(todo) /\ todo'[1] = c
    BY <1>1, <1>4, <2>1, Replaced, Zenon
  <2> QED
    BY <1>1, <2>2, <2>3, Zenon DEF Shrinks
<1> QED
  BY <1>2, <1>3, <1>4

(* push cannot go on for ever: each call a handler makes goes, becomes the *)
(* push of what did not fit, or has less text to break than before.        *)
THEOREM CallsShrink == Spec => EveryCallShrinks
<1>1. TypeOK /\ [Next]_vars => [Calling => Shrinks]_vars
  <2> SUFFICES ASSUME TypeOK, Calling
               PROVE  Shrinks
    OBVIOUS
  <2>1. CASE Mark \/ ShowStatus \/ ShowLabel \/ ShowInput \/ Render
    <3>1. todo \in Seq(Calls) /\ todo # << >> /\ todo' = Tail(todo)
      BY <2>1 DEF TypeOK, Mark, ShowStatus, ShowLabel, ShowInput, Render, IsNext, Done
    <3> QED
      BY <3>1, TailShorter DEF Shrinks
  <2> QED
    BY <2>1, PushLineShrinks, AppendShrinks DEF Calling
<1> QED
  BY <1>1, ScreenTypeCorrect, PTL DEF Spec, EveryCallShrinks
=============================================================================
