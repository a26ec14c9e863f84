----------------------------- MODULE Scrollback -----------------------------
(***************************************************************************)
(* scrollback.cpp: a ring of the last Capacity lines of the chat.  A text  *)
(* is broken into lines of at most Width characters; a delta of the reply  *)
(* goes on in the last line and overflows into new ones.                   *)
(*                                                                         *)
(* A character is a number: 0 is the space, and the others are letters,    *)
(* numbered in the order in which they were given to the scrollback.       *)
(***************************************************************************)
EXTENDS Integers, Sequences

CONSTANTS
  Capacity,  \* kCapacity (32)
  TextSize,  \* sizeof Line::text (64)
  Width,     \* the width the callers pass (20)
  Kinds      \* LineKind

ASSUME ScrollbackAssumption ==
  /\ Capacity \in Nat \ {0} /\ TextSize \in Nat /\ TextSize > 1 /\ Width \in Nat
  /\ "system" \in Kinds

VARIABLES
  lines,  \* s_lines
  head,   \* s_head: the next slot to write
  size    \* s_size

ringVars == <<lines, head, size>>

Space == 0

\* Both push and append_to_last first bring the width into range.
Widest == IF Width >= TextSize THEN TextSize - 1 ELSE IF Width = 0 THEN 1 ELSE Width

Lines == {line \in [kind : Kinds, text : Seq(Nat)] : Len(line.text) <= Widest}
Blank == [kind |-> "system", text |-> << >>]

RingTypeOK ==
  /\ lines \in [0..(Capacity - 1) -> Lines]
  /\ head \in 0..(Capacity - 1) /\ size \in 0..Capacity

RingInit == lines = [i \in 0..(Capacity - 1) |-> Blank] /\ head = 0 /\ size = 0

\* begin
Clear == lines' = [i \in 0..(Capacity - 1) |-> Blank] /\ head' = 0 /\ size' = 0

\* slot: where the i-th line that is still present is kept, from 0.
Slot(i) == (head + Capacity - size + i) % Capacity

\* Mutant: the ring is taken to be full one line early.
PushOneEarly(kind, text) ==
  /\ lines' = [lines EXCEPT ![head] = [kind |-> kind, text |-> text]]
  /\ head' = (head + 1) % Capacity
  /\ size' = IF size < Capacity - 1 THEN size + 1 ELSE size

PushOne(kind, text) ==
  /\ lines' = [lines EXCEPT ![head] = [kind |-> kind, text |-> text]]
  /\ head' = (head + 1) % Capacity
  /\ size' = IF size < Capacity THEN size + 1 ELSE size

----------------------------------------------------------------------------
(* Breaking a text                                                         *)

\* Places before or after a space, and the place after the first character.
Breaks(text) == {b \in 1..Widest : b = 1 \/ text[b] = Space \/ text[b + 1] = Space}

LastBreak(text) == CHOOSE b \in Breaks(text) : \A c \in Breaks(text) : c <= b

\* Mutant: only at a space, however long the word is.
CutAtSpace(text) ==
  IF Len(text) <= Widest THEN Len(text)
  ELSE IF \E b \in Breaks(text) : Space \in {text[b], text[b + 1]} THEN LastBreak(text) ELSE 0

\* How much of the text the next line takes.
Cut(text) ==
  IF Len(text) <= Widest THEN Len(text)
  ELSE IF LastBreak(text) > Widest \div 2 THEN LastBreak(text) ELSE Widest

\* while (*p == ' ') ++p
SkipSpaces(text) ==
  LET starts == {i \in 1..Len(text) : text[i] # Space} IN
  IF starts = {} THEN << >>
  ELSE SubSeq(text, CHOOSE i \in starts : \A j \in starts : i <= j, Len(text))

Remainder(text) == SkipSpaces(SubSeq(text, Cut(text) + 1, Len(text)))

\* Mutant: one character more than the width allows.
RoomTooMuch(line) == Widest - Len(line.text) + 1

Room(line) == Widest - Len(line.text)

\* Mutant: the new line begins with what the old one has taken already.
OverflowWhole(text, room) == text

Overflow(text, room) == SubSeq(text, room + 1, Len(text))

ExtendLast(text) ==
  /\ lines' = [lines EXCEPT ![Slot(size - 1)].text = @ \o text]
  /\ UNCHANGED <<head, size>>

----------------------------------------------------------------------------
\* The lines that are present, oldest first.
Window == [i \in 1..size |-> lines[Slot(i - 1)]]
=============================================================================
