------------------------------ MODULE KeyRing -------------------------------
(***************************************************************************)
(* The two rings of keyboard_input.cpp: a fixed array, the next slot to    *)
(* write (head) and the next to read (tail).  One slot always stays free,  *)
(* so that head = tail can only mean that the ring is empty.               *)
(***************************************************************************)
EXTENDS Integers, Sequences

RingOf(size, keys) ==
  [slots : [0..(size - 1) -> keys], head : 0..(size - 1), tail : 0..(size - 1)]

\* Static storage: zeroed, head and tail at 0.
FreshRing(size, blank) ==
  [slots |-> [i \in 0..(size - 1) |-> blank], head |-> 0, tail |-> 0]

Succ(size, i) == (i + 1) % size

RingIsEmpty(ring) == ring.tail = ring.head

RingIsFull(size, ring) == Succ(size, ring.head) = ring.tail

\* Mutant: the ring is full only when head would run past tail.
PutLate(size, ring, key) ==
  [ring EXCEPT !.slots[ring.head] = key, !.head = Succ(size, ring.head)]

\* enqueue, enqueue_special: a key that does not fit is dropped.
Put(size, ring, key) ==
  IF RingIsFull(size, ring)
    THEN ring
    ELSE [ring EXCEPT !.slots[ring.head] = key, !.head = Succ(size, ring.head)]

\* dequeue, dequeue_special, of a ring that is not empty.
Oldest(ring) == ring.slots[ring.tail]

Taken(size, ring) == [ring EXCEPT !.tail = Succ(size, @)]

----------------------------------------------------------------------------
\* What a ring holds, oldest first.
Held(size, ring) == (ring.head + size - ring.tail) % size

Contents(size, ring) ==
  [i \in 1..Held(size, ring) |-> ring.slots[(ring.tail + i - 1) % size]]
=============================================================================
