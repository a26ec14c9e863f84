---------------------------- MODULE ConsoleProofs ----------------------------
(***************************************************************************)
(* The keyboard's rings behave as bounded queues whatever their sizes, so  *)
(* that the console implements KeyFifo; a factory reset needs an Enter of  *)
(* its own; and a profile list of any length, cut after any token, is read *)
(* whole or not at all, so that the picker never marks a row it lacks.     *)
(***************************************************************************)
EXTENDS Console, WellFoundedInduction, TLAPS

----------------------------------------------------------------------------
(* Rings                                                                   *)

LEMMA Slots ==
  ASSUME NEW size \in Nat \ {0}, NEW i \in 0..(size - 1)
  PROVE  /\ Succ(size, i) \in 0..(size - 1)
         /\ Succ(size, i) = IF i + 1 < size THEN i + 1 ELSE 0
<1>1. i + 1 \in 0..(2 * size - 1)
  OBVIOUS
<1>2. (i + 1) % size = IF i + 1 < size THEN i + 1 ELSE i + 1 - size
  BY <1>1
<1> QED
  BY <1>2 DEF Succ

LEMMA Distance ==
  ASSUME NEW size \in Nat \ {0}, NEW h \in 0..(size - 1), NEW t \in 0..(size - 1)
  PROVE  (h + size - t) % size = IF h >= t THEN h - t ELSE h + size - t
OBVIOUS

LEMMA Position ==
  ASSUME NEW size \in Nat \ {0}, NEW t \in 0..(size - 1), NEW i \in 1..size
  PROVE  /\ (t + i - 1) % size \in 0..(size - 1)
         /\ (t + i - 1) % size = IF t + i - 1 < size THEN t + i - 1 ELSE t + i - 1 - size
OBVIOUS

LEMMA HeldCount ==
  ASSUME NEW size \in Nat \ {0}, NEW keys, NEW ring \in RingOf(size, keys)
  PROVE  /\ Held(size, ring) = IF ring.head >= ring.tail THEN ring.head - ring.tail
                               ELSE ring.head + size - ring.tail
         /\ Held(size, ring) \in 0..(size - 1)
         /\ Len(Contents(size, ring)) = Held(size, ring)
         /\ \A i \in 1..Held(size, ring) :
              /\ (ring.tail + i - 1) % size \in 0..(size - 1)
              /\ (ring.tail + i - 1) % size =
                   IF ring.tail + i - 1 < size THEN ring.tail + i - 1
                   ELSE ring.tail + i - 1 - size
         /\ Contents(size, ring) \in Seq(keys)
<1> DEFINE h == ring.head
           t == ring.tail
<1>0. h \in 0..(size - 1) /\ t \in 0..(size - 1) /\ ring.slots \in [0..(size - 1) -> keys]
  BY DEF RingOf
<1>1. /\ Held(size, ring) = IF h >= t THEN h - t ELSE h + size - t
      /\ Held(size, ring) \in 0..(size - 1)
  <2>1. Held(size, ring) = IF h >= t THEN h - t ELSE h + size - t
    BY <1>0, Distance, Zenon DEF Held
  <2> QED
    BY <1>0, <2>1
<1>2. ASSUME NEW i \in 1..Held(size, ring)
      PROVE  /\ (t + i - 1) % size \in 0..(size - 1)
             /\ (t + i - 1) % size = IF t + i - 1 < size THEN t + i - 1 ELSE t + i - 1 - size
  <2>1. i \in 1..size
    BY <1>1
  <2> QED
    BY <1>0, <2>1, Position, Zenon
<1>3. \A i \in 1..Held(size, ring) : ring.slots[(t + i - 1) % size] \in keys
  BY <1>0, <1>2
<1>4. Contents(size, ring) \in Seq(keys) /\ Len(Contents(size, ring)) = Held(size, ring)
  BY <1>1, <1>3 DEF Contents
<1> QED
  BY <1>1, <1>2, <1>4

LEMMA FreshEmpty ==
  ASSUME NEW size \in Nat \ {0}, NEW keys, NEW blank \in keys
  PROVE  /\ FreshRing(size, blank) \in RingOf(size, keys)
         /\ Contents(size, FreshRing(size, blank)) = << >>
<1>1. FreshRing(size, blank) \in RingOf(size, keys)
  BY DEF FreshRing, RingOf
<1>2. Held(size, FreshRing(size, blank)) = 0
  BY <1>1, HeldCount DEF FreshRing
<1> QED
  BY <1>1, <1>2, HeldCount

LEMMA NextSlot ==
  ASSUME NEW size \in Nat \ {0}, NEW t \in 0..(size - 1), NEW g,
         g = IF t + 1 < size THEN t + 1 ELSE 0,
         NEW i \in 1..(size - 1)
  PROVE  (g + i - 1) % size = (t + (i + 1) - 1) % size
<1>1. g \in 0..(size - 1) /\ i \in 1..size /\ i + 1 \in 1..size
  OBVIOUS
<1>2. (g + i - 1) % size = IF g + i - 1 < size THEN g + i - 1 ELSE g + i - 1 - size
  BY <1>1, Position, Zenon
<1>3. (t + (i + 1) - 1) % size =
        IF t + (i + 1) - 1 < size THEN t + (i + 1) - 1 ELSE t + (i + 1) - 1 - size
  BY <1>1, Position, Zenon
<1> QED
  BY <1>2, <1>3

(* A ring of size slots is a queue with room for size - 1 keys.            *)
LEMMA PutAppends ==
  ASSUME NEW size \in Nat \ {0}, NEW keys, NEW ring \in RingOf(size, keys), NEW key \in keys
  PROVE  /\ Put(size, ring, key) \in RingOf(size, keys)
         /\ Contents(size, Put(size, ring, key)) =
              IF Len(Contents(size, ring)) < size - 1
                THEN Append(Contents(size, ring), key) ELSE Contents(size, ring)
<1> DEFINE n   == Held(size, ring)
           g   == Succ(size, ring.head)
           old == Contents(size, ring)
           after == Put(size, ring, key)
           new == Contents(size, after)
<1>0. /\ ring.head \in 0..(size - 1) /\ ring.tail \in 0..(size - 1)
      /\ ring.slots \in [0..(size - 1) -> keys]
  BY DEF RingOf
<1>1. n \in 0..(size - 1) /\ Len(old) = n /\ old \in Seq(keys)
  BY HeldCount
<1>2. n = IF ring.head >= ring.tail THEN ring.head - ring.tail
          ELSE ring.head + size - ring.tail
  BY HeldCount
<1>3. g \in 0..(size - 1) /\ g = IF ring.head + 1 < size THEN ring.head + 1 ELSE 0
  BY <1>0, Slots
<1>4. /\ g = ring.tail <=> n = size - 1
      /\ g # ring.tail => n + 1 = IF g >= ring.tail THEN g - ring.tail ELSE g + size - ring.tail
  <2> HIDE DEF n, g
  <2>0. ring.head \in 0..(size - 1) /\ ring.tail \in 0..(size - 1)
    BY <1>0
  <2>1. g = ring.tail <=> n = size - 1
    BY <2>0, <1>2, <1>3
  <2>2. g # ring.tail => n + 1 = IF g >= ring.tail THEN g - ring.tail ELSE g + size - ring.tail
    BY <2>0, <1>2, <1>3
  <2> QED
    BY <2>1, <2>2
<1>5. CASE n = size - 1
  <2>1. after = ring
    BY <1>4, <1>5 DEF Put, RingIsFull
  <2> QED
    BY <1>1, <1>5, <2>1
<1>6. CASE n # size - 1
  <2>1. after = [ring EXCEPT !.slots[ring.head] = key, !.head = g]
    BY <1>4, <1>6 DEF Put, RingIsFull
  <2>2. /\ after \in RingOf(size, keys)
        /\ after.tail = ring.tail /\ after.head = g
        /\ after.slots = [ring.slots EXCEPT ![ring.head] = key]
    BY <1>0, <1>3, <2>1 DEF RingOf
  <2>3. Held(size, after) = n + 1
    <3>1. Held(size, after) = IF after.head >= after.tail THEN after.head - after.tail
                              ELSE after.head + size - after.tail
      BY <2>2, HeldCount
    <3> QED
      BY <1>4, <1>6, <2>2, <3>1, Zenon
  <2>4. new \in Seq(keys) /\ Len(new) = n + 1
    BY <2>2, <2>3, HeldCount
  <2>5. ASSUME NEW i \in 1..(n + 1)
        PROVE  new[i] = Append(old, key)[i]
    <3> DEFINE p == (ring.tail + i - 1) % size
    <3>1. new[i] = after.slots[p]
      BY <2>2, <2>3 DEF Contents
    <3>2. /\ p \in 0..(size - 1)
          /\ p = IF ring.tail + i - 1 < size THEN ring.tail + i - 1 ELSE ring.tail + i - 1 - size
      BY <2>2, <2>3, HeldCount
    <3>3. p = ring.head <=> i = n + 1
      <4> HIDE DEF n, p
      <4>0. ring.head \in 0..(size - 1) /\ ring.tail \in 0..(size - 1) /\ n \in 0..(size - 1)
        BY <1>0, <1>1
      <4>1. i = n + 1 => p = ring.head
        BY <4>0, <1>2, <3>2
      <4>2. i # n + 1 => p # ring.head
        <5>1. CASE ring.head >= ring.tail
          BY <4>0, <1>2, <3>2, <5>1
        <5>2. CASE ring.head < ring.tail
          BY <4>0, <1>2, <3>2, <5>2
        <5> QED
          BY <4>0, <5>1, <5>2
      <4> QED
        BY <4>1, <4>2
    <3> HIDE DEF p
    <3>4. CASE i = n + 1
      BY <1>0, <1>1, <2>2, <3>1, <3>3, <3>4
    <3>5. CASE i # n + 1
      <4>1. i \in 1..n
        BY <1>1, <3>5
      <4>2. new[i] = ring.slots[p]
        BY <1>0, <2>2, <3>1, <3>2, <3>3, <3>5
      <4>3. old[i] = ring.slots[p]
        BY <4>1 DEF Contents, p
      <4> QED
        BY <1>1, <4>1, <4>2, <4>3
    <3> QED
      BY <3>4, <3>5
  <2>6. new = Append(old, key)
    BY <1>1, <2>4, <2>5
  <2> QED
    BY <1>1, <1>6, <2>2, <2>6
<1> QED
  BY <1>5, <1>6

LEMMA TakenTails ==
  ASSUME NEW size \in Nat \ {0}, NEW keys, NEW ring \in RingOf(size, keys)
  PROVE  /\ RingIsEmpty(ring) <=> Contents(size, ring) = << >>
         /\ ~RingIsEmpty(ring) =>
              /\ Oldest(ring) = Head(Contents(size, ring))
              /\ Taken(size, ring) \in RingOf(size, keys)
              /\ Contents(size, Taken(size, ring)) = Tail(Contents(size, ring))
<1> DEFINE n   == Held(size, ring)
           g   == Succ(size, ring.tail)
           old == Contents(size, ring)
           after == Taken(size, ring)
           new == Contents(size, after)
<1>0. /\ ring.head \in 0..(size - 1) /\ ring.tail \in 0..(size - 1)
      /\ ring.slots \in [0..(size - 1) -> keys]
  BY DEF RingOf
<1>1. n \in 0..(size - 1) /\ Len(old) = n /\ old \in Seq(keys)
  BY HeldCount
<1>2. n = IF ring.head >= ring.tail THEN ring.head - ring.tail
          ELSE ring.head + size - ring.tail
  BY HeldCount
<1>3. g \in 0..(size - 1) /\ g = IF ring.tail + 1 < size THEN ring.tail + 1 ELSE 0
  BY <1>0, Slots
<1>4. /\ ring.tail = ring.head <=> n = 0
      /\ ring.tail # ring.head =>
           /\ n - 1 = IF ring.head >= g THEN ring.head - g ELSE ring.head + size - g
           /\ n >= 1
  <2> HIDE DEF n, g
  <2> QED
    BY <1>0, <1>2, <1>3
<1>5. RingIsEmpty(ring) <=> old = << >>
  BY <1>1, <1>4 DEF RingIsEmpty
<1>6. ASSUME ~RingIsEmpty(ring)
      PROVE  Oldest(ring) = Head(old) /\ after \in RingOf(size, keys) /\ new = Tail(old)
  <2>1. /\ after \in RingOf(size, keys)
        /\ after.head = ring.head /\ after.tail = g /\ after.slots = ring.slots
    BY <1>0, <1>3 DEF RingOf, Taken
  <2>2. Held(size, after) = n - 1 /\ n >= 1
    <3>1. Held(size, after) = IF after.head >= after.tail THEN after.head - after.tail
                              ELSE after.head + size - after.tail
      BY <2>1, HeldCount
    <3> QED
      BY <1>4, <1>6, <2>1, <3>1, Zenon DEF RingIsEmpty
  <2>3. new \in Seq(keys) /\ Len(new) = n - 1
    BY <2>1, <2>2, HeldCount
  <2>4. ASSUME NEW i \in 1..(n - 1)
        PROVE  new[i] = old[i + 1]
    <3>1. new[i] = ring.slots[(g + i - 1) % size]
      BY <2>1, <2>2 DEF Contents
    <3>2. i + 1 \in 1..n /\ i \in 1..(size - 1)
      BY <1>1
    <3>3. old[i + 1] = ring.slots[(ring.tail + (i + 1) - 1) % size]
      BY <3>2 DEF Contents
    <3>4. (g + i - 1) % size = (ring.tail + (i + 1) - 1) % size
      BY <1>0, <1>3, <3>2, NextSlot, Zenon
    <3> QED
      BY <3>1, <3>3, <3>4, Zenon
  <2>5. new = Tail(old)
    BY <1>1, <2>2, <2>3, <2>4
  <2>6. Oldest(ring) = Head(old)
    <3>1. old[1] = ring.slots[(ring.tail + 1 - 1) % size]
      BY <1>1, <2>2 DEF Contents
    <3>2. (ring.tail + 1 - 1) % size = ring.tail
      BY <1>0
    <3> QED
      BY <1>1, <2>2, <3>1, <3>2 DEF Oldest
  <2> QED
    BY <2>1, <2>5, <2>6
<1> QED
  BY <1>5, <1>6
----------------------------------------------------------------------------
(* Type correctness of the keyboard                                        *)

LEMMA Alphabet ==
  /\ Printable \subseteq Characters
  /\ \A c \in Characters : c \notin Flags /\ c \notin Codes /\ c # NoKey
  /\ \A c \in Codes : c \notin Flags /\ c # NoKey
  /\ NoKey \notin Flags
BY CharacterAssumption DEF Flags, Codes, NoKey

LEMMA MeaningKind ==
  ASSUME NEW withFn, NEW c
  PROVE  Meaning(withFn, c) \in Printable \cup Codes \cup Flags \cup {NoKey}
BY DEF Meaning, Codes, Flags

LEMMA FirstFlagUp == ASSUME pending \in SUBSET Flags, pending # {} PROVE FirstFlag \in pending
<1> DEFINE first(f) ==
             \A g \in pending : f = g \/ <<f, g>> \in
               {"enter"} \X Flags \cup {"backspace"} \X {"escape", "tab"} \cup {<<"escape", "tab">>}
<1>1. \E f \in pending : first(f)
  <2>1. CASE "enter" \in pending
    <3>1. first("enter")
      OBVIOUS
    <3> QED
      BY <2>1, <3>1
  <2>2. CASE "enter" \notin pending /\ "backspace" \in pending
    <3>1. first("backspace")
      BY <2>2 DEF Flags
    <3> QED
      BY <2>2, <3>1
  <2>3. CASE "enter" \notin pending /\ "backspace" \notin pending /\ "escape" \in pending
    <3>1. first("escape")
      BY <2>3 DEF Flags
    <3> QED
      BY <2>3, <3>1
  <2>4. CASE "enter" \notin pending /\ "backspace" \notin pending /\ "escape" \notin pending
    <3>1. "tab" \in pending /\ first("tab")
      BY <2>4 DEF Flags
    <3> QED
      BY <3>1
  <2> QED
    BY <2>1, <2>2, <2>3, <2>4
<1> QED
  BY <1>1 DEF FirstFlag

LEMMA FreshRings ==
  /\ FreshRing(QueueSize, NoKey) \in RingOf(QueueSize, Characters \cup {NoKey})
  /\ FreshRing(SpecialsSize, NoKey) \in RingOf(SpecialsSize, Codes \cup {NoKey})
  /\ Contents(QueueSize, FreshRing(QueueSize, NoKey)) = << >>
  /\ Contents(SpecialsSize, FreshRing(SpecialsSize, NoKey)) = << >>
<1>1. NoKey \in Characters \cup {NoKey} /\ NoKey \in Codes \cup {NoKey}
  OBVIOUS
<1> QED
  BY <1>1, SizeAssumption, FreshEmpty, Zenon

LEMMA KeyboardStarts == Init => KeyboardTypeOK
<1> SUFFICES ASSUME KeyboardInit
             PROVE  KeyboardTypeOK
  BY DEF Init
<1>1. /\ queue \in RingOf(QueueSize, Characters \cup {NoKey})
      /\ specials \in RingOf(SpecialsSize, Codes \cup {NoKey})
  BY FreshRings DEF KeyboardInit
<1>2. word = << >> /\ word \in Seq(Characters) /\ pending \in SUBSET Flags
  BY DEF KeyboardInit
<1> QED
  BY <1>1, <1>2 DEF KeyboardInit, KeyboardTypeOK

LEMMA ResetTypes == ASSUME KeyboardReset PROVE KeyboardTypeOK'
<1>1. /\ queue' \in RingOf(QueueSize, Characters \cup {NoKey})
      /\ specials' \in RingOf(SpecialsSize, Codes \cup {NoKey})
  BY FreshRings DEF KeyboardReset
<1>2. word' = << >> /\ word' \in Seq(Characters) /\ pending' \in SUBSET Flags
  BY DEF KeyboardReset
<1> QED
  BY <1>1, <1>2 DEF KeyboardReset, KeyboardTypeOK

LEMMA LookTypes ==
  ASSUME KeyboardTypeOK, LookNoChange \/ \E state \in KeyStates : LookChange(state)
  PROVE  KeyboardTypeOK'
<1>1. CASE LookNoChange
  BY <1>1 DEF KeyboardTypeOK, LookNoChange
<1>2. ASSUME NEW state \in KeyStates, LookChange(state)
      PROVE  KeyboardTypeOK'
  <2>1. /\ state.flags \subseteq Flags /\ state.fn \in BOOLEAN /\ state.word \in Seq(Characters)
    BY KeyStateAssumption DEF Flags
  <2> QED
    BY <1>2, <2>1 DEF KeyboardTypeOK, LookChange
<1> QED
  BY <1>1, <1>2

LEMMA SortTypes == ASSUME KeyboardTypeOK, Sort PROVE KeyboardTypeOK'
<1> DEFINE key == Meaning(fn, Head(word))
<1>1. /\ word # << >> /\ word \in Seq(Characters) /\ word' = Tail(word)
      /\ fn' = fn /\ polling' = polling /\ polling
  BY DEF KeyboardTypeOK, Sort
<1>2. word' \in Seq(Characters)
  BY <1>1
<1>3. queue' \in RingOf(QueueSize, Characters \cup {NoKey})
  <2>1. queue \in RingOf(QueueSize, Characters \cup {NoKey})
    BY DEF KeyboardTypeOK
  <2>2. CASE key \in Printable
    <3>1. key \in Characters \cup {NoKey}
      BY <2>2, Alphabet
    <3>2. queue' = Put(QueueSize, queue, key)
      BY <2>2 DEF Sort
    <3> QED
      BY <2>1, <3>1, <3>2, PutAppends, SizeAssumption
  <2>3. CASE key \notin Printable
    BY <2>1, <2>3 DEF Sort
  <2> QED
    BY <2>2, <2>3
<1>4. specials' \in RingOf(SpecialsSize, Codes \cup {NoKey})
  <2>1. specials \in RingOf(SpecialsSize, Codes \cup {NoKey})
    BY DEF KeyboardTypeOK
  <2>2. CASE key \in Codes
    <3>1. specials' = Put(SpecialsSize, specials, key)
      BY <2>2 DEF Sort
    <3> QED
      BY <2>1, <2>2, <3>1, PutAppends, SizeAssumption
  <2>3. CASE key \notin Codes
    BY <2>1, <2>3 DEF Sort
  <2> QED
    BY <2>2, <2>3
<1>5. pending' \in SUBSET Flags
  BY DEF Sort, KeyboardTypeOK
<1> QED
  BY <1>1, <1>2, <1>3, <1>4, <1>5 DEF KeyboardTypeOK

LEMMA ServeTypes == ASSUME KeyboardTypeOK, Serve PROVE KeyboardTypeOK'
<1>1. word = << >> /\ word' = word /\ fn' = fn /\ polling' = FALSE
  BY DEF Serve
<1>2. pending' \in SUBSET Flags
  BY DEF Serve, Served, KeyboardTypeOK
<1>3. specials' \in RingOf(SpecialsSize, Codes \cup {NoKey})
  <2>1. specials' = specials \/ (~RingIsEmpty(specials) /\ specials' = Taken(SpecialsSize, specials))
    BY DEF Serve, Served
  <2>2. specials \in RingOf(SpecialsSize, Codes \cup {NoKey})
    BY DEF KeyboardTypeOK
  <2> QED
    BY <2>1, <2>2, TakenTails, SizeAssumption, Zenon
<1>4. queue' \in RingOf(QueueSize, Characters \cup {NoKey})
  <2>1. queue' = queue \/ (~RingIsEmpty(queue) /\ queue' = Taken(QueueSize, queue))
    BY DEF Serve, Served
  <2>2. queue \in RingOf(QueueSize, Characters \cup {NoKey})
    BY DEF KeyboardTypeOK
  <2> QED
    BY <2>1, <2>2, TakenTails, SizeAssumption, Zenon
<1> QED
  BY <1>1, <1>2, <1>3, <1>4 DEF KeyboardTypeOK

\* What a step of the console does to the keyboard.
LEMMA KeyboardSteps ==
  ASSUME [Next]_vars
  PROVE  \/ UNCHANGED kbVars
         \/ KeyboardReset
         \/ LookNoChange
         \/ \E state \in KeyStates : LookChange(state)
         \/ Sort
         \/ Serve
BY DEF Next, vars, Boot, PowerOff, Look, Press, SortKey, ServeKey, PickerTimeout

LEMMA KeyboardAlways == Spec => []KeyboardTypeOK
<1>1. KeyboardTypeOK /\ [Next]_vars => KeyboardTypeOK'
  <2> SUFFICES ASSUME KeyboardTypeOK, [Next]_vars
               PROVE  KeyboardTypeOK'
    OBVIOUS
  <2>1. CASE UNCHANGED kbVars
    BY <2>1 DEF kbVars, KeyboardTypeOK
  <2> QED
    BY <2>1, KeyboardSteps, ResetTypes, LookTypes, SortTypes, ServeTypes
<1> QED
  BY <1>1, KeyboardStarts, PTL DEF Spec

----------------------------------------------------------------------------
(* The reset                                                               *)

\* An Enter that waits at the prompt was pressed there.
EnterKnown == view = "prompt" /\ "enter" \in pending => entered

LEMMA EnterIsFlag ==
  ASSUME KeyboardTypeOK, NextKey = "enter"
  PROVE  "enter" \in pending /\ FirstFlag = "enter"
<1>1. pending # {}
  <2> SUFFICES ASSUME pending = {}
               PROVE  FALSE
    OBVIOUS
  <2>1. CASE ~RingIsEmpty(specials)
    <3>1. Oldest(specials) \in Codes \cup {NoKey}
      BY DEF KeyboardTypeOK, RingOf, Oldest
    <3> QED
      BY <2>1, <3>1 DEF NextKey, Codes, NoKey
  <2>2. CASE RingIsEmpty(specials) /\ ~RingIsEmpty(queue)
    <3>1. Oldest(queue) \in Characters \cup {NoKey}
      BY DEF KeyboardTypeOK, RingOf, Oldest
    <3>2. "enter" \notin Characters \cup {NoKey}
      BY Alphabet DEF Flags, NoKey
    <3> QED
      BY <2>2, <3>1, <3>2 DEF NextKey
  <2>3. CASE RingIsEmpty(specials) /\ RingIsEmpty(queue)
    BY <2>3 DEF NextKey, NoKey
  <2> QED
    BY <2>1, <2>2, <2>3
<1>2. FirstFlag = "enter"
  BY <1>1 DEF NextKey
<1> QED
  BY <1>1, <1>2, FirstFlagUp DEF KeyboardTypeOK

\* How a key opens the prompt, and how it leaves it for the restart.
LEMMA PromptDoors ==
  ASSUME HandleKey
  PROVE  /\ view # "prompt" /\ view' = "prompt" => NextKey = "enter"
         /\ view = "prompt" /\ view' = "restart" => NextKey = "enter"
BY DEF HandleKey, uiVars, ChatKey, OpenSettings, OpenPicker, Edit, PickerKey, Close, Choose,
       MoveIn, SettingsKey, PromptKey, LeavePrompt, FactoryReset, PromptEdit

LEMMA EnterStays ==
  ASSUME KeyboardTypeOK, EnterKnown, [Next]_vars
  PROVE  EnterKnown'
<1>1. CASE Boot \/ PowerOff \/ PickerTimeout \/ UNCHANGED vars
  BY <1>1 DEF Boot, PowerOff, PickerTimeout, Close, EnterKnown, vars, kbVars, uiVars, KeyboardReset
<1>2. CASE Look
  BY <1>2 DEF Look, LookNoChange, uiVars, EnterKnown
<1>3. ASSUME NEW state \in KeyStates, Press(state)
      PROVE  EnterKnown'
  BY <1>3 DEF Press, LookChange, uiVars, EnterKnown
<1>4. CASE SortKey
  <2>1. "enter" \in pending' => "enter" \in pending
    <3>1. Meaning(fn, Head(word)) # "enter"
      BY Alphabet DEF Meaning, NoKey, Flags
    <3> QED
      BY <1>4, <3>1 DEF SortKey, Sort
  <2> QED
    BY <1>4, <2>1 DEF SortKey, uiVars, EnterKnown
<1>5. CASE ServeKey
  <2>1. pending' \subseteq pending
    BY <1>5 DEF ServeKey, Serve, Served
  <2>2. CASE view = "prompt"
    BY <1>5, <2>1, <2>2 DEF ServeKey, EnterKnown
  <2>3. CASE view # "prompt" /\ view' = "prompt"
    <3>1. "enter" \in pending /\ FirstFlag = "enter"
      BY <1>5, <2>3, PromptDoors, EnterIsFlag DEF ServeKey
    <3>2. pending' = pending \ {"enter"}
      BY <1>5, <3>1 DEF ServeKey, Serve, Served, NextKey, Flags, NoKey
    <3> QED
      BY <3>2 DEF EnterKnown
  <2> QED
    BY <2>2, <2>3 DEF EnterKnown
<1> QED
  BY <1>1, <1>2, <1>3, <1>4, <1>5 DEF Next

LEMMA ResetStep ==
  ASSUME KeyboardTypeOK, EnterKnown, [Next]_vars, view = "prompt", view' = "restart"
  PROVE  entered
<1>1. ServeKey
  BY DEF Next, vars, uiVars, Boot, PowerOff, Look, Press, SortKey, PickerTimeout
<1>2. NextKey = "enter"
  BY <1>1, PromptDoors DEF ServeKey
<1> QED
  BY <1>2, EnterIsFlag DEF EnterKnown

(* No sequence of keys typed at other views and left in the queues resets  *)
(* the device: Enter is pressed at the prompt itself.                      *)
THEOREM ResetsByHand == Spec => ResetByHand
<1>1. Init => EnterKnown
  BY DEF Init, EnterKnown
<1>2. KeyboardTypeOK /\ EnterKnown /\ [Next]_vars => EnterKnown'
  BY EnterStays
<1>3. KeyboardTypeOK /\ EnterKnown /\ [Next]_vars
        => [view = "prompt" /\ view' = "restart" => entered]_vars
  BY ResetStep
<1> QED
  BY <1>1, <1>2, <1>3, KeyboardAlways, PTL DEF Spec, ResetByHand
----------------------------------------------------------------------------
(* The refinement of KeyFifo                                               *)

Offered == [i \in 1..Len(word) |-> Meaning(fn, word[i])]
Codings == Contents(SpecialsSize, specials)
Chars   == Contents(QueueSize, queue)

AbstractFifo == <<Offered, pending, Codings, Chars>>

LEMMA FifoStarts == Init => Fifo!FifoInit
<1> SUFFICES ASSUME KeyboardInit
             PROVE  Fifo!FifoInit
  BY DEF Init
<1>1. Offered = << >>
  BY DEF KeyboardInit, Offered
<1>2. Codings = << >> /\ Chars = << >>
  BY FreshRings DEF KeyboardInit, Codings, Chars
<1> QED
  BY <1>1, <1>2 DEF KeyboardInit, Fifo!FifoInit, Offered, Codings, Chars

LEMMA ResetRestarts == ASSUME KeyboardReset PROVE Fifo!Restart
<1>1. Offered' = << >>
  BY DEF KeyboardReset, Offered
<1>2. Codings' = << >> /\ Chars' = << >>
  BY FreshRings DEF KeyboardReset, Codings, Chars
<1> QED
  BY <1>1, <1>2 DEF KeyboardReset, Fifo!Restart, Offered, Codings, Chars

LEMMA LookOffers ==
  ASSUME KeyboardTypeOK, NEW state \in KeyStates, LookChange(state)
  PROVE  Fifo!Offer
<1>1. Offered = << >>
  BY DEF LookChange, KeyboardTypeOK, Offered
<1>2. Offered' \in Seq(Printable \cup Codes \cup Flags \cup {NoKey})
  <2>1. word' \in Seq(Characters)
    BY KeyStateAssumption DEF LookChange
  <2> QED
    BY <2>1, MeaningKind DEF Offered
<1>3. pending' \in SUBSET Flags /\ pending \subseteq pending'
  BY KeyStateAssumption DEF LookChange, KeyboardTypeOK, Flags
<1>4. UNCHANGED <<Codings, Chars>>
  BY DEF LookChange, Codings, Chars
<1> QED
  BY <1>1, <1>2, <1>3, <1>4 DEF Fifo!Offer, Offered, Codings, Chars

LEMMA SortAccepts == ASSUME KeyboardTypeOK, Sort PROVE Fifo!Accept
<1> DEFINE key == Meaning(fn, Head(word))
<1>1. word # << >> /\ word \in Seq(Characters) /\ word' = Tail(word) /\ fn' = fn
  BY DEF KeyboardTypeOK, Sort
<1>2. Offered # << >> /\ Head(Offered) = key /\ Offered' = Tail(Offered)
  <2>1. Len(word) \in Nat \ {0} /\ Len(word') = Len(word) - 1
        /\ \A i \in 1..Len(word') : word'[i] = word[i + 1]
    BY <1>1
  <2>2. Offered \in Seq(Printable \cup Codes \cup Flags \cup {NoKey}) /\ Len(Offered) = Len(word)
    BY <2>1, MeaningKind DEF Offered
  <2>3. Offered[1] = key
    BY <1>1, <2>1 DEF Offered
  <2>4. Offered' \in Seq(Printable \cup Codes \cup Flags \cup {NoKey})
        /\ Len(Offered') = Len(Offered) - 1
    BY <1>1, <2>1, <2>2, MeaningKind DEF Offered
  <2>5. ASSUME NEW i \in 1..(Len(Offered) - 1)
        PROVE  Offered'[i] = Offered[i + 1]
    BY <1>1, <2>1, <2>2 DEF Offered
  <2>6. Offered' = Tail(Offered)
    <3> HIDE DEF Offered
    <3> QED
      BY <2>1, <2>2, <2>4, <2>5
  <2> QED
    BY <2>1, <2>2, <2>3, <2>6
<1>3. Codings' = IF key \in Codes /\ Len(Codings) < SpecialsSize - 1
                   THEN Append(Codings, key) ELSE Codings
  <2>1. specials \in RingOf(SpecialsSize, Codes \cup {NoKey})
    BY DEF KeyboardTypeOK
  <2>2. CASE key \in Codes
    <3>1. specials' = Put(SpecialsSize, specials, key) /\ key \in Codes \cup {NoKey}
      BY <2>2 DEF Sort
    <3> QED
      BY <2>1, <2>2, <3>1, PutAppends, SizeAssumption DEF Codings
  <2>3. CASE key \notin Codes
    BY <2>3 DEF Sort, Codings
  <2> QED
    BY <2>2, <2>3
<1>4. Chars' = IF key \in Printable /\ Len(Chars) < QueueSize - 1
                 THEN Append(Chars, key) ELSE Chars
  <2>1. queue \in RingOf(QueueSize, Characters \cup {NoKey})
    BY DEF KeyboardTypeOK
  <2>2. CASE key \in Printable
    <3>1. queue' = Put(QueueSize, queue, key) /\ key \in Characters \cup {NoKey}
      BY <2>2, Alphabet DEF Sort
    <3> QED
      BY <2>1, <2>2, <3>1, PutAppends, SizeAssumption DEF Chars
  <2>3. CASE key \notin Printable
    BY <2>3 DEF Sort, Chars
  <2> QED
    BY <2>2, <2>3
<1>5. pending' = IF key \in Flags THEN pending \cup {key} ELSE pending
  BY DEF Sort
<1> HIDE DEF key
<1> QED
  BY <1>2, <1>3, <1>4, <1>5 DEF Fifo!Accept, Offered, Codings, Chars

LEMMA ServeDelivers ==
  ASSUME KeyboardTypeOK, Serve
  PROVE  Fifo!Deliver \/ UNCHANGED AbstractFifo
<1>1. Offered = << >> /\ Offered' = Offered
  BY DEF Serve, Offered
<1>2. /\ RingIsEmpty(specials) <=> Codings = << >>
      /\ ~RingIsEmpty(specials) /\ specials' = Taken(SpecialsSize, specials)
           => Codings' = Tail(Codings)
  <2>1. specials \in RingOf(SpecialsSize, Codes \cup {NoKey})
    BY DEF KeyboardTypeOK
  <2> QED
    BY <2>1, TakenTails, SizeAssumption DEF Codings
<1>3. /\ RingIsEmpty(queue) <=> Chars = << >>
      /\ ~RingIsEmpty(queue) /\ queue' = Taken(QueueSize, queue) => Chars' = Tail(Chars)
  <2>1. queue \in RingOf(QueueSize, Characters \cup {NoKey})
    BY DEF KeyboardTypeOK
  <2> QED
    BY <2>1, TakenTails, SizeAssumption DEF Chars
<1>4. CASE pending # {} /\ pending' = pending \ {FirstFlag} /\ UNCHANGED <<specials, queue>>
  <2>1. FirstFlag \in pending
    BY <1>4, FirstFlagUp DEF KeyboardTypeOK
  <2>2. UNCHANGED <<Codings, Chars>>
    BY <1>4 DEF Codings, Chars
  <2> QED
    BY <1>1, <1>4, <2>1, <2>2 DEF Fifo!Deliver, Offered, Codings, Chars
<1>5. CASE /\ pending = {} /\ ~RingIsEmpty(specials)
           /\ specials' = Taken(SpecialsSize, specials) /\ UNCHANGED <<pending, queue>>
  <2>1. Chars' = Chars
    BY <1>5 DEF Chars
  <2>2. Codings # << >> /\ Codings' = Tail(Codings)
    BY <1>2, <1>5
  <2> QED
    BY <1>1, <1>5, <2>1, <2>2 DEF Fifo!Deliver, Offered, Codings, Chars
<1>6. CASE /\ pending = {} /\ RingIsEmpty(specials) /\ ~RingIsEmpty(queue)
           /\ queue' = Taken(QueueSize, queue) /\ UNCHANGED <<pending, specials>>
  <2>1. Codings = << >> /\ Codings' = Codings
    BY <1>2, <1>6 DEF Codings
  <2>2. Chars # << >> /\ Chars' = Tail(Chars)
    BY <1>3, <1>6
  <2> QED
    BY <1>1, <1>6, <2>1, <2>2 DEF Fifo!Deliver, Offered, Codings, Chars
<1>7. CASE UNCHANGED <<pending, specials, queue>>
  BY <1>1, <1>7 DEF AbstractFifo, Codings, Chars
<1> QED
  BY <1>4, <1>5, <1>6, <1>7 DEF Serve, Served

LEMMA FifoStep ==
  ASSUME KeyboardTypeOK, [Next]_vars
  PROVE  [Fifo!FifoNext]_AbstractFifo
<1>1. CASE UNCHANGED kbVars
  BY <1>1 DEF kbVars, AbstractFifo, Offered, Codings, Chars
<1>2. CASE LookNoChange
  BY <1>2 DEF LookNoChange, AbstractFifo, Offered, Codings, Chars
<1> QED
  BY <1>1, <1>2, KeyboardSteps, ResetRestarts, LookOffers, SortAccepts, ServeDelivers
     DEF Fifo!FifoNext

(* Whatever the sizes of the rings, the views read bounded queues that     *)
(* keep the order of the keys and lose one only when they are full.        *)
THEOREM ConsoleImplements == Spec => ImplementsFifo
<1>1. KeyboardTypeOK /\ [Next]_vars => [Fifo!FifoNext]_AbstractFifo
  BY FifoStep
<1> QED
  BY <1>1, FifoStarts, KeyboardAlways, PTL
     DEF Spec, ImplementsFifo, Fifo!FifoSpec, Fifo!fifoVars, AbstractFifo, Offered, Codings, Chars

----------------------------------------------------------------------------
(* Reading the profiles                                                    *)

LEMMA LeastNumber ==
  ASSUME NEW T, T \subseteq Nat, T # {}
  PROVE  \E x \in T : \A y \in T : x <= y
<1>1. \E x \in T : \A y \in T : ~(<<y, x>> \in OpToRel(<, Nat))
  BY WFMin, NatLessThanWellFounded, Zenon
<1>2. PICK x \in T : \A y \in T : ~(<<y, x>> \in OpToRel(<, Nat))
  BY <1>1
<1>3. ASSUME NEW y \in T PROVE x <= y
  <2>1. <<y, x>> \notin OpToRel(<, Nat)
    BY <1>2
  <2>2. <<y, x>> \in Nat \X Nat
    OBVIOUS
  <2>3. ~(<<y, x>>[1] < <<y, x>>[2])
    BY <2>1, <2>2, Zenon DEF OpToRel
  <2> QED
    BY <2>3
<1> QED
  BY <1>3

\* What the loop makes of the text at p, given what it makes of the rest.
StepAt(body, from, p) ==
  IF At(body, p) = "]" THEN [ok |-> TRUE, list |-> << >>]
  ELSE IF At(body, p) = "{" /\ ObjectEnd(body, p) # 0
    THEN Pushed(body[p + 1], from[AfterComma(body, ObjectEnd(body, p))])
    ELSE Failed

Solves(body, low, from) ==
  from = [p \in low..(Len(body) + 3) |-> StepAt(body, from, p)]

\* The loop moves on, and never past the end of the text.
LEMMA Onward ==
  ASSUME NEW body, Len(body) \in Nat, NEW p \in 3..(Len(body) + 3), ObjectEnd(body, p) # 0
  PROVE  AfterComma(body, ObjectEnd(body, p)) \in (p + 1)..(Len(body) + 3)
<1>1. At(body, p + 2) = "}" /\ ObjectEnd(body, p) = p + 3
  BY DEF ObjectEnd
<1>2. p + 2 <= Len(body)
  BY <1>1 DEF At
<1>3. At(body, p + 3) = "," => p + 3 <= Len(body)
  BY DEF At
<1>4. AfterComma(body, p + 3) = IF At(body, p + 3) = "," THEN p + 4 ELSE p + 3
  BY DEF AfterComma
<1>5. CASE At(body, p + 3) = ","
  <2>1. AfterComma(body, p + 3) = p + 4
    BY <1>4, <1>5, Zenon
  <2>2. p + 3 <= Len(body)
    BY <1>3, <1>5, Zenon
  <2>3. p + 4 \in (p + 1)..(Len(body) + 3)
    BY <2>2
  <2> QED
    BY <1>1, <2>1, <2>3, Zenon
<1>6. CASE At(body, p + 3) # ","
  <2>1. AfterComma(body, p + 3) = p + 3
    BY <1>4, <1>6, Zenon
  <2>2. p + 3 \in (p + 1)..(Len(body) + 3)
    BY <1>2
  <2> QED
    BY <1>1, <2>1, <2>2, Zenon
<1> QED
  BY <1>5, <1>6

LEMMA SameRest ==
  ASSUME NEW body, Len(body) \in Nat, NEW p \in 3..(Len(body) + 3), NEW f, NEW g,
         \A q \in (p + 1)..(Len(body) + 3) : f[q] = g[q]
  PROVE  StepAt(body, f, p) = StepAt(body, g, p)
<1>1. CASE ObjectEnd(body, p) # 0
  <2>1. f[AfterComma(body, ObjectEnd(body, p))] = g[AfterComma(body, ObjectEnd(body, p))]
    BY <1>1, Onward
  <2> QED
    BY <2>1, Zenon DEF StepAt
<1>2. CASE ObjectEnd(body, p) = 0
  BY <1>2, Zenon DEF StepAt
<1> QED
  BY <1>1, <1>2

\* One position more, in front.
LEMMA SolvedBefore ==
  ASSUME NEW body, Len(body) \in Nat, NEW low \in 3..(Len(body) + 3),
         low < Len(body) + 3 => \E g : Solves(body, low + 1, g)
  PROVE  \E h : Solves(body, low, h)
<1> DEFINE top == Len(body) + 3
<1>1. PICK g : low < top => Solves(body, low + 1, g)
  OBVIOUS
<1> DEFINE h == [p \in low..top |-> IF p = low THEN StepAt(body, g, p) ELSE g[p]]
<1>2. ASSUME NEW p \in low..top PROVE h[p] = StepAt(body, h, p)
  <2>1. \A q \in (p + 1)..top : h[q] = g[q]
    OBVIOUS
  <2>2. StepAt(body, h, p) = StepAt(body, g, p)
    <3>1. p \in 3..top
      OBVIOUS
    <3> HIDE DEF h
    <3> QED
      BY <2>1, <3>1, SameRest
  <2>3. CASE p = low
    BY <2>2, <2>3
  <2>4. CASE p # low
    <3>1. p \in (low + 1)..top /\ low < top
      BY <2>4
    <3>2. g[p] = StepAt(body, g, p)
      BY <1>1, <3>1 DEF Solves
    <3>3. h[p] = g[p]
      BY <2>4
    <3> QED
      BY <2>2, <3>2, <3>3
  <2> QED
    BY <2>3, <2>4
<1>3. h = [p \in low..top |-> h[p]]
  OBVIOUS
<1>4. Solves(body, low, h)
  <2> HIDE DEF h
  <2>1. [p \in low..top |-> h[p]] = [p \in low..top |-> StepAt(body, h, p)]
    BY <1>2
  <2> QED
    BY <1>3, <2>1 DEF Solves
<1> QED
  BY <1>4

LEMMA Solvable ==
  ASSUME NEW body, Len(body) \in Nat
  PROVE  \E f : Solves(body, 3, f)
<1> DEFINE Bad == {k \in 0..Len(body) : ~ \E f : Solves(body, Len(body) + 3 - k, f)}
<1>1. CASE Bad = {}
  <2>1. Len(body) \in 0..Len(body) /\ Len(body) + 3 - Len(body) = 3
    OBVIOUS
  <2> QED
    BY <1>1, <2>1
<1>2. CASE Bad # {}
  <2>1. PICK k \in Bad : \A j \in Bad : k <= j
    <3>1. Bad \subseteq Nat
      OBVIOUS
    <3> HIDE DEF Bad
    <3> QED
      BY <1>2, <3>1, LeastNumber
  <2> DEFINE low == Len(body) + 3 - k
  <2>2. low \in 3..(Len(body) + 3) /\ k \in 0..Len(body)
    OBVIOUS
  <2>3. low < Len(body) + 3 => \E g : Solves(body, low + 1, g)
    <3> SUFFICES ASSUME k # 0
                 PROVE  \E g : Solves(body, low + 1, g)
      BY <2>2
    <3>1. k - 1 \in 0..Len(body) /\ Len(body) + 3 - (k - 1) = low + 1
      BY <2>2
    <3>2. k - 1 \notin Bad
      <4> HIDE DEF Bad
      <4> QED
        BY <2>1, <2>2
    <3> QED
      BY <3>1, <3>2
  <2>4. \E h : Solves(body, low, h)
    <3> HIDE DEF low
    <3> QED
      BY <2>2, <2>3, SolvedBefore
  <2> QED
    BY <2>1, <2>4
<1> QED
  BY <1>1, <1>2

LEMMA WalkSteps ==
  ASSUME NEW body, Len(body) \in Nat, NEW p \in 3..(Len(body) + 3)
  PROVE  WalkFrom(body)[p] = StepAt(body, WalkFrom(body), p)
<1>1. WalkFrom(body) = CHOOSE f : Solves(body, 3, f)
  BY Zenon DEF WalkFrom, Solves, StepAt
<1>2. Solves(body, 3, WalkFrom(body))
  BY <1>1, Solvable, Zenon
<1> QED
  BY <1>2 DEF Solves

\* The four tokens of the i-th profile.
ItemTokens(list, i) ==
  /\ Body(list)[4 * i - 1] = "{" /\ Body(list)[4 * i] = list[i]
  /\ Body(list)[4 * i + 1] = "}"
  /\ Body(list)[4 * i + 2] = IF i = Len(list) THEN "]" ELSE ","

LEMMA BodyTokens ==
  ASSUME NEW S, NEW list \in Seq(S), list # << >>
  PROVE  /\ Len(Body(list)) = 4 * Len(list) + 2 /\ Len(list) \in Nat \ {0}
         /\ Body(list)[1] = "profiles" /\ Body(list)[2] = "["
         /\ \A i \in 1..Len(list) : ItemTokens(list, i)
<1> DEFINE last == 4 * Len(list) + 2
           At4(p) == IF p = 1 THEN "profiles" ELSE IF p = 2 THEN "["
                     ELSE IF p = last THEN "]" ELSE Token(list, p)
<1>1. Len(list) \in Nat \ {0} /\ last \in Nat /\ last >= 6
  OBVIOUS
<1>2. Body(list) = [p \in 1..last |-> At4(p)]
  BY DEF Body
<1>3. Len(Body(list)) = last
  <2> HIDE DEF At4
  <2> QED
    BY <1>1, <1>2
<1>4. \A p \in 1..last : Body(list)[p] = At4(p)
  <2> HIDE DEF At4, last
  <2> QED
    BY <1>2, Zenon
<1>5. At4(1) = "profiles" /\ At4(2) = "["
  BY <1>1
<1>6. 1 \in 1..last /\ 2 \in 1..last
  BY <1>1
<1>7. ASSUME NEW i \in 1..Len(list)
      PROVE  ItemTokens(list, i)
  <2>1. /\ 4 * i - 1 \in 1..last /\ 4 * i \in 1..last /\ 4 * i + 1 \in 1..last
        /\ 4 * i + 2 \in 1..last
        /\ 4 * i - 1 > 2 /\ 4 * i > 2 /\ 4 * i + 1 > 2 /\ 4 * i + 2 > 2
        /\ 4 * i - 1 # last /\ 4 * i # last /\ 4 * i + 1 # last
        /\ 4 * i + 2 = last <=> i = Len(list)
    BY <1>1
  <2>2. /\ (4 * i - 1) % 4 = 3
        /\ (4 * i) % 4 # 3 /\ (4 * i) % 4 # 1 /\ (4 * i) % 4 # 2 /\ (4 * i) \div 4 = i
        /\ (4 * i + 1) % 4 # 3 /\ (4 * i + 1) % 4 = 1
        /\ (4 * i + 2) % 4 # 3 /\ (4 * i + 2) % 4 # 1 /\ (4 * i + 2) % 4 = 2
    OBVIOUS
  <2>3. /\ Token(list, 4 * i - 1) = "{" /\ Token(list, 4 * i) = list[i]
        /\ Token(list, 4 * i + 1) = "}" /\ Token(list, 4 * i + 2) = ","
    BY <2>2, Zenon DEF Token
  <2>4. /\ 4 * i - 1 # 1 /\ 4 * i # 1 /\ 4 * i + 1 # 1 /\ 4 * i + 2 # 1
        /\ 4 * i - 1 # 2 /\ 4 * i # 2 /\ 4 * i + 1 # 2 /\ 4 * i + 2 # 2
    OBVIOUS
  <2>5. /\ At4(4 * i - 1) = "{" /\ At4(4 * i) = list[i] /\ At4(4 * i + 1) = "}"
        /\ At4(4 * i + 2) = IF i = Len(list) THEN "]" ELSE ","
    <3> HIDE DEF last
    <3> QED
      BY <2>1, <2>3, <2>4, Zenon
  <2> HIDE DEF At4, last
  <2> QED
    BY <1>4, <2>1, <2>5, Zenon DEF ItemTokens
<1> HIDE DEF At4
<1> QED
  BY <1>1, <1>3, <1>4, <1>5, <1>6, <1>7

LEMMA EmptyBody ==
  /\ Len(Body(<< >>)) = 3
  /\ Body(<< >>)[1] = "profiles" /\ Body(<< >>)[2] = "[" /\ Body(<< >>)[3] = "]"
<1>1. Body(<< >>) = [p \in 1..3 |-> CASE p = 1 -> "profiles" [] p = 2 -> "[" [] p = 3 -> "]"]
  BY DEF Body
<1> QED
  BY <1>1

\* The text the connection has let through.
Cut(list, m) == SubSeq(Body(list), 1, m)

LEMMA CutTokens ==
  ASSUME NEW list, Len(Body(list)) \in Nat, NEW m \in 0..Len(Body(list))
  PROVE  /\ Len(Cut(list, m)) = m
         /\ \A p \in 1..m : Cut(list, m)[p] = Body(list)[p]
         /\ \A p \in Nat \ {0} :
              At(Cut(list, m), p) = IF p <= m THEN Body(list)[p] ELSE "end"
<1>1. Cut(list, m) = [p \in 1..m |-> Body(list)[p]]
  <2>1. SubSeq(Body(list), 1, m) = [p \in 1..(m - 1 + 1) |-> Body(list)[p + 1 - 1]]
    OBVIOUS
  <2> QED
    BY <2>1 DEF Cut
<1>2. Len(Cut(list, m)) = m
  BY <1>1
<1>3. \A p \in 1..m : Cut(list, m)[p] = Body(list)[p]
  BY <1>1
<1> QED
  BY <1>2, <1>3 DEF At

LEMMA StepCases ==
  ASSUME NEW body, Len(body) \in Nat, NEW p \in 3..(Len(body) + 3)
  PROVE  /\ At(body, p) = "end" => WalkFrom(body)[p] = Failed
         /\ At(body, p) = "]" => WalkFrom(body)[p] = [ok |-> TRUE, list |-> << >>]
         /\ At(body, p) = "{" /\ At(body, p + 2) = "end" => WalkFrom(body)[p] = Failed
         /\ At(body, p) = "{" /\ At(body, p + 2) = "}" =>
              WalkFrom(body)[p] =
                Pushed(body[p + 1], WalkFrom(body)[AfterComma(body, p + 3)])
<1>1. WalkFrom(body)[p] = StepAt(body, WalkFrom(body), p)
  BY WalkSteps
<1>2. ObjectEnd(body, p) = IF At(body, p + 2) = "}" THEN p + 3 ELSE 0
  BY Zenon DEF ObjectEnd
<1>3. p + 3 # 0
  OBVIOUS
<1>4. "end" # "]" /\ "end" # "{" /\ "{" # "]" /\ "end" # "}"
  OBVIOUS
<1> QED
  BY <1>1, <1>2, <1>3, <1>4, Zenon DEF StepAt

\* The object whose bracket is, or would be, at p, as far as it has arrived.
ObjectAt(body, m, p, id, next) ==
  /\ p <= m => At(body, p) = "{"
  /\ p > m => At(body, p) = "end"
  /\ p + 1 <= m => body[p + 1] = id
  /\ p + 2 <= m => At(body, p + 2) = "}"
  /\ p + 2 > m => At(body, p + 2) = "end"
  /\ p + 3 <= m => At(body, p + 3) = next
  /\ p + 3 > m => At(body, p + 3) = "end"

\* The text ends inside the object, or before the comma after it.
LEMMA CutOff ==
  ASSUME NEW body, NEW m \in Nat, Len(body) = m, NEW p \in 3..(m + 3), m < p + 3,
         NEW id, NEW next, ObjectAt(body, m, p, id, next)
  PROVE  WalkFrom(body)[p].ok = FALSE
<1>1. Failed.ok = FALSE
  BY DEF Failed
<1>2. Len(body) \in Nat /\ p \in 3..(Len(body) + 3)
  BY Zenon
<1>3. CASE m < p
  <2>1. p > m
    BY <1>3
  <2>2. At(body, p) = "end"
    BY <2>1, Zenon DEF ObjectAt
  <2> QED
    BY <1>1, <1>2, <2>2, StepCases, Zenon
<1>4. CASE p <= m /\ m < p + 2
  <2>1. p + 2 > m
    BY <1>4
  <2>2. At(body, p) = "{" /\ At(body, p + 2) = "end"
    BY <1>4, <2>1, Zenon DEF ObjectAt
  <2> QED
    BY <1>1, <1>2, <2>2, StepCases, Zenon
<1>5. CASE m >= p + 2
  <2>1. p <= m /\ p + 2 <= m /\ p + 3 > m /\ p + 3 \in 3..(m + 3)
    BY <1>5
  <2>2. At(body, p) = "{" /\ At(body, p + 2) = "}" /\ At(body, p + 3) = "end"
    BY <2>1, Zenon DEF ObjectAt
  <2>3. AfterComma(body, p + 3) = p + 3
    <3>1. "end" # ","
      OBVIOUS
    <3> QED
      BY <2>2, <3>1, Zenon DEF AfterComma
  <2>4. WalkFrom(body)[p + 3] = Failed
    <3>1. p + 3 \in 3..(Len(body) + 3)
      BY <2>1, Zenon
    <3> QED
      BY <1>2, <2>2, <3>1, StepCases, Zenon
  <2>5. WalkFrom(body)[p] = Pushed(body[p + 1], Failed)
    BY <1>2, <2>2, <2>3, <2>4, StepCases, Zenon
  <2>6. Pushed(body[p + 1], Failed).ok = FALSE
    BY <1>1 DEF Pushed
  <2> QED
    BY <2>5, <2>6, Zenon
<1>6. m < p \/ (p <= m /\ m < p + 2) \/ m >= p + 2
  OBVIOUS
<1> QED
  BY <1>3, <1>4, <1>5, <1>6, Zenon

\* The object at p goes into the list, before what follows it.
Counted(body, p, id, next) ==
  /\ next = "]" => WalkFrom(body)[p] = Pushed(id, [ok |-> TRUE, list |-> << >>])
  /\ next = "," => WalkFrom(body)[p] = Pushed(id, WalkFrom(body)[p + 4])

\* The object and what follows it have arrived.
LEMMA Passed ==
  ASSUME NEW body, NEW m \in Nat, Len(body) = m, NEW p \in 3..(m + 3), p + 3 <= m,
         NEW id, NEW next, ObjectAt(body, m, p, id, next)
  PROVE  Counted(body, p, id, next)
<1>1. Len(body) \in Nat /\ p \in 3..(Len(body) + 3)
  BY Zenon
<1>2. p <= m /\ p + 1 <= m /\ p + 2 <= m /\ p + 3 \in 3..(m + 3) /\ p + 3 + 1 = p + 4
  OBVIOUS
<1>3. /\ At(body, p) = "{" /\ At(body, p + 2) = "}" /\ At(body, p + 3) = next
      /\ body[p + 1] = id
  BY <1>2, Zenon DEF ObjectAt
<1>4. WalkFrom(body)[p] = Pushed(id, WalkFrom(body)[AfterComma(body, p + 3)])
  BY <1>1, <1>3, StepCases, Zenon
<1>5. ASSUME next = "]"
      PROVE  WalkFrom(body)[p] = Pushed(id, [ok |-> TRUE, list |-> << >>])
  <2>1. AfterComma(body, p + 3) = p + 3
    <3>1. "]" # ","
      OBVIOUS
    <3> QED
      BY <1>3, <1>5, <3>1, Zenon DEF AfterComma
  <2>2. WalkFrom(body)[p + 3] = [ok |-> TRUE, list |-> << >>]
    <3>1. p + 3 \in 3..(Len(body) + 3)
      BY <1>2, Zenon
    <3> QED
      BY <1>1, <1>3, <1>5, <3>1, StepCases, Zenon
  <2> QED
    BY <1>4, <2>1, <2>2, Zenon
<1>6. ASSUME next = ","
      PROVE  WalkFrom(body)[p] = Pushed(id, WalkFrom(body)[p + 4])
  <2>1. AfterComma(body, p + 3) = p + 4
    BY <1>2, <1>3, <1>6, Zenon DEF AfterComma
  <2> QED
    BY <1>4, <2>1, Zenon
<1> QED
  BY <1>5, <1>6, Zenon DEF Counted

\* What stands behind the i-th object.
Behind(list, i) == IF i = Len(list) THEN "]" ELSE ","

LEMMA ObjectOf ==
  ASSUME NEW S, NEW list \in Seq(S), NEW n \in Nat \ {0}, n = Len(list),
         NEW i \in 1..n, NEW m \in 0..(4 * n + 2), NEW p \in Nat, p = 4 * i - 1
  PROVE  /\ Len(Cut(list, m)) = m
         /\ ObjectAt(Cut(list, m), m, p, list[i], Behind(list, i))
<1>1. list # << >>
  OBVIOUS
<1>2. 4 * i = p + 1 /\ 4 * i + 1 = p + 2 /\ 4 * i + 2 = p + 3
  OBVIOUS
<1>3. /\ Len(Body(list)) = 4 * n + 2
      /\ Body(list)[p] = "{" /\ Body(list)[p + 1] = list[i]
      /\ Body(list)[p + 2] = "}"
      /\ Body(list)[p + 3] = IF i = n THEN "]" ELSE ","
  <2>1. /\ Len(Body(list)) = 4 * Len(list) + 2
        /\ \A j \in 1..Len(list) : ItemTokens(list, j)
    BY <1>1, BodyTokens, Zenon
  <2>2. i \in 1..Len(list)
    BY Zenon
  <2>3. ItemTokens(list, i)
    BY <2>1, <2>2, Zenon
  <2> QED
    BY <1>2, <2>1, <2>3, Zenon DEF ItemTokens
<1>4. 4 * n + 2 \in Nat
  OBVIOUS
<1>5. /\ Len(Cut(list, m)) = m
      /\ \A q \in 1..m : Cut(list, m)[q] = Body(list)[q]
      /\ \A q \in Nat \ {0} :
           At(Cut(list, m), q) = IF q <= m THEN Body(list)[q] ELSE "end"
  <2>1. Len(Body(list)) \in Nat /\ m \in 0..Len(Body(list))
    BY <1>3, <1>4, Zenon
  <2> QED
    BY <2>1, CutTokens, Zenon
<1>6. /\ p \in Nat \ {0} /\ p + 2 \in Nat \ {0} /\ p + 3 \in Nat \ {0}
      /\ p + 1 <= m => p + 1 \in 1..m
      /\ p > m => ~(p <= m)
      /\ p + 2 > m => ~(p + 2 <= m)
      /\ p + 3 > m => ~(p + 3 <= m)
  OBVIOUS
<1> QED
  BY <1>3, <1>5, <1>6, Zenon DEF ObjectAt, Behind

\* From the i-th profile on.
From(list, i) == [j \in 1..(Len(list) - i + 1) |-> list[i + j - 1]]

LEMMA FromGrows ==
  ASSUME NEW S, NEW list \in Seq(S), NEW i \in 1..Len(list)
  PROVE  /\ <<list[i]>> \o (IF i = Len(list) THEN << >> ELSE From(list, i + 1)) = From(list, i)
         /\ i = 1 => From(list, i) = list
<1>1. i = 1 => From(list, i) = list
  BY DEF From
<1>2. From(list, i) \in Seq(S) /\ Len(From(list, i)) = Len(list) - i + 1
  BY DEF From
<1>3. CASE i = Len(list)
  BY <1>1, <1>3 DEF From
<1>4. CASE i # Len(list)
  <2> DEFINE rest == From(list, i + 1)
  <2>1. rest \in Seq(S) /\ Len(rest) = Len(list) - i
    BY <1>4 DEF From
  <2>2. \A j \in 1..(Len(list) - i) : rest[j] = list[i + j]
    BY <1>4 DEF From
  <2>3. \A j \in 1..(Len(list) - i + 1) : From(list, i)[j] = list[i + j - 1]
    BY DEF From
  <2> HIDE DEF rest
  <2>4. <<list[i]>> \o rest = From(list, i)
    <3> DEFINE s == <<list[i]>> \o rest
               t == From(list, i)
    <3>1. list[i] \in S /\ s \in Seq(S) /\ Len(s) = Len(list) - i + 1
      BY <2>1
    <3>2. ASSUME NEW j \in 1..(Len(list) - i + 1)
          PROVE  s[j] = t[j]
      <4>1. t[j] = list[i + j - 1]
        BY <2>3
      <4>2. CASE j = 1
        <5>1. s[j] = list[i]
          BY <2>1, <4>2
        <5>2. i + j - 1 = i
          BY <4>2
        <5> QED
          BY <4>1, <5>1, <5>2, Zenon
      <4>3. CASE j # 1
        <5>1. j - 1 \in 1..(Len(list) - i) /\ i + (j - 1) = i + j - 1
          BY <4>3
        <5>2. s[j] = rest[j - 1]
          <6> HIDE DEF t
          <6> QED
            BY <2>1, <5>1
        <5> QED
          BY <2>2, <4>1, <5>1, <5>2, Zenon
      <4> QED
        BY <4>2, <4>3
    <3>3. t \in Seq(S) /\ Len(t) = Len(list) - i + 1
      BY <1>2
    <3> HIDE DEF s, t
    <3>4. s = t
      BY <3>1, <3>2, <3>3
    <3> QED
      BY <3>4 DEF s, t
  <2> QED
    BY <1>1, <1>4, <2>4 DEF rest
<1> QED
  BY <1>3, <1>4

\* What the loop has made of the text when it comes to the i-th profile.
Read(list, m, i) ==
  LET read == WalkFrom(Cut(list, m))[4 * i - 1] IN
  /\ m < 4 * Len(list) + 2 => read.ok = FALSE
  /\ m = 4 * Len(list) + 2 => read = [ok |-> TRUE, list |-> From(list, i)]

LEMMA PushedNamed ==
  ASSUME NEW id, id # NoId, NEW rest
  PROVE  Pushed(id, rest) = [ok |-> rest.ok, list |-> <<id>> \o rest.list]
BY DEF Pushed

LEMMA ReadBefore ==
  ASSUME NEW S, NoId \notin S, NEW list \in Seq(S), NEW n \in Nat \ {0}, n = Len(list),
         NEW i \in 1..n, NEW m \in 0..(4 * n + 2), 4 * i - 1 <= m + 3,
         i < n /\ 4 * (i + 1) - 1 <= m + 3 => Read(list, m, i + 1)
  PROVE  Read(list, m, i)
<1> DEFINE read == WalkFrom(Cut(list, m))[4 * i - 1]
<1>1. PICK p \in Nat : p = 4 * i - 1
  OBVIOUS
<1>2. PICK body : body = Cut(list, m)
  OBVIOUS
<1>3. PICK next : next = Behind(list, i)
  OBVIOUS
<1>4. Len(body) = m /\ ObjectAt(body, m, p, list[i], next)
  <2>1. /\ Len(Cut(list, m)) = m
        /\ ObjectAt(Cut(list, m), m, p, list[i], Behind(list, i))
    BY <1>1, ObjectOf, Zenon
  <2> QED
    BY <1>2, <1>3, <2>1, Zenon
<1>5. p \in 3..(m + 3) /\ m \in Nat /\ list[i] # NoId
  <2>1. list[i] \in S
    OBVIOUS
  <2> QED
    BY <1>1, <2>1
<1>6. CASE m < p + 3
  <2>1. WalkFrom(body)[p].ok = FALSE
    BY <1>4, <1>5, <1>6, CutOff, Zenon
  <2>2. m # 4 * n + 2
    BY <1>1, <1>6
  <2>3. read.ok = FALSE
    BY <1>1, <1>2, <2>1, Zenon
  <2> QED
    BY <2>2, <2>3, Zenon DEF Read
<1>7. CASE m >= p + 3
  <2>0. p + 3 <= m
    BY <1>5, <1>7
  <2>1. Counted(body, p, list[i], next)
    BY <1>4, <1>5, <2>0, Passed, Zenon
  <2>2. CASE i = n
    <3>1. m = 4 * n + 2 /\ ~(m < 4 * n + 2)
      BY <1>1, <1>7, <2>2
    <3>2. read = Pushed(list[i], [ok |-> TRUE, list |-> << >>])
      BY <1>1, <1>2, <1>3, <2>1, <2>2, Zenon DEF Counted, Behind
    <3>3. read = [ok |-> TRUE, list |-> <<list[i]>> \o << >>]
      <4>1. Pushed(list[i], [ok |-> TRUE, list |-> << >>])
              = [ok |-> TRUE, list |-> <<list[i]>> \o << >>]
        BY <1>5 DEF Pushed
      <4> QED
        BY <3>2, <4>1, Zenon
    <3>4. <<list[i]>> \o << >> = From(list, i)
      <4>1. i \in 1..Len(list) /\ i = Len(list)
        BY <2>2
      <4> QED
        BY <4>1, FromGrows, Zenon
    <3> QED
      BY <3>1, <3>3, <3>4, Zenon DEF Read
  <2>3. CASE i # n
    <3>1. i < n /\ 4 * (i + 1) - 1 <= m + 3 /\ 4 * (i + 1) - 1 = p + 4
      BY <1>1, <1>7, <2>3
    <3> DEFINE rest == WalkFrom(Cut(list, m))[4 * (i + 1) - 1]
    <3>2. /\ m < 4 * Len(list) + 2 => rest.ok = FALSE
          /\ m = 4 * Len(list) + 2 => rest = [ok |-> TRUE, list |-> From(list, i + 1)]
      BY <3>1, Zenon DEF Read
    <3>3. read = Pushed(list[i], rest)
      BY <1>1, <1>2, <1>3, <2>1, <2>3, <3>1, Zenon DEF Counted, Behind
    <3>4. read.ok = rest.ok /\ read.list = <<list[i]>> \o rest.list
          /\ read = [ok |-> rest.ok, list |-> <<list[i]>> \o rest.list]
      <4> HIDE DEF rest, read
      <4>1. read = [ok |-> rest.ok, list |-> <<list[i]>> \o rest.list]
        BY <1>5, <3>3, PushedNamed, Zenon
      <4> QED
        BY <4>1
    <3>5. <<list[i]>> \o From(list, i + 1) = From(list, i)
      <4>1. i \in 1..Len(list) /\ i # Len(list)
        BY <2>3
      <4> QED
        BY <4>1, FromGrows, Zenon
    <3>6. m = 4 * Len(list) + 2 => read = [ok |-> TRUE, list |-> From(list, i)]
      <4> SUFFICES ASSUME m = 4 * Len(list) + 2
                   PROVE  read = [ok |-> TRUE, list |-> From(list, i)]
        OBVIOUS
      <4>1. rest = [ok |-> TRUE, list |-> From(list, i + 1)]
        BY <3>2, Zenon
      <4>2. rest.ok = TRUE /\ rest.list = From(list, i + 1)
        <5> HIDE DEF rest
        <5> QED
          BY <4>1
      <4> QED
        BY <3>4, <3>5, <4>2, Zenon
    <3> QED
      BY <3>2, <3>4, <3>6, Zenon DEF Read
  <2> QED
    BY <2>2, <2>3
<1> QED
  BY <1>5, <1>6, <1>7

LEMMA ReadAll ==
  ASSUME NEW S, NoId \notin S, NEW list \in Seq(S), NEW n \in Nat \ {0}, n = Len(list),
         NEW m \in 0..(4 * n + 2)
  PROVE  Read(list, m, 1)
<1> DEFINE Good(i) == 4 * i - 1 <= m + 3 => Read(list, m, i)
           Bad == {k \in 0..(n - 1) : ~Good(n - k)}
<1>1. ASSUME NEW i \in 1..n, i < n => Good(i + 1)
      PROVE  Good(i)
  BY <1>1, ReadBefore, Zenon
<1>2. Bad = {}
  <2> SUFFICES ASSUME Bad # {}
               PROVE  FALSE
    OBVIOUS
  <2>1. PICK k \in Bad : \A j \in Bad : k <= j
    <3>1. Bad \subseteq Nat
      OBVIOUS
    <3> HIDE DEF Bad
    <3> QED
      BY <3>1, LeastNumber
  <2> HIDE DEF Good
  <2>2. k \in 0..(n - 1) /\ ~Good(n - k)
    OBVIOUS
  <2>3. n - k < n => Good(n - k + 1)
    <3> SUFFICES ASSUME n - k < n
                 PROVE  Good(n - k + 1)
      OBVIOUS
    <3>1. k - 1 \in 0..(n - 1) /\ n - (k - 1) = n - k + 1 /\ ~(k <= k - 1)
      BY <2>2
    <3>2. k - 1 \notin Bad
      BY <2>1, <3>1, Zenon
    <3> QED
      BY <3>1, <3>2, Zenon
  <2>4. n - k \in 1..n
    BY <2>2
  <2> QED
    BY <1>1, <2>2, <2>3, <2>4, Zenon
<1>3. Good(1)
  <2> HIDE DEF Good
  <2>1. n - 1 \in 0..(n - 1) /\ n - (n - 1) = 1
    OBVIOUS
  <2> QED
    BY <1>2, <2>1, Zenon
<1>4. 4 * 1 - 1 <= m + 3
  OBVIOUS
<1> QED
  BY <1>3, <1>4, Zenon

\* Of what arrived the caller learns the whole list, or that it failed.
AllOrNothing(list, result) ==
  result.ok = FALSE \/ result = [ok |-> TRUE, list |-> list]

LEMMA WholeOrFailed ==
  ASSUME NEW S, NoId \notin S, NEW list \in Seq(S), NEW result \in Results(list)
  PROVE  AllOrNothing(list, result)
<1>1. PICK m \in 0..Len(Body(list)) : result = Walk(Cut(list, m))
  BY Zenon DEF Results, Cut
<1>2. CASE result = Failed
  BY <1>2 DEF AllOrNothing, Failed
<1>3. CASE result # Failed
  <2>1. /\ At(Cut(list, m), 1) = "profiles" /\ At(Cut(list, m), 2) = "["
        /\ result = WalkFrom(Cut(list, m))[3]
    BY <1>1, <1>3, Zenon DEF Walk
  <2>2. CASE list = << >>
    <3>1. Len(Body(list)) = 3 /\ Body(list)[3] = "]"
      BY <2>2, EmptyBody, Zenon
    <3>2. Len(Body(list)) \in Nat /\ m \in 0..3 /\ 3 \in Nat \ {0}
      BY <3>1
    <3>3. Len(Cut(list, m)) = m /\ At(Cut(list, m), 3) = IF 3 <= m THEN "]" ELSE "end"
      BY <3>1, <3>2, CutTokens, Zenon
    <3>4. Len(Cut(list, m)) \in Nat /\ 3 \in 3..(Len(Cut(list, m)) + 3)
      <4>1. m \in Nat /\ 3 \in 3..(m + 3)
        BY <3>2
      <4> QED
        BY <3>3, <4>1, Zenon
    <3>5. result = Failed \/ result = [ok |-> TRUE, list |-> << >>]
      BY <2>1, <3>3, <3>4, StepCases, Zenon
    <3> QED
      BY <1>3, <2>2, <3>5, Zenon DEF AllOrNothing
  <2>3. CASE list # << >>
    <3>1. PICK n \in Nat \ {0} : n = Len(list)
      BY <2>3
    <3>2. Len(Body(list)) = 4 * n + 2
      BY <2>3, <3>1, BodyTokens, Zenon
    <3>3. m \in 0..(4 * n + 2)
      BY <3>2, Zenon
    <3>4. Read(list, m, 1)
      BY <3>1, <3>3, ReadAll, Zenon
    <3>5. 4 * 1 - 1 = 3 /\ (m < 4 * n + 2 \/ m = 4 * n + 2)
      BY <3>3
    <3>6. 1 \in 1..Len(list)
      BY <3>1
    <3>7. From(list, 1) = list
      BY <3>6, FromGrows, Zenon
    <3> QED
      BY <2>1, <3>1, <3>4, <3>5, <3>7, Zenon DEF AllOrNothing, Read
  <2> QED
    BY <2>2, <2>3
<1> QED
  BY <1>2, <1>3

----------------------------------------------------------------------------
(* The list of profiles                                                    *)

LEMMA FetchWhole ==
  ASSUME Fetch, ListIsWhole
  PROVE  ListIsWhole'
<1>1. PICK list \in Catalogs : \E result \in Results(list) :
        profiles' = IF result.ok THEN result.list ELSE profiles
  BY Zenon DEF Fetch
<1>2. PICK result \in Results(list) : profiles' = IF result.ok THEN result.list ELSE profiles
  BY <1>1, Zenon
<1>3. list \in Seq(Ids) /\ NoId \notin Ids
  BY ProfileAssumption
<1>4. AllOrNothing(list, result)
  BY <1>3, WholeOrFailed, Zenon
<1>5. CASE result.ok = FALSE
  BY <1>2, <1>5 DEF ListIsWhole
<1>6. CASE result = [ok |-> TRUE, list |-> list]
  <2>1. result.ok = TRUE /\ result.list = list
    BY <1>6
  <2> QED
    BY <1>2, <2>1 DEF ListIsWhole
<1> QED
  BY <1>4, <1>5, <1>6, Zenon DEF AllOrNothing

\* What a step of the console does to the profiles.
LEMMA ProfileSteps ==
  ASSUME [Next]_vars
  PROVE  profiles' = profiles \/ Fetch \/ profiles' = << >>
<1>1. HandleKey => profiles' = profiles \/ Fetch
  BY DEF HandleKey, uiVars, ChatKey, OpenSettings, OpenPicker, Edit, PickerKey, Close, Choose,
         MoveIn, SettingsKey, PromptKey, LeavePrompt, FactoryReset, PromptEdit
<1> QED
  BY <1>1 DEF Next, vars, uiVars, Boot, PowerOff, Look, Press, SortKey, ServeKey, PickerTimeout,
              Close

(* Wherever the connection ends, the part of the answer that has arrived   *)
(* is taken for the list only when it is the list.                         *)
THEOREM ListsAreWhole == Spec => []ListIsWhole
<1>1. Init => ListIsWhole
  BY DEF Init, ListIsWhole
<1>2. ListIsWhole /\ [Next]_vars => ListIsWhole'
  <2> SUFFICES ASSUME ListIsWhole, [Next]_vars
               PROVE  ListIsWhole'
    OBVIOUS
  <2>1. CASE profiles' = profiles
    BY <2>1 DEF ListIsWhole
  <2>2. CASE profiles' = << >>
    BY <2>2 DEF ListIsWhole
  <2> QED
    BY <2>1, <2>2, FetchWhole, ProfileSteps
<1> QED
  BY <1>1, <1>2, PTL DEF Spec

----------------------------------------------------------------------------
(* Type correctness of the views                                           *)

UiTypeOK ==
  /\ view \in Views
  /\ input \in Seq(Printable) /\ Len(input) <= MaxInput
  /\ typed \in Seq(Printable) /\ Len(typed) <= MaxTyped
  /\ active \in Ids /\ stored \in Ids \cup {NoId}
  /\ cursor \in Nat
  /\ view = "picker" => cursor < Len(profiles)
  /\ view \in {"settings", "prompt"} => cursor \in 0..2

CountsOK == entered \in BOOLEAN /\ changes \in 0..MaxChanges /\ boots \in 0..MaxBoots

LEMMA ProfilesTyped ==
  ASSUME NEW list, list # << >> => list \in Catalogs
  PROVE  list \in Seq(Ids)
<1>1. CASE list = << >>
  BY <1>1
<1>2. CASE list # << >>
  BY <1>2, ProfileAssumption
<1> QED
  BY <1>1, <1>2

LEMMA RowThere ==
  ASSUME NEW S, NEW list \in Seq(S), list # << >>, NEW id
  PROVE  RowOf(list, id) \in Nat /\ RowOf(list, id) < Len(list)
<1> DEFINE rows == {i \in 1..Len(list) : list[i] = id}
<1>1. Len(list) \in Nat \ {0}
  OBVIOUS
<1>2. CASE rows = {}
  <2>1. RowOf(list, id) = 0
    BY <1>2 DEF RowOf
  <2> QED
    BY <1>1, <2>1
<1>3. CASE rows # {}
  <2> DEFINE first == CHOOSE i \in rows : \A j \in rows : i <= j
  <2>1. rows \subseteq Nat
    OBVIOUS
  <2>2. first \in rows
    <3> HIDE DEF rows
    <3>1. \E i \in rows : \A j \in rows : i <= j
      BY <1>3, <2>1, LeastNumber, Zenon
    <3> QED
      BY <3>1
  <2>3. RowOf(list, id) = first - 1
    BY <1>3 DEF RowOf
  <2>4. first \in 1..Len(list)
    <3> HIDE DEF first
    <3> QED
      BY <2>2
  <2> HIDE DEF first
  <2> QED
    BY <1>1, <2>3, <2>4
<1> QED
  BY <1>2, <1>3

LEMMA MovedThere ==
  ASSUME cursor \in Nat, NEW rows \in Nat, cursor < rows
  PROVE  Moved(rows) \in Nat /\ Moved(rows) < rows
<1>1. \/ Moved(rows) = cursor + 1 /\ cursor + 1 < rows
      \/ Moved(rows) = cursor - 1 /\ cursor > 0
      \/ Moved(rows) = cursor
  BY Zenon DEF Moved
<1> QED
  BY <1>1

LEMMA SeqSteps ==
  ASSUME NEW S, NEW s \in Seq(S)
  PROVE  /\ s # << >> => Front(s) \in Seq(S) /\ Len(Front(s)) = Len(s) - 1
         /\ \A e \in S : Append(s, e) \in Seq(S) /\ Len(Append(s, e)) = Len(s) + 1
<1>1. ASSUME s # << >>
      PROVE  Front(s) \in Seq(S) /\ Len(Front(s)) = Len(s) - 1
  <2>1. Front(s) = SubSeq(s, 1, Len(s) - 1)
    BY DEF Front
  <2>2. Len(s) \in Nat \ {0}
    BY <1>1
  <2>3. PICK k \in Nat : k = Len(s) - 1
    BY <2>2
  <2>4. SubSeq(s, 1, k) = [i \in 1..(k - 1 + 1) |-> s[i + 1 - 1]]
    OBVIOUS
  <2>5. [i \in 1..(k - 1 + 1) |-> s[i + 1 - 1]] = [i \in 1..k |-> s[i]]
    BY <2>3
  <2>6. \A i \in 1..k : s[i] \in S
    BY <2>3
  <2>7. [i \in 1..k |-> s[i]] \in Seq(S) /\ Len([i \in 1..k |-> s[i]]) = k
    BY <2>6
  <2> QED
    BY <2>1, <2>3, <2>4, <2>5, <2>7, Zenon
<1>2. \A e \in S : Append(s, e) \in Seq(S) /\ Len(Append(s, e)) = Len(s) + 1
  OBVIOUS
<1> QED
  BY <1>1, <1>2, Zenon

LEMMA EditTypes ==
  ASSUME UiTypeOK, view = "chat", Edit
  PROVE  UiTypeOK'
<1>1. /\ input \in Seq(Printable) /\ Len(input) \in Nat /\ Len(input) <= MaxInput
      /\ MaxInput \in Nat
  BY InputAssumption DEF UiTypeOK
<1>2. \/ input' = << >>
      \/ input # << >> /\ input' = Front(input)
      \/ NextKey \in Printable /\ Len(input) < MaxInput /\ input' = Append(input, NextKey)
      \/ input' = input
  BY DEF Edit
<1>3. input' \in Seq(Printable) /\ Len(input') <= MaxInput
  <2>1. CASE input' = << >>
    BY <1>1, <2>1
  <2>2. CASE input # << >> /\ input' = Front(input)
    <3>1. Front(input) \in Seq(Printable) /\ Len(Front(input)) = Len(input) - 1
      BY <1>1, <2>2, SeqSteps, Zenon
    <3> QED
      BY <1>1, <2>2, <3>1
  <2>3. CASE NextKey \in Printable /\ Len(input) < MaxInput /\ input' = Append(input, NextKey)
    <3>1. Append(input, NextKey) \in Seq(Printable)
          /\ Len(Append(input, NextKey)) = Len(input) + 1
      BY <1>1, <2>3, SeqSteps, Zenon
    <3> QED
      BY <1>1, <2>3, <3>1
  <2> QED
    BY <1>1, <1>2, <2>1, <2>2, <2>3
<1> QED
  BY <1>3 DEF UiTypeOK, Edit

LEMMA PromptEditTypes ==
  ASSUME UiTypeOK, view = "prompt", PromptEdit
  PROVE  UiTypeOK'
<1>1. /\ typed \in Seq(Printable) /\ Len(typed) \in Nat /\ Len(typed) <= MaxTyped
      /\ MaxTyped \in Nat
  BY InputAssumption DEF UiTypeOK
<1>2. \/ typed # << >> /\ typed' = Front(typed)
      \/ NextKey \in Printable /\ Len(typed) < MaxTyped /\ typed' = Append(typed, NextKey)
      \/ typed' = typed
  BY DEF PromptEdit
<1>3. typed' \in Seq(Printable) /\ Len(typed') <= MaxTyped
  <2>1. CASE typed # << >> /\ typed' = Front(typed)
    <3>1. Front(typed) \in Seq(Printable) /\ Len(Front(typed)) = Len(typed) - 1
      BY <1>1, <2>1, SeqSteps, Zenon
    <3> QED
      BY <1>1, <2>1, <3>1
  <2>2. CASE NextKey \in Printable /\ Len(typed) < MaxTyped /\ typed' = Append(typed, NextKey)
    <3>1. Append(typed, NextKey) \in Seq(Printable)
          /\ Len(Append(typed, NextKey)) = Len(typed) + 1
      BY <1>1, <2>2, SeqSteps, Zenon
    <3> QED
      BY <1>1, <2>2, <3>1
  <2> QED
    BY <1>1, <1>2, <2>1, <2>2
<1> QED
  BY <1>3 DEF UiTypeOK, PromptEdit

LEMMA ChatTypes ==
  ASSUME UiTypeOK, ListIsWhole, ListIsWhole', view = "chat", ChatKey
  PROVE  UiTypeOK'
<1>1. CASE OpenSettings
  BY <1>1 DEF UiTypeOK, OpenSettings, Views, Open
<1>2. CASE OpenPicker
  <2>1. profiles' \in Seq(Ids)
    BY ProfilesTyped, Zenon DEF ListIsWhole
  <2>2. CASE profiles' = << >>
    BY <1>2, <2>2 DEF UiTypeOK, OpenPicker
  <2>3. CASE profiles' # << >>
    <3>1. view' = "picker" /\ cursor' = RowOf(profiles', active)
      BY <1>2, <2>3 DEF OpenPicker
    <3>2. cursor' \in Nat /\ cursor' < Len(profiles')
      BY <2>1, <2>3, <3>1, RowThere, Zenon
    <3> QED
      BY <1>2, <3>1, <3>2 DEF UiTypeOK, OpenPicker, Views, Open
  <2> QED
    BY <2>2, <2>3
<1> QED
  BY <1>1, <1>2, EditTypes DEF ChatKey

LEMMA PickerTypes ==
  ASSUME UiTypeOK, ListIsWhole, view = "picker", PickerKey
  PROVE  UiTypeOK'
<1>1. profiles \in Seq(Ids) /\ cursor \in Nat /\ cursor < Len(profiles) /\ Len(profiles) \in Nat
  <2>1. profiles \in Seq(Ids)
    BY ProfilesTyped, Zenon DEF ListIsWhole
  <2> QED
    BY <2>1 DEF UiTypeOK
<1>2. CASE Close
  BY <1>2 DEF UiTypeOK, Close, Views, Open
<1>3. CASE Choose
  <2>1. profiles[cursor + 1] \in Ids
    BY <1>1
  <2> QED
    BY <1>3, <2>1 DEF UiTypeOK, Choose, Views, Open
<1>4. CASE MoveIn(Len(profiles))
  <2>1. Moved(Len(profiles)) \in Nat /\ Moved(Len(profiles)) < Len(profiles)
    BY <1>1, MovedThere, Zenon
  <2> QED
    BY <1>4, <2>1 DEF UiTypeOK, MoveIn
<1> QED
  BY <1>2, <1>3, <1>4 DEF PickerKey

LEMMA SettingsTypes ==
  ASSUME UiTypeOK, view = "settings", SettingsKey
  PROVE  UiTypeOK'
<1>1. cursor \in 0..2
  BY DEF UiTypeOK
<1>2. CASE Close
  BY <1>2 DEF UiTypeOK, Close, Views, Open
<1>3. CASE view' = "prompt" /\ typed' = << >> /\ UNCHANGED <<input, cursor, profiles, active, stored>>
  <2>1. typed' \in Seq(Printable) /\ Len(typed') <= MaxTyped
    BY <1>3, InputAssumption
  <2> QED
    BY <1>1, <1>3, <2>1 DEF UiTypeOK, Views, Open
<1>4. CASE MoveIn(3)
  <2>1. cursor \in Nat /\ cursor < 3 /\ 3 \in Nat
    BY <1>1
  <2>2. Moved(3) \in Nat /\ Moved(3) < 3
    BY <2>1, MovedThere, Zenon
  <2>3. Moved(3) \in 0..2
    BY <2>2
  <2> QED
    BY <1>4, <2>2, <2>3 DEF UiTypeOK, MoveIn
<1> QED
  BY <1>2, <1>3, <1>4 DEF SettingsKey

LEMMA PromptTypes ==
  ASSUME UiTypeOK, view = "prompt", PromptKey
  PROVE  UiTypeOK'
<1>1. CASE LeavePrompt
  BY <1>1 DEF UiTypeOK, LeavePrompt, Views, Open
<1>2. CASE FactoryReset
  BY <1>2 DEF UiTypeOK, FactoryReset, Views, Open
<1> QED
  BY <1>1, <1>2, PromptEditTypes DEF PromptKey

LEMMA UiTypes ==
  ASSUME UiTypeOK, ListIsWhole, ListIsWhole', [Next]_vars
  PROVE  UiTypeOK'
<1>1. CASE UNCHANGED uiVars
  BY <1>1 DEF UiTypeOK, uiVars
<1>2. CASE Boot
  <2>1. active' \in Ids
    BY <1>2, ProfileAssumption DEF UiTypeOK, Boot
  <2> QED
    BY <1>2, <2>1 DEF UiTypeOK, Boot, Views, Open
<1>3. CASE PowerOff
  <2>1. /\ input' \in Seq(Printable) /\ Len(input') <= MaxInput
        /\ typed' \in Seq(Printable) /\ Len(typed') <= MaxTyped
    BY <1>3, InputAssumption DEF PowerOff
  <2> QED
    BY <1>3, <2>1, ProfileAssumption DEF UiTypeOK, PowerOff, Views
<1>4. CASE HandleKey
  BY <1>1, <1>4, ChatTypes, PickerTypes, SettingsTypes, PromptTypes DEF HandleKey
<1>5. CASE Close
  BY <1>5 DEF UiTypeOK, Close, Views, Open
<1> QED
  BY <1>1, <1>2, <1>3, <1>4, <1>5
     DEF Next, vars, Look, Press, SortKey, ServeKey, PickerTimeout

LEMMA CountTypes ==
  ASSUME CountsOK, [Next]_vars
  PROVE  CountsOK'
<1>1. MaxChanges \in Nat /\ MaxBoots \in Nat
  BY InputAssumption
<1>2. entered' \in BOOLEAN
  BY DEF CountsOK, Next, vars, Boot, PowerOff, Look, Press, SortKey, ServeKey, PickerTimeout
<1>3. changes' = changes \/ (changes < MaxChanges /\ changes' = changes + 1)
  BY DEF Next, vars, Boot, PowerOff, Look, Press, SortKey, ServeKey, PickerTimeout
<1>4. boots' = boots \/ (boots < MaxBoots /\ boots' = boots + 1)
  BY DEF Next, vars, Boot, PowerOff, Look, Press, SortKey, ServeKey, PickerTimeout
<1> QED
  BY <1>1, <1>2, <1>3, <1>4 DEF CountsOK

(* Whatever keys arrive and wherever the profile list is cut, the marked   *)
(* row of a view is one it has, and nothing typed outgrows its line.       *)
THEOREM TypesHold == Spec => []TypeOK
<1>1. Init => UiTypeOK /\ CountsOK
  <2> SUFFICES ASSUME Init
               PROVE  UiTypeOK /\ CountsOK
    OBVIOUS
  <2>1. /\ input \in Seq(Printable) /\ Len(input) <= MaxInput
        /\ typed \in Seq(Printable) /\ Len(typed) <= MaxTyped
    BY InputAssumption DEF Init
  <2>2. view \in Views /\ view \notin {"picker", "settings", "prompt"}
    BY DEF Init, Views
  <2>3. active \in Ids /\ stored \in Ids \cup {NoId} /\ cursor \in Nat
    BY ProfileAssumption DEF Init
  <2>4. CountsOK
    <3>1. 0 \in 0..MaxChanges /\ 0 \in 0..MaxBoots
      BY InputAssumption
    <3> QED
      BY <3>1, Zenon DEF Init, CountsOK
  <2> QED
    BY <2>1, <2>2, <2>3, <2>4 DEF UiTypeOK
<1>2. UiTypeOK /\ ListIsWhole /\ ListIsWhole' /\ [Next]_vars => UiTypeOK'
  BY UiTypes
<1>3. CountsOK /\ [Next]_vars => CountsOK'
  BY CountTypes
<1>4. KeyboardTypeOK /\ ListIsWhole /\ UiTypeOK /\ CountsOK => TypeOK
  BY ProfilesTyped, Zenon DEF TypeOK, UiTypeOK, CountsOK, ListIsWhole
<1> QED
  BY <1>1, <1>2, <1>3, <1>4, KeyboardAlways, ListsAreWhole, PTL DEF Spec
=============================================================================
