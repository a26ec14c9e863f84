------------------------------ MODULE Keyboard ------------------------------
(***************************************************************************)
(* keyboard_input::poll: what is down when the keyboard reports a change   *)
(* goes into four flags, a ring of special codes and a ring of characters; *)
(* each call returns one key, the flags first, then the codes, then the    *)
(* characters.                                                             *)
(*                                                                         *)
(* A call is cut into the look at the keyboard (Look), one step for each   *)
(* character of the state's word (Sort), and the return of a key (Serve).  *)
(***************************************************************************)
EXTENDS KeyRing, FiniteSets

CONSTANTS
  Characters,   \* what the library can put into state.word
  Printable,    \* those from 0x20 to 0x7E
  QueueSize,    \* slots of s_queue (16)
  SpecialsSize, \* slots of s_specials (8)
  KeyStates     \* what keysState() may return at a change

NoKey   == "none"
Flags   == {"enter", "backspace", "escape", "tab"}
Codes   == {"left", "right", "up", "down", "settings"}

ASSUME CharacterAssumption ==
  Printable \subseteq Characters /\ Characters \cap (Flags \cup Codes \cup {NoKey}) = {}
ASSUME SizeAssumption == QueueSize \in Nat \ {0} /\ SpecialsSize \in Nat \ {0}
ASSUME KeyStateAssumption ==
  KeyStates \subseteq [flags : SUBSET {"enter", "backspace", "tab"},
                       fn : BOOLEAN, word : Seq(Characters)]

VARIABLES
  queue,     \* s_queue, s_head, s_tail
  specials,  \* s_specials, s_specials_head, s_specials_tail
  pending,   \* the s_pending_... that are set
  fn,        \* state.fn
  word,      \* what is left of state.word
  polling    \* inside poll()

kbVars == <<queue, specials, pending, fn, word, polling>>

KeyboardTypeOK ==
  /\ queue \in RingOf(QueueSize, Characters \cup {NoKey})
  /\ specials \in RingOf(SpecialsSize, Codes \cup {NoKey})
  /\ pending \in SUBSET Flags
  /\ fn \in BOOLEAN /\ word \in Seq(Characters) /\ polling \in BOOLEAN
  /\ word # << >> => polling

KeyboardReset ==
  /\ queue' = FreshRing(QueueSize, NoKey) /\ specials' = FreshRing(SpecialsSize, NoKey)
  /\ pending' = {} /\ fn' = FALSE /\ word' = << >> /\ polling' = FALSE

KeyboardInit ==
  /\ queue = FreshRing(QueueSize, NoKey) /\ specials = FreshRing(SpecialsSize, NoKey)
  /\ pending = {} /\ fn = FALSE /\ word = << >> /\ polling = FALSE

----------------------------------------------------------------------------
\* With Fn held the arrows are , . ; / and Esc is the grave; other characters go.
Meaning(withFn, c) ==
  IF ~withFn THEN IF c \in Printable THEN c ELSE NoKey
  ELSE CASE c = "," -> "left"
         [] c = "." -> "down"
         [] c = ";" -> "up"
         [] c = "/" -> "right"
         [] c = "grave" -> "escape"
         [] c \in {"s", "S"} -> "settings"
         [] OTHER -> NoKey

LookNoChange ==
  /\ ~polling /\ polling' = TRUE
  /\ UNCHANGED <<queue, specials, pending, fn, word>>

LookChange(state) ==
  /\ ~polling /\ polling' = TRUE
  /\ pending' = pending \cup state.flags
  /\ fn' = state.fn /\ word' = state.word
  /\ UNCHANGED <<queue, specials>>

Sort ==
  LET key == Meaning(fn, Head(word)) IN
  /\ word # << >> /\ word' = Tail(word)
  /\ queue' = IF key \in Printable THEN Put(QueueSize, queue, key) ELSE queue
  /\ specials' = IF key \in Codes THEN Put(SpecialsSize, specials, key) ELSE specials
  /\ pending' = IF key \in Flags THEN pending \cup {key} ELSE pending
  /\ UNCHANGED <<fn, polling>>

\* The order in which the flags are looked at.
FirstFlag ==
  CHOOSE f \in pending :
    \A g \in pending : f = g \/ <<f, g>> \in
      {"enter"} \X Flags \cup {"backspace"} \X {"escape", "tab"} \cup {<<"escape", "tab">>}

\* What poll() returns.
NextKey ==
  IF pending # {} THEN FirstFlag
  ELSE IF ~RingIsEmpty(specials) THEN Oldest(specials)
  ELSE IF ~RingIsEmpty(queue) THEN Oldest(queue)
  ELSE NoKey

Served ==
  \/ /\ pending # {}
     /\ pending' = pending \ {FirstFlag} /\ UNCHANGED <<specials, queue>>
  \/ /\ pending = {} /\ ~RingIsEmpty(specials)
     /\ specials' = Taken(SpecialsSize, specials) /\ UNCHANGED <<pending, queue>>
  \/ /\ pending = {} /\ RingIsEmpty(specials) /\ ~RingIsEmpty(queue)
     /\ queue' = Taken(QueueSize, queue) /\ UNCHANGED <<pending, specials>>
  \/ /\ NextKey = NoKey /\ UNCHANGED <<pending, specials, queue>>

Serve ==
  /\ polling /\ word = << >> /\ polling' = FALSE
  /\ Served /\ UNCHANGED <<fn, word>>
=============================================================================
