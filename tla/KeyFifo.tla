------------------------------ MODULE KeyFifo -------------------------------
(***************************************************************************)
(* What the keyboard promises the views that read it: characters come out  *)
(* in the order they were typed, and so do the special codes; one is lost  *)
(* only when its queue is full; Enter and its like come once, and first.   *)
(***************************************************************************)
EXTENDS Integers, Sequences

CONSTANTS
  Keys,      \* characters, codes and flags
  FlagKeys, CodeKeys, CharKeys, \* the three classes
  CodeRoom, CharRoom            \* how many of a class can wait

VARIABLES
  offered,  \* the keys a change brought, not yet sorted
  flags,    \* the flags that are up
  codes,    \* the codes that wait
  chars     \* the characters that wait

fifoVars == <<offered, flags, codes, chars>>

FifoInit == offered = << >> /\ flags = {} /\ codes = << >> /\ chars = << >>

Offer ==
  /\ offered = << >> /\ offered' \in Seq(Keys)
  /\ flags' \in SUBSET FlagKeys /\ flags \subseteq flags'
  /\ UNCHANGED <<codes, chars>>

Accept ==
  LET key == Head(offered) IN
  /\ offered # << >> /\ offered' = Tail(offered)
  /\ flags' = IF key \in FlagKeys THEN flags \cup {key} ELSE flags
  /\ codes' = IF key \in CodeKeys /\ Len(codes) < CodeRoom THEN Append(codes, key) ELSE codes
  /\ chars' = IF key \in CharKeys /\ Len(chars) < CharRoom THEN Append(chars, key) ELSE chars

Deliver ==
  /\ offered = << >> /\ UNCHANGED offered
  /\ \/ /\ \E f \in flags : flags' = flags \ {f}
        /\ UNCHANGED <<codes, chars>>
     \/ /\ flags = {} /\ codes # << >> /\ codes' = Tail(codes)
        /\ UNCHANGED <<flags, chars>>
     \/ /\ flags = {} /\ codes = << >> /\ chars # << >> /\ chars' = Tail(chars)
        /\ UNCHANGED <<flags, codes>>

Restart == offered' = << >> /\ flags' = {} /\ codes' = << >> /\ chars' = << >>

FifoNext == Offer \/ Accept \/ Deliver \/ Restart

FifoSpec == FifoInit /\ [][FifoNext]_fifoVars
=============================================================================
