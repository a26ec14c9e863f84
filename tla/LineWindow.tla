----------------------------- MODULE LineWindow -----------------------------
(***************************************************************************)
(* What a scrollback promises: it shows the newest lines, at most Capacity *)
(* of them and none wider than Widest; a line once shown only grows, and   *)
(* only while it is the last; the oldest goes first, and only for a new    *)
(* one.                                                                    *)
(***************************************************************************)
EXTENDS Integers, Sequences

CONSTANTS Capacity, Widest, Kinds

VARIABLE window

WindowInit == window = << >>

Fits(line) == Len(line.text) <= Widest

Newest == window[Len(window)]

AddLine ==
  /\ window' # << >>
  /\ Newest' \in [kind : Kinds, text : Seq(Nat)] /\ Fits(Newest')
  /\ window' = IF Len(window) < Capacity
                 THEN Append(window, Newest') ELSE Append(Tail(window), Newest')

Extend ==
  LET n == Len(window)
      before == window[n].text
      after == window'[n].text IN
  /\ n > 0 /\ Len(window') = n /\ window' = [window EXCEPT ![n].text = after]
  /\ after \in Seq(Nat) /\ Len(after) >= Len(before)
  /\ SubSeq(after, 1, Len(before)) = before
  /\ Fits(window'[n])

Erase == window' = << >>

WindowNext == AddLine \/ Extend \/ Erase

WindowSpec == WindowInit /\ [][WindowNext]_window
=============================================================================
