------------------------------- MODULE Shelf --------------------------------
(***************************************************************************)
(* What a durable catalog promises to requests that come one at a time:    *)
(* one profile is changed in what is served; the change is then kept, or   *)
(* taken back whole.  One that is neither stays served until the next that *)
(* is kept, which keeps both, or until what is kept is served again.       *)
(***************************************************************************)
CONSTANTS Ids, Contents

VARIABLES
  kept,    \* what survives a restart
  served,  \* what is listed
  base     \* what was listed before the change being made

ShelfInit == kept \in [Ids -> Contents] /\ served = kept /\ base = kept

Change ==
  /\ served = base
  /\ \E id \in Ids : \E c \in Contents : served' = [served EXCEPT ![id] = c]
  /\ UNCHANGED <<kept, base>>

Commit == kept' = served /\ base' = served /\ UNCHANGED served

TakeBack == served' = base /\ UNCHANGED <<kept, base>>

Leave == base' = served /\ UNCHANGED <<kept, served>>

Reload == served' = kept /\ base' = kept /\ UNCHANGED kept

ShelfNext == Change \/ Commit \/ TakeBack \/ Leave \/ Reload

ShelfSpec == ShelfInit /\ [][ShelfNext]_<<kept, served, base>>
=============================================================================
