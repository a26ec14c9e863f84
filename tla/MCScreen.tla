------------------------------ MODULE MCScreen ------------------------------
(* Small instances of Screen for TLC.                                      *)
EXTENDS Screen

CONSTANTS a, b

MCKinds == {"system", "user", "assistant", "error"}

\* One letter; a word that must be cut; words that break at a space; spaces first.
MCTexts ==
  LET x == TRUE
      o == FALSE IN
  { <<x>>, <<x, x, x, x>>, <<x, o, x, x>>, <<o, o, x, o, x>> }
=============================================================================
