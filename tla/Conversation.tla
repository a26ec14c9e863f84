----------------------------- MODULE Conversation ----------------------------
(***************************************************************************)
(* What a chat promises its user, without connections, timeouts or lines:  *)
(* the conversation is a list of question and reply pairs, at most one     *)
(* question is open, an open question either gets its reply or leaves no   *)
(* trace, and a reply holds only text generated for its own question, in   *)
(* the order it was generated and nothing twice.                           *)
(***************************************************************************)
EXTENDS Integers, Sequences

VARIABLES
  turns,    \* the completed turns: [question, reply]
  asking    \* the open question's number, 0 if none

convVars == <<turns, asking>>

IsReplyTo(q, text) ==
  /\ \A i \in 1..Len(text) : text[i][1] = q /\ text[i][2] >= 1
  /\ \A i, j \in 1..Len(text) : i < j => text[i][2] < text[j][2]

ConvInit == turns = << >> /\ asking = 0

Ask == asking = 0 /\ asking' > 0 /\ UNCHANGED turns

Answer ==
  /\ asking # 0 /\ asking' = 0
  /\ Len(turns') = Len(turns) + 1
  /\ \A k \in 1..Len(turns) : turns'[k] = turns[k]
  /\ turns'[Len(turns) + 1].question = asking
  /\ IsReplyTo(asking, turns'[Len(turns) + 1].reply)

Drop == asking # 0 /\ asking' = 0 /\ UNCHANGED turns

Forget == turns' = << >> /\ asking' = 0

ConvNext == Ask \/ Answer \/ Drop \/ Forget

ConvSpec == ConvInit /\ [][ConvNext]_convVars
=============================================================================
