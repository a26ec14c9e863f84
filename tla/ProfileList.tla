---------------------------- MODULE ProfileList -----------------------------
(***************************************************************************)
(* proxy_api::fetch_profiles: the answer to GET /v1/profiles is read until *)
(* the connection ends or 15 s pass, and what has arrived by then is       *)
(* walked from the opening bracket on.                                     *)
(*                                                                         *)
(* The text is a sequence of tokens; of an object only the id is kept.     *)
(***************************************************************************)
EXTENDS Integers, Sequences

CONSTANT NoId   \* the empty id

\* What the proxy sends for a list of profiles: two tokens, then four for each
\* profile, a bracket in place of the last comma.
Token(list, p) ==
  IF p % 4 = 3 THEN "{" ELSE IF p % 4 = 1 THEN "}"
  ELSE IF p % 4 = 2 THEN "," ELSE list[p \div 4]

Body(list) ==
  LET last == IF list = << >> THEN 3 ELSE 4 * Len(list) + 2 IN
  [p \in 1..last |->
     IF p = 1 THEN "profiles" ELSE IF p = 2 THEN "["
     ELSE IF p = last THEN "]" ELSE Token(list, p)]

\* The C string ends where the text does.
At(body, p) == IF p <= Len(body) THEN body[p] ELSE "end"

\* find_obj_end, or 0 when the object does not end.
ObjectEnd(body, p) == IF At(body, p + 2) = "}" THEN p + 3 ELSE 0

AfterComma(body, p) == IF At(body, p) = "," THEN p + 1 ELSE p

Failed == [ok |-> FALSE, list |-> << >>]

\* r.profiles.push_back, before the rest of the text is read; an entry without
\* an id is left out.
Pushed(id, rest) ==
  [ok |-> rest.ok, list |-> (IF id = NoId THEN << >> ELSE <<id>>) \o rest.list]

\* Mutant: the end of the text ends the list, too.
WalkToTheEnd(body) ==
  LET from[p \in 3..(Len(body) + 3)] ==
        IF At(body, p) \in {"]", "end"} THEN [ok |-> TRUE, list |-> << >>]
        ELSE IF At(body, p) = "{" /\ ObjectEnd(body, p) # 0
          THEN Pushed(body[p + 1], from[AfterComma(body, ObjectEnd(body, p))])
          ELSE Failed IN
  IF At(body, 1) = "profiles" /\ At(body, 2) = "[" THEN from[3] ELSE Failed

\* What the loop makes of the text from each position on.
WalkFrom(body) ==
  LET from[p \in 3..(Len(body) + 3)] ==
        IF At(body, p) = "]" THEN [ok |-> TRUE, list |-> << >>]
        ELSE IF At(body, p) = "{" /\ ObjectEnd(body, p) # 0
          THEN Pushed(body[p + 1], from[AfterComma(body, ObjectEnd(body, p))])
          ELSE Failed IN
  from

Walk(body) ==
  IF At(body, 1) = "profiles" /\ At(body, 2) = "[" THEN WalkFrom(body)[3] ELSE Failed

\* The connection may end after any token: the caller sees a result each time.
Results(list) == {Walk(SubSeq(Body(list), 1, n)) : n \in 0..Len(Body(list))}
=============================================================================
