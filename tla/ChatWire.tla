------------------------------ MODULE ChatWire ------------------------------
(***************************************************************************)
(* What the device and the proxy share during a chat turn: the POST body   *)
(* the device sent, and the TCP connection that carries the answer back.   *)
(* Every send opens a connection of its own, so connections are numbered   *)
(* by the turn that opened them; a late answer stays on its old connection.*)
(*                                                                         *)
(* A text is a sequence of units <<turn, position>>.  Position 0 is what   *)
(* the user typed, positions 1.. are what the upstream model generated for *)
(* that turn.  A data line carries the units lo..hi of its turn's reply.   *)
(***************************************************************************)
EXTENDS Integers, Sequences

CONSTANTS
  MaxTurns,     \* bound: sends in one behaviour
  MaxText,      \* bound: units the upstream generates for one turn
  Profiles,     \* profile ids a device may name
  NoProfile     \* via[t] before turn t has sent anything

ASSUME TurnAssumption == MaxTurns \in Nat /\ MaxText \in Nat
ASSUME ProfileAssumption == NoProfile \notin Profiles

Turns == 1..MaxTurns
Unit  == Turns \X (0..MaxText)
Text  == Seq(Unit)

\* chat_client.h: struct Message { String role; String content; }
Message == [role : {"user", "assistant"}, content : Text]

UserMessage(t)  == [role |-> "user", content |-> << <<t, 0>> >>]
AssistantMessage(text) == [role |-> "assistant", content |-> text]

(***************************************************************************)
(* Lines of the response.  "status" carries the HTTP code, "blank" ends    *)
(* the headers (and separates events), "data" is an event, "done" is       *)
(* "data: [DONE]", and "rest" is the tail of a line that did not fit the   *)
(* reader's buffer, which begins with anything but "data: ".               *)
(***************************************************************************)
Codes == {200, 401, 404, 500, 501, 502}
Line  == {l \in [kind : {"status", "blank", "data", "done", "rest"},
                 code : Codes, lo : 1..(MaxText + 1), hi : 0..MaxText] :
            l.lo <= l.hi + 1}

StatusLine(c)    == [kind |-> "status", code |-> c, lo |-> 1, hi |-> 0]
Other(kind)      == [kind |-> kind, code |-> 200, lo |-> 1, hi |-> 0]
DataLine(lo, hi) == [kind |-> "data", code |-> 200, lo |-> lo, hi |-> hi]

\* Mutant: the payload starts one unit late.
ShownLate(t, line, n) ==
  [i \in 1..(line.hi - line.lo) |-> <<t, line.lo + i>>]

\* The text a line shows of turn t, cut after its first n units.
Shown(t, line, n) ==
  LET whole == line.hi - line.lo + 1
      len   == IF whole < n THEN whole ELSE n
  IN  [i \in 1..len |-> <<t, line.lo + i - 1>>]

VARIABLES
  sock,   \* sock[t]: "none", "open", "eof" (far end gone), "closed" (cx.stop)
  wire,   \* wire[t]: lines the device has not read yet, oldest first
  asked,  \* asked[t]: the messages in the POST body of turn t
  via     \* via[t]: the profile_id in the POST body of turn t

wireVars == <<sock, wire, asked, via>>

WireTypeOK ==
  /\ sock  \in [Turns -> {"none", "open", "eof", "closed"}]
  /\ wire  \in [Turns -> Seq(Line)]
  /\ asked \in [Turns -> Seq(Message)]
  /\ via   \in [Turns -> Profiles \cup {NoProfile}]

WireInit ==
  /\ sock  = [t \in Turns |-> "none"]
  /\ wire  = [t \in Turns |-> << >>]
  /\ asked = [t \in Turns |-> << >>]
  /\ via   = [t \in Turns |-> NoProfile]

(***************************************************************************)
(* The connection of turn t dies (Wi-Fi loss, tunnel loss, the proxy       *)
(* process killed): what was in flight is cut after k lines, and the last  *)
(* of them may itself be cut in the middle of its text.                    *)
(***************************************************************************)
Reset(t) ==
  /\ sock[t] = "open"
  /\ sock' = [sock EXCEPT ![t] = "eof"]
  /\ \E k \in 0..Len(wire[t]) :
       \/ wire' = [wire EXCEPT ![t] = SubSeq(@, 1, k)]
       \/ /\ k > 0
          /\ wire[t][k].kind = "data"
          /\ \E cut \in (wire[t][k].lo - 1)..(wire[t][k].hi - 1) :
               wire' = [wire EXCEPT ![t] =
                          Append(SubSeq(@, 1, k - 1),
                                 DataLine(wire[t][k].lo, cut))]
  /\ UNCHANGED <<asked, via>>
=============================================================================
