------------------------------- MODULE Screen -------------------------------
(***************************************************************************)
(* What the user sees: main.cpp calls the scrollback and chat_view, whose  *)
(* render() paints the status row, the last lines and the input row when   *)
(* something is marked dirty.                                              *)
(*                                                                         *)
(* A handler of main.cpp is the list of the calls it makes (todo), taken   *)
(* one after the other; push is one step for each line it adds.            *)
(***************************************************************************)
EXTENDS Scrollback, SequencesExt

CONSTANTS
  Rows,       \* kChatRows (6)
  Profiles,   \* profile ids; the status row has the label of the active one
  Texts,      \* shapes of what is pushed: sequences of TRUE (a letter) and FALSE
  MaxInput,   \* bound: characters of the input line
  MaxLetters, \* bound: letters given to the scrollback while the device is on
  MaxBoots    \* bound: starts of the device

ASSUME ScreenAssumption ==
  /\ Rows \in Nat \ {0} /\ Profiles # {} /\ Texts \subseteq Seq(BOOLEAN)
  /\ {"user", "assistant", "error"} \subseteq Kinds
  /\ MaxInput \in Nat /\ MaxLetters \in Nat /\ MaxBoots \in Nat

Statuses == {"boot", "wifi", "wg", "ready", "sending", "error"}
Phases   == {"off", "setup", "idle", "reply", "view"}

VARIABLES
  phase,    \* where loop() is between two handlers
  todo,     \* the calls the handler has still to make
  input,    \* s_input, its length
  active,   \* s_active_profile
  status, label, shownInput, \* chat_view: s_status, s_profile_label, s_input_buf
  dirty,    \* s_dirty
  painted,  \* what the display shows
  given,    \* history: letters handed to the scrollback
  boots

viewVars == <<status, label, shownInput, dirty, painted>>
mainVars == <<phase, input, active, given, boots>>
vars     == <<ringVars, viewVars, mainVars, todo>>

----------------------------------------------------------------------------
(* Calls                                                                   *)

Call(name, arg, text) == [call |-> name, arg |-> arg, text |-> text]
Push(kind, text) == Call("push", kind, text)
AppendText(text) == Call("append", "system", text)
MarkDirty        == Call("dirty", "", << >>)
SetStatus(s)     == Call("status", s, << >>)
SetLabel         == Call("label", "", << >>)
SetInput         == Call("input", "", << >>)
RenderCall       == Call("render", "", << >>)
Redraw           == <<SetInput, RenderCall>>

\* The letters of a shape take the next numbers.
LettersBefore(shape, i) == Cardinality({j \in 1..i : shape[j]})
Letters(shape) == LettersBefore(shape, Len(shape))
Numbered(shape, from) ==
  [i \in 1..Len(shape) |-> IF shape[i] THEN from + LettersBefore(shape, i) ELSE Space]

Calls ==
  [call : {"push"}, arg : Kinds, text : Seq(Nat)]
    \cup [call : {"append"}, arg : {"system"}, text : Seq(Nat)]
    \cup [call : {"status"}, arg : Statuses, text : {<< >>}]
    \cup [call : {"dirty", "label", "input", "render"}, arg : {""}, text : {<< >>}]

TypeOK ==
  /\ RingTypeOK
  /\ phase \in Phases /\ todo \in Seq(Calls)
  /\ input \in 0..MaxInput /\ shownInput \in 0..MaxInput
  /\ active \in Profiles /\ label \in Profiles \cup {""}
  /\ status \in Statuses /\ dirty \in BOOLEAN
  /\ given \in Nat /\ boots \in 0..MaxBoots

LastLines == [i \in 1..(IF size < Rows THEN size ELSE Rows) |->
                Window[size - (IF size < Rows THEN size ELSE Rows) + i]]

Image == [status |-> status, label |-> label, input |-> shownInput, lines |-> LastLines]

\* A display that shows something else: nothing, or another view.
Other(what) == [status |-> what, label |-> "", input |-> 0, lines |-> << >>]

Init ==
  /\ RingInit /\ phase = "off" /\ todo = << >> /\ input = 0 /\ active \in Profiles
  /\ status = "boot" /\ label = "" /\ shownInput = 0 /\ dirty = TRUE
  /\ painted = Other("dark") /\ given = 0 /\ boots = 0

NextCall == Head(todo)
IsNext(name) == todo # << >> /\ NextCall.call = name
Done == todo' = Tail(todo)

\* One pass of the loop of push: a line, and what is left of the text.
PushLine ==
  LET rest == Remainder(NextCall.text) IN
  /\ IsNext("push")
  /\ PushOne(NextCall.arg, SubSeq(NextCall.text, 1, Cut(NextCall.text)))
  /\ todo' = IF rest = << >> THEN Tail(todo) ELSE <<Push("system", rest)>> \o Tail(todo)
  /\ UNCHANGED <<viewVars, mainVars>>

\* append_to_last, up to the push of what does not fit.
AppendToLast ==
  LET text == NextCall.text
      room == Room(lines[Slot(size - 1)]) IN
  /\ IsNext("append")
  /\ IF size = 0 THEN UNCHANGED ringVars /\ todo' = <<Push("system", text)>> \o Tail(todo)
     ELSE IF Len(text) <= room THEN ExtendLast(text) /\ Done
     ELSE /\ ExtendLast(SubSeq(text, 1, room))
          /\ todo' = <<Push("system", Overflow(text, room))>> \o Tail(todo)
  /\ UNCHANGED <<viewVars, mainVars>>

Mark ==
  /\ IsNext("dirty") /\ Done /\ dirty' = TRUE
  /\ UNCHANGED <<ringVars, mainVars, status, label, shownInput, painted>>

ShowStatus ==
  /\ IsNext("status") /\ Done /\ status' = NextCall.arg /\ dirty' = TRUE
  /\ UNCHANGED <<ringVars, mainVars, label, shownInput, painted>>

ShowLabel ==
  /\ IsNext("label") /\ Done /\ label' = active /\ dirty' = TRUE
  /\ UNCHANGED <<ringVars, mainVars, status, shownInput, painted>>

ShowInput ==
  /\ IsNext("input") /\ Done /\ shownInput' = input /\ dirty' = TRUE
  /\ UNCHANGED <<ringVars, mainVars, status, label, painted>>

Render ==
  /\ IsNext("render") /\ Done
  /\ painted' = (IF dirty THEN Image ELSE painted) /\ dirty' = FALSE
  /\ UNCHANGED <<ringVars, mainVars, status, label, shownInput>>

----------------------------------------------------------------------------
(* Handlers                                                                *)

Ready(p) == phase = p /\ todo = << >>
Keep == UNCHANGED <<ringVars, viewVars, active, boots>>

\* Texts of these shapes may still be given to the scrollback.
MayGive(shapes) == given + FoldLeft(LAMBDA n, s : n + Letters(s), 0, shapes) <= MaxLetters

PowerOn ==
  /\ phase = "off" /\ boots < MaxBoots /\ boots' = boots + 1
  /\ Clear /\ phase' = "setup"
  /\ todo' = <<MarkDirty, RenderCall, SetLabel, SetStatus("wifi")>> \o Redraw
  /\ UNCHANGED <<viewVars, input, active, given>>

PowerOff ==
  /\ phase # "off" /\ phase' = "off" /\ todo' = << >>
  /\ input' = 0 /\ given' = 0 /\ status' = "boot" /\ label' = "" /\ shownInput' = 0
  /\ dirty' = TRUE /\ painted' = Other("dark")
  /\ Clear /\ UNCHANGED <<active, boots>>

\* The rest of setup(): an error line, or the greeting.
SetupFails(s, shape) ==
  /\ Ready("setup") /\ MayGive(<<shape>>)
  /\ todo' = (IF s = "wg" THEN <<SetStatus("wg")>> \o Redraw ELSE << >>)
             \o <<Push("error", Numbered(shape, given)), MarkDirty, SetStatus("error")>> \o Redraw
  /\ given' = given + Letters(shape) /\ phase' = "idle" /\ UNCHANGED input /\ Keep

SetupDone(shape) ==
  /\ Ready("setup") /\ MayGive(<<shape>>)
  /\ todo' = <<SetStatus("wg")>> \o Redraw
             \o <<SetLabel, Push("system", Numbered(shape, given)), MarkDirty, SetStatus("ready")>>
             \o Redraw
  /\ given' = given + Letters(shape) /\ phase' = "idle" /\ UNCHANGED input /\ Keep

\* loop(): the link is repaired, and every 5 s the status row is refreshed.
ReconnectWifi ==
  /\ Ready("idle") /\ todo' = <<SetStatus("wifi")>> \o Redraw
  /\ UNCHANGED <<phase, input, given>> /\ Keep

RestartTunnel ==
  /\ Ready("idle")
  /\ todo' = <<SetStatus("wg")>> \o Redraw \o <<SetStatus("ready")>> \o Redraw
  /\ UNCHANGED <<phase, input, given>> /\ Keep

Heartbeat ==
  /\ Ready("idle") /\ todo' = <<SetStatus("ready")>> \o Redraw
  /\ UNCHANGED <<phase, input, given>> /\ Keep

Type ==
  /\ Ready("idle") /\ input < MaxInput /\ input' = input + 1 /\ todo' = Redraw
  /\ UNCHANGED <<phase, given>> /\ Keep

Backspace ==
  /\ Ready("idle") /\ input > 0 /\ input' = input - 1 /\ todo' = Redraw
  /\ UNCHANGED <<phase, given>> /\ Keep

\* send_current_input, up to chat_client::send.
Send(ask, prompt) ==
  /\ Ready("idle") /\ input > 0 /\ MayGive(<<ask, prompt>>)
  /\ todo' = <<Push("user", Numbered(ask, given)),
               Push("assistant", Numbered(prompt, given + Letters(ask))),
               MarkDirty, SetStatus("sending")>> \o Redraw
  /\ given' = given + Letters(ask) + Letters(prompt)
  /\ phase' = "reply" /\ UNCHANGED input /\ Keep

\* Mutant: the callback does not mark what it has appended.
OnDeltaUnmarked(text) == <<AppendText(text), RenderCall>>

\* The callback of chat_client::send.
OnDelta(text) == <<AppendText(text), MarkDirty, RenderCall>>

Delta(shape) ==
  /\ Ready("reply") /\ MayGive(<<shape>>)
  /\ todo' = OnDelta(Numbered(shape, given))
  /\ given' = given + Letters(shape) /\ UNCHANGED <<phase, input>> /\ Keep

TurnFails(shape) ==
  /\ Ready("reply") /\ MayGive(<<shape>>)
  /\ todo' = <<Push("error", Numbered(shape, given)), MarkDirty, SetStatus("error")>> \o Redraw
  /\ given' = given + Letters(shape) /\ input' = 0 /\ phase' = "idle" /\ Keep

TurnEnds ==
  /\ Ready("reply") /\ todo' = <<SetStatus("ready")>> \o Redraw
  /\ input' = 0 /\ phase' = "idle" /\ UNCHANGED given /\ Keep

\* The picker and the settings paint over the whole display.
OpenView ==
  /\ Ready("idle") /\ phase' = "view" /\ painted' = Other("view")
  /\ UNCHANGED <<ringVars, todo, input, active, given, boots, status, label, shownInput, dirty>>

CloseView ==
  /\ Ready("view") /\ phase' = "idle" /\ todo' = <<MarkDirty>> \o Redraw
  /\ UNCHANGED <<input, given>> /\ Keep

\* open_picker after a choice.
Pick(id, shape) ==
  /\ Ready("view") /\ MayGive(<<shape>>) /\ phase' = "idle" /\ active' = id
  /\ todo' = <<SetLabel, Push("system", Numbered(shape, given)), MarkDirty>> \o Redraw
  /\ given' = given + Letters(shape)
  /\ UNCHANGED <<ringVars, viewVars, input, boots>>

Calling ==
  PushLine \/ AppendToLast \/ Mark \/ ShowStatus \/ ShowLabel \/ ShowInput \/ Render

Handling ==
  \/ PowerOn \/ PowerOff
  \/ ReconnectWifi \/ RestartTunnel \/ Heartbeat \/ Type \/ Backspace
  \/ TurnEnds \/ OpenView \/ CloseView
  \/ \E shape \in Texts :
       \/ \E s \in {"wifi", "wg"} : SetupFails(s, shape)
       \/ SetupDone(shape) \/ Delta(shape) \/ TurnFails(shape)
       \/ \E id \in Profiles : Pick(id, shape)
       \/ \E prompt \in Texts : Send(shape, prompt)

Next == Calling \/ Handling

Spec == Init /\ [][Next]_vars

\* A handler that has begun goes on to its end.
FairSpec == Spec /\ WF_vars(Calling)

----------------------------------------------------------------------------
(* Scrollback and its slots show a window on the chat: the newest lines,   *)
(* in order, each only growing while it is the last (scrollback.h: "0 =    *)
(* oldest still-present line"; the slots wrap around).                     *)
View == INSTANCE LineWindow WITH window <- Window

ImplementsWindow == View!WindowSpec

LettersIn(text) == Range(text) \ {Space}
LettersOf(texts) == UNION {LettersIn(texts[k]) : k \in DOMAIN texts}

\* The letters of a text ascend.
Ascending(text) ==
  \A i, j \in 1..Len(text) :
    i < j /\ Space \notin {text[i], text[j]} => text[i] < text[j]

\* So they do in every text, and from each text to all that come after it.
InOrder(texts) ==
  \A k \in DOMAIN texts :
    /\ Ascending(texts[k])
    /\ \A l \in DOMAIN texts : k < l =>
         \A m \in LettersIn(texts[k]), n \in LettersIn(texts[l]) : m < n

Shown   == [i \in 1..size |-> Window[i].text]
Waiting == [i \in 1..Len(todo) |-> todo[i].text]

(* Breaking lines and overflowing from one into the next loses, repeats    *)
(* and reorders nothing but spaces: each letter given stands once in what  *)
(* is shown and what waits, in the order given; only what is older than    *)
(* all of that may be missing, and only when the ring is full.             *)
LettersInOrder ==
  LET present == LettersOf(Shown) \cup LettersOf(Waiting) IN
  /\ InOrder(Shown) /\ InOrder(Waiting)
  /\ \A m \in LettersOf(Shown), n \in LettersOf(Waiting) : m < n
  /\ present \subseteq 1..given
  /\ \A n \in (1..given) \ present : size = Capacity /\ \A m \in present : n < m

(* Between two handlers the display is what the program believes: the      *)
(* input line and the profile of main.cpp, and the newest lines, at any    *)
(* point of a reply that streams and after a view that covered it.         *)
ScreenCurrent ==
  phase \in {"idle", "reply"} /\ todo = << >> =>
    painted = [status |-> status, label |-> active, input |-> input, lines |-> LastLines]

(* push comes to its end: every line takes at least one character.         *)
HandlerReturns == (todo # << >>) ~> (todo = << >>)
=============================================================================
