------------------------------- MODULE Console -------------------------------
(***************************************************************************)
(* Who reads the keys: loop() with its input line, and the three views     *)
(* that take the task over until they are closed (the picker, the          *)
(* settings, the prompt of the factory reset).  A view reads what the one  *)
(* before it left in the keyboard's queues.                                *)
(*                                                                         *)
(* Sending a message is DeviceChat, repairing the tunnel Supervisor; here  *)
(* both are the place where the task comes back to the keyboard.           *)
(***************************************************************************)
EXTENDS Keyboard, ProfileList, SequencesExt

CONSTANTS
  Ids,         \* profile ids
  Default,     \* s_proxy.default_profile_id
  Catalogs,    \* lists GET /v1/profiles may answer with
  ConfirmWord, \* "RESET"
  MaxInput,    \* characters of the input line (76)
  MaxTyped,    \* characters of the prompt (10)
  MaxChanges,  \* bound: changes of the keyboard
  MaxBoots     \* bound: starts of the device

ASSUME ProfileAssumption ==
  NoId \notin Ids /\ Default \in Ids /\ Catalogs \subseteq Seq(Ids)
ASSUME InputAssumption ==
  /\ MaxInput \in Nat \ {0} /\ MaxTyped \in Nat /\ ConfirmWord \in Seq(Characters)
  /\ MaxChanges \in Nat /\ MaxBoots \in Nat

Open  == {"chat", "picker", "settings", "prompt"}
Views == Open \cup {"off", "restart"}

VARIABLES
  view,      \* whose loop polls the keyboard
  input,     \* s_input
  cursor,    \* the marked row of the picker or of the settings
  typed,     \* what the prompt has
  profiles,  \* s_profiles
  active,    \* s_active_profile
  stored,    \* NVS: profile_id
  entered,   \* history: Enter was pressed since the prompt was drawn
  changes, boots

uiVars == <<view, input, cursor, typed, profiles, active, stored>>
vars   == <<kbVars, uiVars, entered, changes, boots>>

TypeOK ==
  /\ KeyboardTypeOK
  /\ view \in Views
  /\ input \in Seq(Printable) /\ Len(input) <= MaxInput
  /\ typed \in Seq(Printable) /\ Len(typed) <= MaxTyped
  /\ profiles \in Seq(Ids) /\ active \in Ids /\ stored \in Ids \cup {NoId}
  /\ cursor \in Nat
  /\ view = "picker" => cursor < Len(profiles)
  /\ view \in {"settings", "prompt"} => cursor \in 0..2
  /\ entered \in BOOLEAN /\ changes \in 0..MaxChanges /\ boots \in 0..MaxBoots

Init ==
  /\ KeyboardInit
  /\ view = "off" /\ input = << >> /\ cursor = 0 /\ typed = << >>
  /\ profiles = << >> /\ active = Default /\ stored = NoId
  /\ entered = FALSE /\ changes = 0 /\ boots = 0

----------------------------------------------------------------------------
(* Boot, and the end of it                                                 *)

\* if (pr.ok) s_profiles = pr.profiles
Fetch ==
  \E list \in Catalogs : \E result \in Results(list) :
    profiles' = IF result.ok THEN result.list ELSE profiles

Boot ==
  /\ view = "off" /\ boots < MaxBoots /\ boots' = boots + 1
  /\ active' = IF stored = NoId THEN Default ELSE stored
  /\ Fetch
  /\ view' = "chat"
  /\ UNCHANGED <<kbVars, input, cursor, typed, stored, entered, changes>>

\* The RAM is lost: by a power loss at any time, or by ESP.restart.
PowerOff ==
  /\ view # "off" /\ view' = "off"
  /\ KeyboardReset
  /\ input' = << >> /\ cursor' = 0 /\ typed' = << >> /\ profiles' = << >>
  /\ active' = Default /\ entered' = FALSE
  /\ UNCHANGED <<stored, changes, boots>>

Restart == view = "restart" /\ PowerOff

----------------------------------------------------------------------------
(* What each view does with a key                                          *)

\* Mutant: the row below the last can be marked.
MovedPast(rows) ==
  CASE NextKey \in {"down", "j", "J"} /\ cursor < rows -> cursor + 1
    [] NextKey \in {"up", "k", "K"} /\ cursor > 0 -> cursor - 1
    [] OTHER -> cursor

Moved(rows) ==
  CASE NextKey \in {"down", "j", "J"} /\ cursor + 1 < rows -> cursor + 1
    [] NextKey \in {"up", "k", "K"} /\ cursor > 0 -> cursor - 1
    [] OTHER -> cursor

RowOf(list, id) ==
  LET rows == {i \in 1..Len(list) : list[i] = id} IN
  IF rows = {} THEN 0 ELSE (CHOOSE i \in rows : \A j \in rows : i <= j) - 1

\* open_picker; picker_view::run of an empty list returns at once.
OpenPicker ==
  /\ Fetch
  /\ IF profiles' = << >>
       THEN UNCHANGED <<view, cursor>>
       ELSE view' = "picker" /\ cursor' = RowOf(profiles', active)
  /\ UNCHANGED <<input, typed, active, stored>>

OpenSettings ==
  /\ view' = "settings" /\ cursor' = 0
  /\ UNCHANGED <<input, typed, profiles, active, stored>>

\* send_current_input, Backspace, and the characters in between.
Edit ==
  /\ input' = CASE NextKey = "enter" -> << >>
                [] NextKey = "backspace" /\ input # << >> -> Front(input)
                [] NextKey \in Printable /\ Len(input) < MaxInput -> Append(input, NextKey)
                [] OTHER -> input
  /\ UNCHANGED <<view, cursor, typed, profiles, active, stored>>

ChatKey ==
  CASE NextKey = "settings" -> OpenSettings
    [] NextKey = "p" /\ input = << >> -> OpenPicker
    [] OTHER -> Edit

Close == view' = "chat" /\ UNCHANGED <<input, cursor, typed, profiles, active, stored>>

Choose ==
  /\ active' = profiles[cursor + 1] /\ stored' = active'
  /\ view' = "chat" /\ UNCHANGED <<input, cursor, typed, profiles>>

MoveIn(rows) == cursor' = Moved(rows) /\ UNCHANGED <<view, input, typed, profiles, active, stored>>

PickerKey ==
  CASE NextKey = "escape" -> Close
    [] NextKey = "enter" -> Choose
    [] OTHER -> MoveIn(Len(profiles))

\* Reconnecting is Supervisor's; the view is closed either way.
SettingsKey ==
  CASE NextKey \in {"escape", "s", "S"} -> Close
    [] NextKey = "enter" /\ cursor # 1 -> Close
    [] NextKey = "enter" /\ cursor = 1 ->
         /\ view' = "prompt" /\ typed' = << >>
         /\ UNCHANGED <<input, cursor, profiles, active, stored>>
    [] OTHER -> MoveIn(3)

LeavePrompt == view' = "settings" /\ UNCHANGED <<input, cursor, typed, profiles, active, stored>>

\* open_settings after a confirmed prompt: wipe_all, profile_id, restart.
FactoryReset ==
  /\ view' = "restart" /\ stored' = NoId
  /\ UNCHANGED <<input, cursor, typed, profiles, active>>

\* Mutant: the word alone is enough, and it may be left over from another view.
PromptEditEager ==
  LET next == IF NextKey \in Printable THEN Append(typed, NextKey) ELSE typed IN
  IF next = ConfirmWord THEN FactoryReset
  ELSE typed' = << >> /\ UNCHANGED <<view, input, cursor, profiles, active, stored>>

PromptEdit ==
  /\ typed' = CASE NextKey = "backspace" /\ typed # << >> -> Front(typed)
                [] NextKey \in Printable /\ Len(typed) < MaxTyped -> Append(typed, NextKey)
                [] OTHER -> typed
  /\ UNCHANGED <<view, input, cursor, profiles, active, stored>>

PromptKey ==
  CASE NextKey = "escape" -> LeavePrompt
    [] NextKey = "enter" -> IF typed = ConfirmWord THEN FactoryReset ELSE LeavePrompt
    [] OTHER -> PromptEdit

HandleKey ==
  \/ NextKey = NoKey /\ UNCHANGED uiVars
  \/ /\ NextKey # NoKey
     /\ \/ view = "chat"     /\ ChatKey
        \/ view = "picker"   /\ PickerKey
        \/ view = "settings" /\ SettingsKey
        \/ view = "prompt"   /\ PromptKey

----------------------------------------------------------------------------
(* The task                                                                *)

Look ==
  /\ view \in Open /\ LookNoChange
  /\ UNCHANGED <<uiVars, entered, changes, boots>>

Press(state) ==
  /\ view \in Open /\ changes < MaxChanges /\ changes' = changes + 1
  /\ LookChange(state)
  /\ entered' = (entered \/ "enter" \in state.flags)
  /\ UNCHANGED <<uiVars, boots>>

SortKey ==
  /\ view \in Open /\ Sort
  /\ UNCHANGED <<uiVars, entered, changes, boots>>

ServeKey ==
  /\ view \in Open /\ Serve /\ HandleKey
  /\ entered' = (entered /\ ~(view # "prompt" /\ view' = "prompt"))
  /\ UNCHANGED <<changes, boots>>

\* Mutant: the 30 s start again at every pass of the loop.
PickerKeptOpen ==
  /\ view = "picker" /\ ~polling /\ NextKey = NoKey
  /\ UNCHANGED vars

\* The picker closes after 30 s without a key.
PickerTimeout ==
  /\ view = "picker" /\ ~polling /\ NextKey = NoKey
  /\ Close
  /\ UNCHANGED <<kbVars, entered, changes, boots>>

Next ==
  \/ Boot \/ PowerOff
  \/ Look \/ (\E state \in KeyStates : Press(state)) \/ SortKey \/ ServeKey
  \/ PickerTimeout

Spec == Init /\ [][Next]_vars

\* The task runs while there is power, and 30 s pass.
Fairness ==
  /\ WF_vars(Look \/ SortKey \/ ServeKey \/ Restart)
  /\ SF_vars(PickerTimeout)

FairSpec == Spec /\ Fairness

----------------------------------------------------------------------------
(* "Wrapped in keyboard_input::poll() with a small FIFO" (M3 report, 37):  *)
(* the rings, flags and the word being sorted are two bounded queues that  *)
(* keep the order of the keys and drop only what does not fit.             *)
Fifo == INSTANCE KeyFifo WITH
  Keys <- Printable \cup Codes \cup Flags \cup {NoKey},
  FlagKeys <- Flags, CodeKeys <- Codes, CharKeys <- Printable,
  CodeRoom <- SpecialsSize - 1, CharRoom <- QueueSize - 1,
  offered <- [i \in 1..Len(word) |-> Meaning(fn, word[i])],
  flags <- pending,
  codes <- Contents(SpecialsSize, specials),
  chars <- Contents(QueueSize, queue)

ImplementsFifo == Fifo!FifoSpec

(* A factory reset is never the work of keys left over from another view:  *)
(* the prompt has the word, and Enter was pressed since it was drawn.      *)
ResetByHand ==
  [][ view = "prompt" /\ view' = "restart" => entered ]_vars

(* The picker is offered a list the proxy has sent, and never the part of  *)
(* one that arrived before the connection ended.                           *)
ListIsWhole == profiles # << >> => profiles \in Catalogs

(* The device is not lost in the picker: once the keys are left alone, it  *)
(* closes by itself, whatever keys still wait for it.                      *)
PickerCloses == (view = "picker") ~> (view # "picker")
=============================================================================
