-------------------------- MODULE SupervisorProofs --------------------------
(***************************************************************************)
(* The supervisor keeps its types, and wg_link's flags mirror the library, *)
(* whatever fails but the restoring of the default route, whose result     *)
(* wg_link::stop does not look at.                                         *)
(***************************************************************************)
EXTENDS Supervisor, TLAPS

LEMMA TypeInit == Init => TypeOK
<1> SUFFICES ASSUME Init PROVE TypeOK
  OBVIOUS
<1>1. LinkTypeOK
  BY DEF Init, LinkInit, LinkTypeOK
<1>2. polls \in 0..Polls /\ presses \in 0..Reconnects
  BY PollAssumption, ReconnectAssumption DEF Init
<1> QED
  BY <1>1, <1>2 DEF Init, TypeOK, Places

(* The waits keep the looks that are left between 0 and Polls.             *)
LEMMA WaitTypes ==
  ASSUME polls \in 0..Polls, FirstWait \/ BeginWait \/ LookAgain \/ UNCHANGED polls
  PROVE  polls' \in 0..Polls
BY PollAssumption DEF FirstWait, BeginWait, LookAgain

(* stop() keeps the types, whether its two calls succeed or fail.          *)
LEMMA StopTypes == LinkTypeOK /\ Stop => LinkTypeOK'
<1> SUFFICES ASSUME LinkTypeOK, Stop PROVE LinkTypeOK'
  OBVIOUS
<1>1. UNCHANGED <<initialized, inits>> /\ connected' \in BOOLEAN /\ default_set' \in BOOLEAN
  BY Zenon DEF LinkTypeOK, Stop
<1>2. armed' = FALSE \/ armed' = armed
  BY Zenon DEF Stop
<1>3. armed' \in BOOLEAN
  BY <1>2, Zenon DEF LinkTypeOK
<1>4. peer' = peer \/ peer' = "down"
  BY Zenon DEF Stop
<1>5. route' = route \/ route' = "wifi"
  BY Zenon DEF Stop
<1> QED
  BY <1>1, <1>3, <1>4, <1>5 DEF LinkTypeOK

(* So does every call of the wrapper.                                      *)
LEMMA CallTypes ==
  ASSUME LinkTypeOK, Start \/ StartFails \/ TakeRoute \/ Stop \/ UNCHANGED linkVars
  PROVE  LinkTypeOK'
<1>1. CASE Start \/ StartFails \/ TakeRoute \/ UNCHANGED linkVars
  <2>1. inits' \in Nat
    BY <1>1 DEF LinkTypeOK, Start, StartFails, TakeRoute, linkVars
  <2>2. /\ initialized' \in BOOLEAN /\ connected' \in BOOLEAN
        /\ default_set' \in BOOLEAN /\ armed' \in BOOLEAN
    BY <1>1 DEF LinkTypeOK, Start, StartFails, TakeRoute, linkVars
  <2>3. peer' \in {"up", "down"} /\ route' \in {"wifi", "wg"}
    BY <1>1 DEF LinkTypeOK, Start, StartFails, TakeRoute, linkVars
  <2> QED
    BY <2>1, <2>2, <2>3 DEF LinkTypeOK
<1>2. CASE Stop
  BY <1>2, StopTypes
<1> QED
  BY <1>1, <1>2

(* What a step does to the link, to the looks left and to the rest.        *)
LEMMA LinkStepTypes == TypeOK /\ [Next]_vars => LinkTypeOK'
<1> SUFFICES ASSUME TypeOK, [Next]_vars PROVE LinkTypeOK'
  OBVIOUS
<1>a. LinkTypeOK
  BY DEF TypeOK
<1>1. CASE TaskStep
  BY <1>1, <1>a, CallTypes
     DEF TaskStep, SetupWifi, SetupNtp, SetupStart, SetupFetch, AwaitHandshake,
         ReconnectStart, LoopNoWifi, Rewifi, LoopNoPeer, LoopUp, Tail, LookAgain
<1>2. CASE CloseMenu \/ Reconnect
  BY <1>2, <1>a, CallTypes DEF CloseMenu, Reconnect
<1>3. CASE WifiChanges \/ PathChanges \/ SntpSyncs \/ UNCHANGED vars
  BY <1>3, <1>a, CallTypes DEF WifiChanges, PathChanges, SntpSyncs, vars
<1>4. CASE Handshake
  BY <1>4, <1>a DEF Handshake, LinkTypeOK
<1>5. CASE PeerExpires
  BY <1>5, <1>a DEF PeerExpires, LinkTypeOK
<1>6. CASE Reboot
  BY <1>6 DEF Reboot, Boot, LinkTypeOK
<1> QED
  BY <1>1, <1>2, <1>3, <1>4, <1>5, <1>6 DEF Next, World

LEMMA PollStepTypes == TypeOK /\ [Next]_vars => polls' \in 0..Polls
<1> SUFFICES ASSUME TypeOK, [Next]_vars PROVE polls' \in 0..Polls
  OBVIOUS
<1>a. polls \in 0..Polls
  BY DEF TypeOK
<1>b. FirstWait \/ BeginWait \/ LookAgain \/ UNCHANGED polls
  <2>1. CASE TaskStep
    BY <2>1 DEF TaskStep, SetupWifi, SetupNtp, SetupStart, SetupFetch, AwaitHandshake,
       ReconnectStart, LoopNoWifi, Rewifi, LoopNoPeer, LoopUp, Tail
  <2>2. CASE CloseMenu \/ Reconnect \/ UNCHANGED vars
    BY <2>2 DEF CloseMenu, Reconnect, vars, taskVars
  <2>3. CASE World
    BY <2>3 DEF World, WifiChanges, PathChanges, SntpSyncs, Handshake, PeerExpires,
       Reboot, Boot, FirstWait, taskVars
  <2> QED
    BY <2>1, <2>2, <2>3 DEF Next
<1> QED
  BY <1>a, <1>b, WaitTypes

LEMMA PressStepTypes == TypeOK /\ [Next]_vars => presses' \in 0..Reconnects
<1> SUFFICES ASSUME TypeOK, [Next]_vars PROVE presses' \in 0..Reconnects
  OBVIOUS
<1>1. CASE Reconnect
  BY <1>1, ReconnectAssumption DEF Reconnect, TypeOK
<1>2. CASE UNCHANGED presses
  BY <1>2 DEF TypeOK
<1>3. CASE TaskStep
  BY <1>3, <1>2 DEF TaskStep, SetupWifi, SetupNtp, SetupStart, SetupFetch, AwaitHandshake,
     ReconnectStart, LoopNoWifi, Rewifi, LoopNoPeer, LoopUp, Tail, LookAgain
<1>4. CASE CloseMenu \/ World \/ UNCHANGED vars
  BY <1>4, <1>2 DEF CloseMenu, World, WifiChanges, PathChanges, SntpSyncs, Handshake,
     PeerExpires, Reboot, Boot, vars, taskVars
<1> QED
  BY <1>1, <1>3, <1>4 DEF Next

PlainTypes ==
  /\ pc \in Places
  /\ status \in {"wifi", "wg", "ready", "error"}
  /\ wifi \in BOOLEAN /\ reach \in BOOLEAN
  /\ sntp \in {"off", "asked", "synced"}
  /\ accepted \in {"none", "early", "late"}

LEMMA PlainStepTypes == PlainTypes /\ [Next]_vars => PlainTypes'
<1> SUFFICES ASSUME PlainTypes, [Next]_vars PROVE PlainTypes'
  OBVIOUS
<1> USE DEF PlainTypes, Places
<1>1. CASE SetupWifi \/ SetupNtp \/ SetupStart \/ SetupFetch
  BY <1>1 DEF SetupWifi, SetupNtp, SetupStart, SetupFetch, LookAgain, envVars
<1>2. CASE AwaitHandshake
  BY <1>2 DEF AwaitHandshake, AfterWait, LookAgain, envVars
<1>3. CASE ReconnectStart \/ LoopNoWifi \/ Rewifi \/ LoopNoPeer \/ LoopUp \/ Tail
  BY <1>3 DEF ReconnectStart, LoopNoWifi, Rewifi, LoopNoPeer, LoopUp, Tail, LookAgain, envVars
<1>4. CASE CloseMenu \/ Reconnect \/ UNCHANGED vars
  BY <1>4 DEF CloseMenu, Reconnect, vars, taskVars, envVars
<1>5. CASE World
  BY <1>5 DEF World, WifiChanges, PathChanges, SntpSyncs, Handshake, PeerExpires,
     Reboot, Boot, taskVars, envVars
<1> QED
  BY <1>1, <1>2, <1>3, <1>4, <1>5 DEF Next, TaskStep

LEMMA TypeStep == TypeOK /\ [Next]_vars => TypeOK'
<1> SUFFICES ASSUME TypeOK, [Next]_vars PROVE TypeOK'
  OBVIOUS
<1>1. PlainTypes'
  BY PlainStepTypes DEF TypeOK, PlainTypes
<1> QED
  BY <1>1, LinkStepTypes, PollStepTypes, PressStepTypes DEF TypeOK, PlainTypes

(* Every variable of the supervisor keeps its type (main.cpp setup and     *)
(* loop, wg_link.cpp), whatever library call fails.                        *)
THEOREM LinkTypeCorrect == Spec => []TypeOK
<1>1. Init => TypeOK
  BY TypeInit
<1>2. TypeOK /\ [Next]_vars => TypeOK'
  BY TypeStep
<1> QED
  BY <1>1, <1>2, PTL DEF Spec

----------------------------------------------------------------------------
(* The wrapper's calls preserve the mirror.  They are stated of the link's *)
(* own variables, for every caller.                                        *)

LEMMA StartMirrors == LinkTypeOK /\ FlagsMirror /\ (Start \/ StartFails) => FlagsMirror'
BY DEF LinkTypeOK, FlagsMirror, Start, StartFails, linkVars

LEMMA StopMirrors ==
  ASSUME {"restore", "disconnect"} \cap Failures = {}, LinkTypeOK, FlagsMirror, Stop
  PROVE  FlagsMirror'
BY DEF LinkTypeOK, FlagsMirror, Stop

LEMMA RouteMirrors == LinkTypeOK /\ FlagsMirror /\ peer = "up" /\ TakeRoute => FlagsMirror'
BY DEF LinkTypeOK, FlagsMirror, TakeRoute

LEMMA MirrorUntouched == FlagsMirror /\ UNCHANGED linkVars => FlagsMirror'
BY DEF FlagsMirror, linkVars

LEMMA MirrorStep ==
  ASSUME {"restore", "disconnect"} \cap Failures = {}, TypeOK, FlagsMirror, [Next]_vars
  PROVE  FlagsMirror'
<1>a. LinkTypeOK
  BY DEF TypeOK
<1>1. CASE SetupStart \/ ReconnectStart \/ LoopNoPeer
  BY <1>1, <1>a, StartMirrors DEF SetupStart, ReconnectStart, LoopNoPeer
<1>2. CASE LoopNoWifi \/ Reconnect
  BY <1>2, <1>a, StopMirrors DEF LoopNoWifi, Reconnect
<1>3. CASE AwaitHandshake
  BY <1>3, <1>a, RouteMirrors, MirrorUntouched DEF AwaitHandshake, LookAgain
<1>4. CASE Handshake
  BY <1>4 DEF Handshake, FlagsMirror
<1>5. CASE PeerExpires
  BY <1>5 DEF PeerExpires, FlagsMirror
<1>6. CASE Reboot
  BY <1>6 DEF Reboot, Boot, FlagsMirror
<1>7. CASE UNCHANGED linkVars
  BY <1>7, MirrorUntouched
<1>8. SetupWifi \/ SetupNtp \/ SetupFetch \/ Rewifi \/ LoopUp \/ Tail \/ CloseMenu
        \/ WifiChanges \/ PathChanges \/ SntpSyncs \/ UNCHANGED vars
      => UNCHANGED linkVars
  BY DEF SetupWifi, SetupNtp, SetupFetch, Rewifi, LoopUp, Tail, CloseMenu,
         WifiChanges, PathChanges, SntpSyncs, LookAgain, vars
<1> QED
  BY <1>1, <1>2, <1>3, <1>4, <1>5, <1>6, <1>7, <1>8 DEF Next, TaskStep, World

(* The flags of wg_link.cpp say what the library is doing: one init per    *)
(* boot, the default route in the tunnel exactly when s_default_set, and   *)
(* only while connected; given that the two calls of stop(), whose results *)
(* it does not look at, succeed.                                           *)
THEOREM FlagsAlwaysMirror ==
  ASSUME {"restore", "disconnect"} \cap Failures = {}
  PROVE  Spec => []FlagsMirror
<1>1. Init => FlagsMirror
  BY DEF Init, LinkInit, FlagsMirror
<1>2. TypeOK /\ FlagsMirror /\ [Next]_vars => FlagsMirror'
  BY MirrorStep
<1> QED
  BY <1>1, <1>2, LinkTypeCorrect, PTL DEF Spec
=============================================================================
