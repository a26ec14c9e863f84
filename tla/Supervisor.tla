----------------------------- MODULE Supervisor -----------------------------
(***************************************************************************)
(* The firmware's one task keeping the device online: setup() brings up    *)
(* Wi-Fi, the clock and the tunnel once, and loop() repairs what broke     *)
(* between the user's keys.  Around it: the Wi-Fi, the network path to the *)
(* WireGuard server, SNTP, and the server, which refuses a handshake that  *)
(* is not newer than the last one it accepted.                             *)
(***************************************************************************)
EXTENDS WgLink

CONSTANTS
  Polls,       \* bound: looks a wait takes before its deadline
  Reconnects   \* bound: "reconnect WG" presses in the settings

ASSUME PollAssumption == Polls \in Nat \ {0}
ASSUME ReconnectAssumption == Reconnects \in Nat

VARIABLES
  pc,        \* where the task is (see Places)
  polls,     \* looks left before the current wait's deadline
  status,    \* chat_view's status
  wifi,      \* wifi_sta::is_up
  reach,     \* the path to the WireGuard server works
  sntp,      \* "off", "asked" (configTime called), "synced"
  accepted,  \* newest handshake timestamp the server has: see Handshake
  presses    \* reconnects the user has asked for

taskVars == <<pc, polls, status, presses>>
envVars  == <<wifi, reach, sntp, accepted>>
vars     == <<linkVars, taskVars, envVars>>

Places == {"wifi", "ntp", "start", "handshake", "fetch",  \* setup()
           "loop", "rewifi", "rehandshake", "tail",       \* loop()
           "menu", "restart", "restarting"}               \* picker, settings

TypeOK ==
  /\ LinkTypeOK
  /\ pc \in Places /\ polls \in 0..Polls
  /\ status \in {"wifi", "wg", "ready", "error"}
  /\ wifi \in BOOLEAN /\ reach \in BOOLEAN
  /\ sntp \in {"off", "asked", "synced"}
  /\ accepted \in {"none", "early", "late"}
  /\ presses \in 0..Reconnects

Boot ==
  /\ initialized' = FALSE /\ connected' = FALSE /\ default_set' = FALSE
  /\ inits' = 0 /\ armed' = FALSE /\ peer' = "down" /\ route' = "wifi"
  /\ pc' = "wifi" /\ status' = "wifi" /\ sntp' = "off" /\ polls' = Polls

Init ==
  /\ LinkInit
  /\ pc = "wifi" /\ status = "wifi" /\ sntp = "off" /\ polls = Polls
  /\ wifi \in BOOLEAN /\ reach \in BOOLEAN
  /\ accepted = "none" /\ presses = 0

----------------------------------------------------------------------------
(* Waits.  A wait polls until millis() reaches its deadline.  Once the     *)
(* device has been up long enough (49 days) the deadline may have wrapped, *)
(* and then the wait is over at once; setup() runs too early for that.     *)

FirstWait == polls' = Polls

BeginWait == polls' \in {0, Polls}

\* Mutant: the wait looks once more after its deadline.
LookAgainLate == polls >= 0 /\ polls' = polls - 1 /\ UNCHANGED <<pc, status, presses, linkVars, envVars>>

LookAgain == polls > 0 /\ polls' = polls - 1 /\ UNCHANGED <<pc, status, presses, linkVars, envVars>>

----------------------------------------------------------------------------
(* setup()                                                                 *)

SetupWifi ==
  /\ pc = "wifi"
  /\ \/ /\ wifi
        /\ pc' = "ntp" /\ sntp' = "asked" /\ FirstWait
        /\ UNCHANGED <<linkVars, status, presses, wifi, reach, accepted>>
     \/ /\ ~wifi /\ polls = 0
        /\ pc' = "loop" /\ status' = "error"
        /\ UNCHANGED <<linkVars, polls, presses, envVars>>
     \/ ~wifi /\ LookAgain

SetupNtp ==
  /\ pc = "ntp"
  /\ \/ /\ sntp = "synced" \/ polls = 0
        /\ pc' = "start" /\ status' = "wg"
        /\ UNCHANGED <<linkVars, polls, presses, envVars>>
     \/ sntp # "synced" /\ LookAgain

SetupStart ==
  /\ pc = "start"
  /\ \/ Start /\ pc' = "handshake" /\ FirstWait /\ UNCHANGED status
     \/ StartFails /\ pc' = "loop" /\ status' = "error" /\ UNCHANGED polls
  /\ UNCHANGED <<presses, envVars>>

\* The profile catalog has been fetched over the tunnel, or not.
SetupFetch ==
  /\ pc = "fetch"
  /\ pc' = "loop" /\ status' = "ready"
  /\ UNCHANGED <<linkVars, polls, presses, envVars>>

----------------------------------------------------------------------------
(* The wait inside wg_link::start, called from setup(), from loop() and    *)
(* from the settings.  setup() looks at the result; loop() shows "ready"   *)
(* whatever it is; the settings show nothing.                              *)

AfterWait(came) ==
  CASE pc = "handshake"   -> /\ pc' = IF came THEN "fetch" ELSE "loop"
                             /\ status' = IF came THEN status ELSE "error"
    [] pc = "rehandshake" -> pc' = "tail" /\ status' = "ready"
    [] pc = "restarting"  -> pc' = "loop" /\ UNCHANGED status

AwaitHandshake ==
  /\ pc \in {"handshake", "rehandshake", "restarting"}
  /\ \/ /\ polls > 0 /\ peer = "up"
        /\ TakeRoute /\ AfterWait(TRUE)
        /\ UNCHANGED <<polls, presses, envVars>>
     \/ /\ polls = 0
        /\ AfterWait(FALSE)
        /\ UNCHANGED <<linkVars, polls, presses, envVars>>
     \/ peer # "up" /\ LookAgain

----------------------------------------------------------------------------
(* loop()                                                                  *)

\* Mutant: the tunnel is left alone while the Wi-Fi reconnects.
LoopNoWifiKeepsTunnel ==
  /\ pc = "loop" /\ ~wifi
  /\ status' = "wifi" /\ UNCHANGED linkVars
  /\ pc' = "rewifi" /\ BeginWait
  /\ UNCHANGED <<presses, envVars>>

LoopNoWifi ==
  /\ pc = "loop" /\ ~wifi
  /\ status' = "wifi" /\ Stop
  /\ pc' = "rewifi" /\ BeginWait
  /\ UNCHANGED <<presses, envVars>>

\* wifi_sta::connect from loop(); its result is not looked at.
Rewifi ==
  /\ pc = "rewifi"
  /\ \/ /\ wifi \/ polls = 0
        /\ pc' = "tail"
        /\ UNCHANGED <<linkVars, polls, status, presses, envVars>>
     \/ ~wifi /\ LookAgain

LoopNoPeer ==
  /\ pc = "loop" /\ wifi /\ ~IsUp
  /\ \/ Start /\ pc' = "rehandshake" /\ status' = "wg" /\ BeginWait
     \/ StartFails /\ pc' = "tail" /\ status' = "ready" /\ UNCHANGED polls
  /\ UNCHANGED <<presses, envVars>>

LoopUp ==
  /\ pc = "loop" /\ wifi /\ IsUp
  /\ pc' = "tail"
  /\ UNCHANGED <<linkVars, polls, status, presses, envVars>>

\* The heartbeat every 5 s says "ready" whatever the link does; then one key,
\* which may open the picker or the settings.
Tail ==
  /\ pc = "tail"
  /\ status' \in {status, "ready"}
  /\ pc' \in {"loop", "menu"}
  /\ UNCHANGED <<linkVars, polls, presses, envVars>>

\* The user leaves the picker or the settings.
CloseMenu ==
  /\ pc = "menu"
  /\ pc' = "loop"
  /\ UNCHANGED <<linkVars, polls, status, presses, envVars>>

\* The user asks the settings to reconnect: stop(), then start().
Reconnect ==
  /\ pc = "menu" /\ presses < Reconnects
  /\ pc' = "restart" /\ presses' = presses + 1
  /\ Stop
  /\ UNCHANGED <<polls, status, envVars>>

ReconnectStart ==
  /\ pc = "restart"
  /\ \/ Start /\ pc' = "restarting" /\ BeginWait
     \/ StartFails /\ pc' = "loop" /\ UNCHANGED polls
  /\ UNCHANGED <<status, presses, envVars>>

TaskStep ==
  \/ SetupWifi \/ SetupNtp \/ SetupStart \/ SetupFetch
  \/ AwaitHandshake \/ ReconnectStart
  \/ LoopNoWifi \/ Rewifi \/ LoopNoPeer \/ LoopUp \/ Tail

----------------------------------------------------------------------------
(* The world around the task.                                              *)

WifiChanges ==
  /\ wifi' = ~wifi
  /\ UNCHANGED <<linkVars, taskVars, reach, sntp, accepted>>

PathChanges ==
  /\ reach' = ~reach
  /\ UNCHANGED <<linkVars, taskVars, wifi, sntp, accepted>>

SntpSyncs ==
  /\ sntp = "asked" /\ wifi
  /\ sntp' = "synced"
  /\ UNCHANGED <<linkVars, taskVars, wifi, reach, accepted>>

(***************************************************************************)
(* The library shakes hands with the server.  A clock that was never set   *)
(* gives an "early" timestamp, newer than another early one only if this   *)
(* boot has lasted longer; a synced clock gives one newer than all before. *)
(***************************************************************************)
Handshake ==
  /\ armed /\ peer = "down" /\ wifi /\ reach
  /\ sntp = "synced" \/ accepted # "late"
  /\ peer' = "up"
  /\ accepted' = IF sntp = "synced" THEN "late" ELSE "early"
  /\ UNCHANGED <<initialized, connected, default_set, inits, armed, route>>
  /\ UNCHANGED <<taskVars, wifi, reach, sntp>>

\* The session's keys expire when nothing gets through.
PeerExpires ==
  /\ peer = "up" /\ ~(wifi /\ reach)
  /\ peer' = "down"
  /\ UNCHANGED <<initialized, connected, default_set, inits, armed, route>>
  /\ UNCHANGED <<taskVars, envVars>>

\* Power cycle, or the restart after a factory reset.
Reboot ==
  /\ Boot
  /\ UNCHANGED <<presses, wifi, reach, accepted>>

World == WifiChanges \/ PathChanges \/ SntpSyncs \/ Handshake \/ PeerExpires \/ Reboot

Next == TaskStep \/ CloseMenu \/ Reconnect \/ World

Spec == Init /\ [][Next]_vars

(***************************************************************************)
(* The task runs on, a user closes what was opened, and the library's      *)
(* timer keeps trying, so a handshake the server would accept happens; a   *)
(* call of the library that is tried again and again succeeds.             *)
(***************************************************************************)
Fairness ==
  /\ WF_vars(TaskStep) /\ WF_vars(CloseMenu)
  /\ WF_vars(Handshake /\ sntp = "synced")
  /\ SF_vars(LoopNoPeer /\ pc' = "rehandshake")

FairSpec == Spec /\ Fairness

----------------------------------------------------------------------------
(* The wrapper's flags say what the library is doing: it is initialised    *)
(* at most once a boot, the default route is the tunnel exactly when       *)
(* s_default_set, and the tunnel holds the route only while connected.     *)
FlagsMirror ==
  /\ inits = IF initialized THEN 1 ELSE 0
  /\ connected <=> armed
  /\ default_set <=> route = "wg"
  /\ default_set => connected
  /\ connected => initialized
  /\ peer = "up" => armed

(* A default route into a tunnel whose Wi-Fi is gone is taken back, unless *)
(* the Wi-Fi returns first (wg_link::stop "on Wi-Fi loss", main.cpp loop). *)
StaleRouteCleared == (~wifi /\ route = "wg") ~> (wifi \/ route = "wifi")

(* The supervisor recovers from a Wi-Fi or tunnel drop without manual      *)
(* intervention: once Wi-Fi, path and clock stay good, the tunnel is up    *)
(* for good.                                                               *)
TunnelRecovers ==
  <>[](wifi /\ reach /\ sntp = "synced") => <>[]IsUp

(* The configuration asks for a full tunnel (main.cpp build_wg_cfg;        *)
(* wg_link.h: "everything via WG"): a tunnel that stays up becomes the     *)
(* default route.                                                          *)
UpMeansFullTunnel == <>[](IsUp /\ wifi /\ reach) => <>[](route = "wg")
=============================================================================
