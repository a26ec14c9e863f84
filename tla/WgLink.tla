------------------------------- MODULE WgLink -------------------------------
(***************************************************************************)
(* wg_link.cpp: the device's wrapper around the WireGuard library.  The    *)
(* wrapper keeps three flags of what it has asked the library to do; the   *)
(* library keeps the tunnel.  The library's calls may fail, and what it    *)
(* does then is what the wrapper's comments expect of it.                  *)
(***************************************************************************)
EXTENDS Naturals

CONSTANT
  Failures    \* the library calls that may fail

(* "cidr" stands for a configured CIDR that does not parse, and "init" for *)
(* a configuration that does not fit its buffers as well: start() treats   *)
(* both like a failed call.                                                *)
LibraryCalls == {"init", "connect", "cidr", "default", "restore", "disconnect"}

ASSUME FailureAssumption == Failures \subseteq LibraryCalls

VARIABLES
  initialized,  \* s_initialized
  connected,    \* s_connected
  default_set,  \* s_default_set
  inits,        \* library: successful esp_wireguard_init calls this boot
  armed,        \* library: connected, its handshake timer is running
  peer,         \* library: esp_wireguard_peer_is_up, "up" or "down"
  route         \* the default route, "wifi" or "wg"

linkVars == <<initialized, connected, default_set, inits, armed, peer, route>>

LinkTypeOK ==
  /\ initialized \in BOOLEAN /\ connected \in BOOLEAN /\ default_set \in BOOLEAN
  /\ inits \in Nat /\ armed \in BOOLEAN
  /\ peer \in {"up", "down"} /\ route \in {"wifi", "wg"}

LinkInit ==
  /\ initialized = FALSE /\ connected = FALSE /\ default_set = FALSE
  /\ inits = 0 /\ armed = FALSE /\ peer = "down" /\ route = "wifi"

IsUp == initialized /\ peer = "up"

----------------------------------------------------------------------------
(* start(), up to its wait for the handshake.                              *)

\* Mutant: a second start() takes the tunnel to be running already.
StartOnce ==
  /\ initialized' = TRUE
  /\ inits' = IF initialized THEN inits ELSE inits + 1
  /\ IF initialized THEN UNCHANGED <<connected, armed>> ELSE connected' = TRUE /\ armed' = TRUE
  /\ UNCHANGED <<default_set, peer, route>>

\* Init once, connect every time; the handshake is still to come.
Start ==
  /\ initialized' = TRUE
  /\ inits' = IF initialized THEN inits ELSE inits + 1
  /\ connected' = TRUE /\ armed' = TRUE
  /\ UNCHANGED <<default_set, peer, route>>

\* Mutant: s_connected is set before the call that may fail.
StartFailsConnected ==
  \/ ~initialized /\ "init" \in Failures /\ UNCHANGED linkVars
  \/ /\ "connect" \in Failures
     /\ initialized' = TRUE /\ connected' = TRUE
     /\ inits' = IF initialized THEN inits ELSE inits + 1
     /\ UNCHANGED <<default_set, armed, peer, route>>

\* The first init fails, or connect does, or what follows connect:
\* start() returns false at once.
StartFails ==
  \/ /\ ~initialized /\ "init" \in Failures
     /\ UNCHANGED linkVars
  \/ /\ "connect" \in Failures
     /\ initialized' = TRUE
     /\ inits' = IF initialized THEN inits ELSE inits + 1
     /\ UNCHANGED <<connected, default_set, armed, peer, route>>
  \/ "cidr" \in Failures /\ Start

(***************************************************************************)
(* The end of start()'s wait: the peer is up, and the default route moves  *)
(* to the tunnel unless it is there already.                               *)
(***************************************************************************)
TakeRoute ==
  /\ \/ default_set /\ UNCHANGED <<default_set, route>>
     \/ ~default_set /\ default_set' = TRUE /\ route' = "wg"
     \/ ~default_set /\ "default" \in Failures /\ UNCHANGED <<default_set, route>>
  /\ UNCHANGED <<initialized, connected, inits, armed, peer>>

\* stop(): give the route back, disconnect, keep the netif.  Neither result
\* is looked at.
Stop ==
  /\ IF connected
       THEN /\ default_set' = FALSE
            /\ route' \in IF default_set /\ "restore" \notin Failures THEN {"wifi"}
                          ELSE {route} \cup (IF default_set THEN {"wifi"} ELSE {})
            /\ connected' = FALSE
            /\ armed' \in {FALSE} \cup (IF "disconnect" \in Failures THEN {armed} ELSE {})
            /\ peer' = IF armed' THEN peer ELSE "down"
       ELSE UNCHANGED <<connected, default_set, armed, peer, route>>
  /\ UNCHANGED <<initialized, inits>>
=============================================================================
