---------------------------- MODULE Provisioning ----------------------------
(***************************************************************************)
(* From an SD card to a running device: the provisioning fork of setup(),  *)
(* provisioning::run, sd_bundle, nvs_config, and the factory reset of the  *)
(* settings.  Power may be lost between any two writes to the flash or the *)
(* card, and the user moves cards at will.                                 *)
(*                                                                         *)
(* A card carries one bundle (the output of "peer add") and is named by    *)
(* it; a key of the NVS holds the name of the bundle its value is from.    *)
(***************************************************************************)
EXTENDS Integers, Sequences

CONSTANTS
  Bundles,     \* bundles, each on a card of its own
  Broken,      \* those that do not parse
  None,        \* no bundle, no card, key not set
  Fragile,     \* keys whose putString may fail
  Failures,    \* "sd": mounting the card and removing a file may fail
  MaxOutages,  \* bound: power losses while the device works
  MaxResets    \* bound: factory resets

ASSUME BundleAssumption == None \notin Bundles /\ Broken \subseteq Bundles
ASSUME BoundAssumption == MaxOutages \in Nat /\ MaxResets \in Nat

Files == {"wg.conf", "proxy.json"}

\* The keys in the order provisioning::run puts them: write_wg, write_proxy,
\* write_device.
Keys == <<"priv", "peer_pub", "ep_host", "ep_port", "addr", "netmask", "allowed",
          "host", "port", "bearer", "def_prof",
          "dev_id", "prov_at">>
LastKey == 13

Namespace(first, last) == {Keys[i] : i \in first..last}
KeySet == Namespace(1, LastKey)

ASSUME FailureAssumption == Failures \subseteq {"sd"} /\ Fragile \subseteq KeySet

\* wipe_all: m5wifi, m5wg, m5proxy, m5dev; then profile_store.
Cleared == << {"ssid"}, Namespace(1, 7), Namespace(8, 11), Namespace(12, 13), {"profile_id"} >>

VARIABLES
  wifi,     \* NVS: m5wifi has an ssid
  nvs,      \* NVS: the keys of m5wg, m5proxy and m5dev
  picked,   \* NVS: cprox has a profile_id
  files,    \* files[b]: what is on the card of bundle b
  slot,     \* the card in the slot
  build,    \* "production", or "dev" (DEV_USE_HEADER_SECRETS)
  pc,       \* where the task is
  next,     \* the next key to put, or namespace to clear
  bundle,   \* the bundle being committed
  outages, resets

flash == <<wifi, nvs, picked>>
card  == <<files, slot>>
ram   == <<pc, next, bundle>>
vars  == <<flash, card, build, ram, outages, resets>>

Halts == {"failed", "noconfig"}

TypeOK ==
  /\ wifi \in BOOLEAN /\ picked \in BOOLEAN
  /\ nvs \in [KeySet -> Bundles \cup {None}]
  /\ files \in [Bundles -> SUBSET Files] /\ slot \in Bundles \cup {None}
  /\ build \in {"production", "dev"}
  /\ pc \in {"boot", "read", "write", "wipewg", "wipeproxy", "committed", "up", "reset"} \cup Halts
  /\ next \in 0..LastKey /\ bundle \in Bundles \cup {None}
  /\ pc = "write" => next \in 1..LastKey /\ bundle \in Bundles
  /\ pc = "reset" => next \in 1..Len(Cleared)
  /\ outages \in 0..MaxOutages /\ resets \in 0..MaxResets

Init ==
  /\ wifi \in BOOLEAN /\ nvs = [k \in KeySet |-> None] /\ picked = FALSE
  /\ files = [b \in Bundles |-> Files] /\ slot = None
  /\ build \in {"production", "dev"}
  /\ pc = "boot" /\ next = 0 /\ bundle = None
  /\ outages = 0 /\ resets = 0

----------------------------------------------------------------------------
(* nvs_config                                                              *)

Has(keys) == \A k \in keys : nvs[k] # None

Provisioned ==
  /\ wifi
  /\ Has({"priv", "peer_pub", "addr"})
  /\ Has({"host", "bearer"})
  /\ Has({"dev_id"})

----------------------------------------------------------------------------
(* setup()                                                                 *)

\* load_config_from_nvs, or the header secrets of the dev build.
Load == pc' = IF Provisioned \/ build = "dev" THEN "up" ELSE "noconfig"

SetupFork ==
  /\ pc = "boot"
  /\ IF build = "production" /\ ~Provisioned THEN pc' = "read" ELSE Load
  /\ UNCHANGED <<flash, card, build, next, bundle, outages, resets>>

\* What a mounted card shows.
OnCard == IF slot = None THEN {} ELSE files[slot]

\* Mutant: the keys are counted from 0.
ReadBundleFromZero ==
  /\ pc = "read"
  /\ \/ /\ OnCard = Files /\ slot \notin Broken
        /\ pc' = "write" /\ next' = 0 /\ bundle' = slot
     \/ Load /\ UNCHANGED <<next, bundle>>
  /\ UNCHANGED <<flash, card, build, outages, resets>>

\* Mutant: a bundle that does not parse is wiped as well.
ReadBundleWipesBroken ==
  /\ pc = "read"
  /\ \/ /\ OnCard = Files
        /\ pc' = IF slot \in Broken THEN "wipewg" ELSE "write"
        /\ next' = 1 /\ bundle' = slot
     \/ Load /\ UNCHANGED <<next, bundle>>
  /\ UNCHANGED <<flash, card, build, outages, resets>>

(***************************************************************************)
(* try_read: no card or neither file is no bundle, and setup() goes on; a  *)
(* file missing or not parsing, or the card pulled between the two files,  *)
(* fails.                                                                  *)
(***************************************************************************)
ReadBundle ==
  /\ pc = "read"
  /\ \/ /\ OnCard = {} \/ "sd" \in Failures
        /\ Load /\ UNCHANGED <<slot, next, bundle>>
     \/ /\ OnCard # {} /\ (OnCard # Files \/ slot \in Broken)
        /\ pc' = "failed" /\ UNCHANGED <<slot, next, bundle>>
     \/ /\ "wg.conf" \in OnCard
        /\ slot' = None /\ pc' = "failed" /\ UNCHANGED <<next, bundle>>
     \/ /\ OnCard = Files /\ slot \notin Broken
        /\ pc' = "write" /\ next' = 1 /\ bundle' = slot /\ UNCHANGED slot
  /\ UNCHANGED <<flash, files, build, outages, resets>>

----------------------------------------------------------------------------
(* provisioning::run: write_wg, write_proxy, write_device, wipe            *)

\* Mutant: the device's own namespace is left for later.
WriteStopsEarly ==
  /\ pc = "write"
  /\ nvs' = [nvs EXCEPT ![Keys[next]] = bundle]
  /\ IF next = LastKey - 2 THEN pc' = "wipewg" /\ UNCHANGED next
                           ELSE next' = next + 1 /\ UNCHANGED pc
  /\ UNCHANGED <<wifi, picked, card, build, bundle, outages, resets>>

\* The result of putString is not looked at.
WriteKey ==
  /\ pc = "write"
  /\ \/ nvs' = [nvs EXCEPT ![Keys[next]] = bundle]
     \/ Keys[next] \in Fragile /\ UNCHANGED nvs
  /\ IF next < LastKey THEN next' = next + 1 /\ UNCHANGED pc
                       ELSE pc' = "wipewg" /\ UNCHANGED next
  /\ UNCHANGED <<wifi, picked, card, build, bundle, outages, resets>>

\* SD.remove by path, on whatever card is in the slot; no card has no file.
Remove(file) ==
  \/ slot # None /\ files' = [files EXCEPT ![slot] = @ \ {file}]
  \/ slot = None /\ UNCHANGED files
  \/ "sd" \in Failures /\ UNCHANGED files

WipeFile ==
  /\ \/ pc = "wipewg" /\ Remove("wg.conf") /\ pc' = "wipeproxy"
     \/ pc = "wipeproxy" /\ Remove("proxy.json") /\ pc' = "committed"
  /\ UNCHANGED <<flash, slot, build, next, bundle, outages, resets>>

Boot == pc' = "boot" /\ next' = 0 /\ bundle' = None

Restart ==
  /\ pc = "committed" /\ Boot
  /\ UNCHANGED <<flash, card, build, outages, resets>>

----------------------------------------------------------------------------
(* A running device                                                        *)

\* open_picker
Pick ==
  /\ pc = "up" /\ picked' = TRUE
  /\ UNCHANGED <<wifi, nvs, card, build, ram, outages, resets>>

FactoryReset ==
  /\ pc = "up" /\ resets < MaxResets
  /\ pc' = "reset" /\ next' = 1 /\ resets' = resets + 1
  /\ UNCHANGED <<flash, card, build, bundle, outages>>

\* Mutant: the reset keeps the Wi-Fi.
ClearKeepsWifi ==
  /\ pc = "reset"
  /\ nvs' = [k \in KeySet |-> IF k \in Cleared[next] THEN None ELSE nvs[k]]
  /\ picked' = (picked /\ "profile_id" \notin Cleared[next])
  /\ IF next < Len(Cleared) THEN next' = next + 1 /\ UNCHANGED <<pc, bundle>> ELSE Boot
  /\ UNCHANGED <<wifi, card, build, outages, resets>>

\* wipe_all one namespace after the other, then cprox, then the restart.
Clear ==
  /\ pc = "reset"
  /\ wifi' = (wifi /\ "ssid" \notin Cleared[next])
  /\ nvs' = [k \in KeySet |-> IF k \in Cleared[next] THEN None ELSE nvs[k]]
  /\ picked' = (picked /\ "profile_id" \notin Cleared[next])
  /\ IF next < Len(Cleared) THEN next' = next + 1 /\ UNCHANGED <<pc, bundle>> ELSE Boot
  /\ UNCHANGED <<card, build, outages, resets>>

----------------------------------------------------------------------------
(* The user and the power                                                  *)

Insert(b) ==
  /\ slot = None /\ slot' = b
  /\ UNCHANGED <<flash, files, build, ram, outages, resets>>

Eject ==
  /\ slot # None /\ slot' = None
  /\ UNCHANGED <<flash, files, build, ram, outages, resets>>

\* Switched off and on, and perhaps flashed with the other build.
PowerCycle ==
  /\ pc \in Halts \cup {"up"}
  /\ Boot /\ build' \in {"production", "dev"}
  /\ UNCHANGED <<flash, card, outages, resets>>

PowerLoss ==
  /\ pc \notin Halts \cup {"up"} /\ outages < MaxOutages
  /\ Boot /\ outages' = outages + 1
  /\ UNCHANGED <<flash, card, build, resets>>

Task == SetupFork \/ ReadBundle \/ WriteKey \/ WipeFile \/ Restart \/ Clear

User == Pick \/ FactoryReset \/ (\E b \in Bundles : Insert(b)) \/ Eject \/ PowerCycle

Next == Task \/ User \/ PowerLoss

Spec == Init /\ [][Next]_vars

\* The device's one task runs on while it has power.
FairSpec == Spec /\ WF_vars(Task)

----------------------------------------------------------------------------
\* What a device runs with; what prov_at holds is used by nothing.
Settings == KeySet \ {"prov_at"}

(* "write all four namespaces first; only then delete the SD files" (M5    *)
(* plan): a file leaves a card only when the NVS has the whole bundle that *)
(* is being committed, and never for one that does not parse.  A card that *)
(* stayed in the slot thus loses nothing the device has not got.           *)
KeptBeforeWiped ==
  [][ files' # files =>
        bundle \in Bundles \ Broken /\ \A k \in Settings : nvs[k] = bundle ]_vars

(* A committed bundle is what the device comes up with, when it already    *)
(* has its Wi-Fi: power losses on the way included.                        *)
CommittedComesUp == (pc = "committed" /\ wifi) ~> (pc = "up")

(* "Atomic commit" (M5 plan): as is_provisioned sees it, the device takes  *)
(* on whole bundles in one step, never one that does not parse, whatever   *)
(* is cut off and swapped halfway.                                         *)
Enrol == INSTANCE Enrolment WITH
           Fields <- Settings, Sources <- Bundles \ Broken, Unset <- None,
           settings <- [k \in Settings |-> IF Provisioned THEN nvs[k] ELSE None]

ImplementsEnrolment == Enrol!EnrolSpec

(* A device with an empty NVS commits its bundle, restarts and comes up    *)
(* from the NVS (M5 plan, task 9; M5 report, step 6).                      *)
FreshComesUp == (pc = "committed") ~> (pc = "up")
=============================================================================
