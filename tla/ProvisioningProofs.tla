------------------------- MODULE ProvisioningProofs -------------------------
(***************************************************************************)
(* Provisioning for every set of bundles, however often the power is lost, *)
(* the device is reset and cards are exchanged, and whichever puts fail;   *)
(* taking a bundle on whole, and losing none of it with its card, need     *)
(* puts that succeed (Sturdy).                                             *)
(***************************************************************************)
EXTENDS Provisioning, TLAPS

----------------------------------------------------------------------------
(* The order of the keys: dev_id is the last one is_provisioned looks at.  *)
LEMMA KeyFacts ==
  /\ \A i \in 1..LastKey : Keys[i] \in KeySet
  /\ \A k \in KeySet : \E i \in 1..LastKey : k = Keys[i]
  /\ Keys[LastKey - 1] = "dev_id" /\ Keys[LastKey] = "prov_at"
  /\ \A i \in 1..(LastKey - 1) : Keys[i] # "prov_at"
  /\ \A i \in 1..(LastKey - 2) : Keys[i] # "dev_id"
<1>1. KeySet = {Keys[i] : i \in 1..LastKey}
  BY DEF KeySet, Namespace
<1>2. /\ Keys[LastKey - 1] = "dev_id" /\ Keys[LastKey] = "prov_at"
      /\ \A i \in 1..(LastKey - 1) : Keys[i] # "prov_at"
      /\ \A i \in 1..(LastKey - 2) : Keys[i] # "dev_id"
  BY DEF Keys, LastKey
<1> QED
  BY <1>1, <1>2

LEMMA SettingFacts ==
  /\ Settings \subseteq KeySet
  /\ {"priv", "peer_pub", "addr", "host", "bearer", "dev_id"} \subseteq Settings
  /\ \A k \in Settings : \E i \in 1..(LastKey - 1) : k = Keys[i]
<1>1. {"priv", "peer_pub", "addr", "host", "bearer", "dev_id"} \subseteq KeySet
  <2>1. /\ Keys[1] = "priv" /\ Keys[2] = "peer_pub" /\ Keys[5] = "addr"
        /\ Keys[8] = "host" /\ Keys[10] = "bearer" /\ Keys[12] = "dev_id"
    BY DEF Keys
  <2> QED
    BY <2>1, KeyFacts DEF LastKey
<1>2. ASSUME NEW k \in Settings
      PROVE  \E i \in 1..(LastKey - 1) : k = Keys[i]
  <2>1. PICK i \in 1..LastKey : k = Keys[i]
    BY KeyFacts DEF Settings
  <2>2. i # LastKey
    BY <2>1, KeyFacts DEF Settings
  <2> QED
    BY <2>1, <2>2 DEF LastKey
<1> QED
  BY <1>1, <1>2 DEF Settings

(* wipe_all and profile_store: five namespaces, the Wi-Fi first.           *)
LEMMA ClearedFacts == Len(Cleared) = 5 /\ Cleared[1] = {"ssid"}
BY DEF Cleared

----------------------------------------------------------------------------
(* Type correctness.                                                       *)

LEMMA TypeInit == Init => TypeOK
<1> SUFFICES ASSUME Init PROVE TypeOK
  OBVIOUS
<1>1. nvs \in [KeySet -> Bundles \cup {None}] /\ files \in [Bundles -> SUBSET Files]
  BY DEF Init
<1>2. outages \in 0..MaxOutages /\ resets \in 0..MaxResets /\ next \in 0..LastKey
  BY BoundAssumption DEF Init, LastKey
<1> QED
  BY <1>1, <1>2 DEF Init, TypeOK, Halts

LEMMA TaskTypes == TypeOK /\ Task => TypeOK'
<1> SUFFICES ASSUME TypeOK, Task PROVE TypeOK'
  OBVIOUS
<1>1. CASE SetupFork
  BY <1>1 DEF TypeOK, SetupFork, Load, Halts, flash, card
<1>2. CASE ReadBundle
  <2>1. pc' = "write" => next' \in 1..LastKey /\ bundle' \in Bundles
    BY <1>2 DEF TypeOK, ReadBundle, Load, OnCard, Files, LastKey, Halts
  <2>2. /\ next' \in 0..LastKey /\ bundle' \in Bundles \cup {None}
        /\ slot' \in Bundles \cup {None}
    BY <1>2 DEF TypeOK, ReadBundle, Load, OnCard, Files, LastKey
  <2>3. pc' \in {"write", "failed", "up", "noconfig"}
    BY <1>2 DEF ReadBundle, Load
  <2> QED
    BY <1>2, <2>1, <2>2, <2>3 DEF TypeOK, ReadBundle, flash, Halts
<1>3. CASE WriteKey
  <2>1. next \in 1..LastKey /\ bundle \in Bundles
    BY <1>3 DEF TypeOK, WriteKey
  <2>2. nvs' \in [KeySet -> Bundles \cup {None}]
    BY <1>3, <2>1, KeyFacts DEF TypeOK, WriteKey
  <2>3. next' \in 1..LastKey /\ pc' \in {"write", "wipewg"} /\ bundle' = bundle
    BY <1>3, <2>1 DEF WriteKey, LastKey
  <2> QED
    BY <1>3, <2>1, <2>2, <2>3 DEF TypeOK, WriteKey, card, LastKey, Halts
<1>4. CASE WipeFile
  <2>1. files' \in [Bundles -> SUBSET Files]
    BY <1>4 DEF TypeOK, WipeFile, Remove
  <2> QED
    BY <1>4, <2>1 DEF TypeOK, WipeFile, flash, Halts
<1>5. CASE Restart
  BY <1>5 DEF TypeOK, Restart, Boot, flash, card, LastKey, Halts
<1>6. CASE Clear
  <2>1. next \in 1..5
    BY <1>6, ClearedFacts DEF TypeOK, Clear
  <2>2. nvs' \in [KeySet -> Bundles \cup {None}]
    BY <1>6 DEF TypeOK, Clear
  <2>3. wifi' \in BOOLEAN /\ picked' \in BOOLEAN
    BY <1>6 DEF TypeOK, Clear
  <2>4. /\ pc' \in {"reset", "boot"} /\ next' \in 0..LastKey /\ bundle' \in Bundles \cup {None}
        /\ pc' = "reset" => next' \in 1..Len(Cleared)
    BY <1>6, <2>1, ClearedFacts DEF TypeOK, Clear, Boot, LastKey
  <2> QED
    BY <1>6, <2>2, <2>3, <2>4 DEF TypeOK, Clear, card, Halts
<1> QED
  BY <1>1, <1>2, <1>3, <1>4, <1>5, <1>6 DEF Task

LEMMA UserTypes == TypeOK /\ (User \/ PowerLoss \/ UNCHANGED vars) => TypeOK'
<1> SUFFICES ASSUME TypeOK, User \/ PowerLoss \/ UNCHANGED vars PROVE TypeOK'
  OBVIOUS
<1>1. CASE Pick
  BY <1>1 DEF TypeOK, Pick, card, ram
<1>2. CASE FactoryReset
  BY <1>2, BoundAssumption, ClearedFacts DEF TypeOK, FactoryReset, flash, card, LastKey, Halts
<1>3. CASE \E b \in Bundles : Insert(b)
  BY <1>3 DEF TypeOK, Insert, flash, ram
<1>4. CASE Eject
  BY <1>4 DEF TypeOK, Eject, flash, ram
<1>5. CASE PowerCycle
  BY <1>5 DEF TypeOK, PowerCycle, Boot, flash, card, LastKey, Halts
<1>6. CASE PowerLoss
  BY <1>6, BoundAssumption DEF TypeOK, PowerLoss, Boot, flash, card, LastKey, Halts
<1>7. CASE UNCHANGED vars
  BY <1>7 DEF TypeOK, vars, flash, card, ram
<1> QED
  BY <1>1, <1>2, <1>3, <1>4, <1>5, <1>6, <1>7 DEF User

LEMMA TypeStep == TypeOK /\ [Next]_vars => TypeOK'
BY TaskTypes, UserTypes DEF Next

(* Every variable keeps its type, whatever fails.                          *)
THEOREM ProvisioningTypeCorrect == Spec => []TypeOK
BY TypeInit, TypeStep, PTL DEF Spec

----------------------------------------------------------------------------
(* A file leaves a card only when the NVS has what was put of the bundle,  *)
(* and a bundle that does not parse is never put.                          *)

Written(n) == \A i \in 1..n : Keys[i] \notin Fragile => nvs[Keys[i]] = bundle

WipeInv ==
  /\ pc = "write" => Written(next - 1)
  /\ pc \in {"wipewg", "wipeproxy"} => Written(LastKey)
  /\ pc \in {"write", "wipewg", "wipeproxy"} => bundle \in Bundles \ Broken

LEMMA WriteAdds ==
  ASSUME TypeOK, WipeInv, WriteKey
  PROVE  \A i \in 1..next : Keys[i] \notin Fragile => nvs'[Keys[i]] = bundle
<1>1. next \in 1..LastKey /\ bundle \in Bundles /\ nvs \in [KeySet -> Bundles \cup {None}]
  BY DEF TypeOK, WriteKey
<1>2. \/ nvs' = [nvs EXCEPT ![Keys[next]] = bundle]
      \/ Keys[next] \in Fragile /\ nvs' = nvs
  BY DEF WriteKey
<1>3. Written(next - 1)
  BY DEF WriteKey, WipeInv
<1>4. ASSUME NEW i \in 1..next, Keys[i] \notin Fragile
      PROVE  nvs'[Keys[i]] = bundle
  <2>1. i \in 1..LastKey
    BY <1>1 DEF LastKey
  <2>2. Keys[i] \in KeySet
    BY <2>1, KeyFacts
  <2>3. i = next \/ i \in 1..(next - 1)
    BY <1>1 DEF LastKey
  <2>4. i = next \/ nvs[Keys[i]] = bundle
    BY <1>3, <1>4, <2>3 DEF Written
  <2> QED
    BY <1>1, <1>2, <1>4, <2>2, <2>4
<1> QED
  BY <1>4

LEMMA WipeStep == TypeOK /\ WipeInv /\ [Next]_vars => WipeInv'
<1> SUFFICES ASSUME TypeOK, WipeInv, [Next]_vars PROVE WipeInv'
  OBVIOUS
<1>1. CASE WriteKey
  <2>1. next \in 1..LastKey /\ bundle' = bundle /\ bundle \in Bundles \ Broken
    BY <1>1 DEF TypeOK, WriteKey, WipeInv
  <2>2. \/ pc' = "write" /\ next' = next + 1
        \/ pc' = "wipewg" /\ next = LastKey
    BY <1>1, <2>1 DEF WriteKey, LastKey
  <2>3. \A i \in 1..next : Keys[i] \notin Fragile => nvs'[Keys[i]] = bundle
    BY <1>1, WriteAdds
  <2>4. CASE pc' = "write" /\ next' = next + 1
    <3>1. next' - 1 = next
      BY <2>1, <2>4 DEF LastKey
    <3> QED
      BY <2>1, <2>3, <2>4, <3>1 DEF WipeInv, Written
  <2>5. CASE pc' = "wipewg" /\ next = LastKey
    BY <2>1, <2>3, <2>5 DEF WipeInv, Written
  <2> QED
    BY <2>2, <2>4, <2>5
<1>2. CASE ReadBundle
  <2>1. pc' = "write" => next' = 1 /\ bundle' \in Bundles \ Broken
    BY <1>2 DEF ReadBundle, Load, OnCard, TypeOK, Files
  <2>2. pc' \notin {"wipewg", "wipeproxy"}
    BY <1>2 DEF ReadBundle, Load
  <2> QED
    BY <2>1, <2>2 DEF WipeInv, Written
<1>3. CASE WipeFile
  BY <1>3 DEF WipeFile, WipeInv, Written, flash
<1>4. CASE SetupFork \/ Restart \/ Clear \/ FactoryReset \/ PowerCycle \/ PowerLoss
  <2>1. pc' \notin {"write", "wipewg", "wipeproxy"}
    BY <1>4 DEF SetupFork, Load, Restart, Clear, FactoryReset, PowerCycle, PowerLoss, Boot
  <2> QED
    BY <2>1 DEF WipeInv
<1>5. CASE Pick \/ (\E b \in Bundles : Insert(b)) \/ Eject \/ UNCHANGED vars
  <2>1. UNCHANGED <<nvs, pc, next, bundle>>
    BY <1>5 DEF Pick, Insert, Eject, vars, flash, ram
  <2> QED
    BY <2>1 DEF WipeInv, Written
<1> QED
  BY <1>1, <1>2, <1>3, <1>4, <1>5 DEF Next, Task, User

LEMMA WipeAlways == Spec => [](TypeOK /\ WipeInv)
<1>1. Init => WipeInv
  BY DEF Init, WipeInv
<1> QED
  BY <1>1, TypeInit, TypeStep, WipeStep, PTL DEF Spec

\* Only the time stamp's put may fail.
Sturdy == Fragile \cap Settings = {}

LEMMA WipeWhole ==
  ASSUME Sturdy
  PROVE  TypeOK /\ WipeInv /\ [Next]_vars
           => (files' # files =>
                 bundle \in Bundles \ Broken /\ \A k \in Settings : nvs[k] = bundle)
<1> SUFFICES ASSUME TypeOK, WipeInv, [Next]_vars, files' # files
             PROVE  bundle \in Bundles \ Broken /\ \A k \in Settings : nvs[k] = bundle
  OBVIOUS
<1>1. WipeFile
  BY DEF Next, Task, User, SetupFork, ReadBundle, WriteKey, Restart, Clear, Pick, FactoryReset,
         Insert, Eject, PowerCycle, PowerLoss, vars, card
<1>2. pc \in {"wipewg", "wipeproxy"}
  BY <1>1 DEF WipeFile
<1>3. ASSUME NEW k \in Settings PROVE nvs[k] = bundle
  <2>1. PICK i \in 1..(LastKey - 1) : k = Keys[i]
    BY SettingFacts
  <2>2. i \in 1..LastKey
    BY DEF LastKey
  <2>3. Keys[i] \notin Fragile
    BY <2>1 DEF Sturdy
  <2> QED
    BY <1>2, <2>1, <2>2, <2>3 DEF WipeInv, Written
<1> QED
  BY <1>2, <1>3 DEF WipeInv

(* Whatever card is in the slot, a file is removed only when all of the    *)
(* bundle being committed is in the NVS, and never for one that does not   *)
(* parse, however often the power is lost and cards are exchanged.         *)
THEOREM KeptUntilWhole == ASSUME Sturdy PROVE Spec => KeptBeforeWiped
<1>1. (TypeOK /\ WipeInv) /\ [Next]_vars
        => [files' # files =>
              bundle \in Bundles \ Broken /\ \A k \in Settings : nvs[k] = bundle]_vars
  BY WipeWhole
<1> QED
  BY <1>1, WipeAlways, PTL DEF Spec, KeptBeforeWiped

----------------------------------------------------------------------------
(* The inductive invariant.  A Wi-Fi setting is never written, and a reset *)
(* clears it first: while there is one, no key has been cleared, so dev_id *)
(* is set only after all the keys before it were put from one bundle.      *)

DeviceLast == wifi => nvs["dev_id"] = None \/ \A k \in Settings : nvs[k] = nvs["dev_id"]

CommitInv ==
  /\ DeviceLast
  /\ pc = "read" => ~Provisioned
  /\ pc = "write" /\ wifi /\ next < LastKey => nvs["dev_id"] = None
  /\ pc = "reset" /\ next # 1 => ~wifi

(* As long as there is Wi-Fi, being provisioned is having dev_id.          *)
LEMMA ProvisionedIsLast ==
  ASSUME TypeOK, DeviceLast, wifi
  PROVE  Provisioned <=> nvs["dev_id"] # None
<1>1. ASSUME nvs["dev_id"] # None
      PROVE  Provisioned
  <2>1. \A k \in Settings : nvs[k] # None
    BY <1>1 DEF DeviceLast
  <2> QED
    BY <2>1, SettingFacts DEF Provisioned, Has
<1>2. Provisioned => nvs["dev_id"] # None
  BY DEF Provisioned, Has
<1> QED
  BY <1>1, <1>2

LEMMA CommitInit == Init => CommitInv
BY SettingFacts DEF Init, CommitInv, DeviceLast

(* The flash stays as it is.                                               *)
LEMMA FlashKept ==
  ASSUME CommitInv, UNCHANGED <<wifi, nvs>>
  PROVE  DeviceLast' /\ (Provisioned' <=> Provisioned)
BY DEF CommitInv, DeviceLast, Provisioned, Has

LEMMA BootCommits ==
  ASSUME CommitInv, UNCHANGED <<wifi, nvs>>, pc' \notin {"read", "write", "wipewg", "wipeproxy", "reset"}
  PROVE  CommitInv'
BY FlashKept DEF CommitInv

LEMMA WriteCommits ==
  ASSUME Sturdy, TypeOK, WipeInv, CommitInv, WriteKey
  PROVE  /\ CommitInv'
         /\ next < LastKey - 1 => ~Provisioned'
         /\ next < LastKey => ~Provisioned
         /\ next >= LastKey - 1 => \A k \in Settings : nvs'[k] = bundle
<1>1. next \in 1..LastKey /\ bundle \in Bundles /\ nvs \in [KeySet -> Bundles \cup {None}]
  BY DEF TypeOK, WriteKey
<1>2. /\ nvs' \in {[nvs EXCEPT ![Keys[next]] = bundle], nvs}
      /\ UNCHANGED <<wifi, bundle>>
  BY DEF WriteKey
<1>3. next < LastKey => ~Provisioned /\ (wifi => nvs["dev_id"] = None)
  BY DEF WriteKey, CommitInv, Provisioned, Has
<1>4. CASE next < LastKey - 1
  <2>1. Keys[next] # "dev_id" /\ Keys[next] \in KeySet
    BY <1>1, <1>4, KeyFacts DEF LastKey
  <2>2. wifi => nvs'["dev_id"] = None
    BY <1>1, <1>2, <1>3, <1>4, <2>1, SettingFacts DEF LastKey
  <2>3. ~Provisioned'
    BY <1>2, <2>2 DEF Provisioned, Has
  <2>4. pc' = "write"
    BY <1>1, <1>4 DEF WriteKey, LastKey
  <2>5. CommitInv'
    BY <1>2, <2>2, <2>4 DEF CommitInv, DeviceLast
  <2> QED
    BY <1>1, <1>3, <1>4, <2>3, <2>5 DEF LastKey
<1>5. CASE next >= LastKey - 1
  <2>1. \A k \in Settings : nvs'[k] = bundle
    <3> TAKE k \in Settings
    <3>1. PICK i \in 1..(LastKey - 1) : k = Keys[i]
      BY SettingFacts
    <3>2. i \in 1..next
      BY <1>1, <1>5 DEF LastKey
    <3> QED
      BY <3>1, <3>2, WriteAdds DEF Sturdy
  <2>2. DeviceLast'
    BY <2>1, SettingFacts DEF DeviceLast
  <2>3. pc' = "wipewg" \/ (pc' = "write" /\ next' = LastKey)
    BY <1>1, <1>5 DEF WriteKey, LastKey
  <2>4. CommitInv'
    BY <2>2, <2>3 DEF CommitInv, LastKey
  <2> QED
    BY <1>1, <1>3, <1>5, <2>1, <2>4 DEF LastKey
<1> QED
  BY <1>1, <1>4, <1>5 DEF LastKey

LEMMA ClearCommits ==
  ASSUME TypeOK, CommitInv, Clear
  PROVE  CommitInv' /\ ~Provisioned'
<1>1. next \in 1..5
  BY ClearedFacts DEF TypeOK, Clear
<1>2. ~wifi'
  BY ClearedFacts DEF Clear, CommitInv
<1>3. pc' \in {"reset", "boot"}
  BY DEF Clear, Boot
<1> QED
  BY <1>2, <1>3 DEF CommitInv, DeviceLast, Provisioned

(* The reading of a bundle starts a commit on a device that has none.      *)
LEMMA ReadCommits ==
  ASSUME TypeOK, CommitInv, ReadBundle
  PROVE  CommitInv' /\ UNCHANGED <<wifi, nvs>>
<1>1. UNCHANGED <<wifi, nvs>> /\ ~Provisioned
  BY DEF ReadBundle, CommitInv, flash
<1>2. CASE pc' = "write"
  <2>1. wifi => nvs["dev_id"] = None
    BY <1>1, ProvisionedIsLast DEF CommitInv
  <2> QED
    BY <1>1, <1>2, <2>1, FlashKept DEF CommitInv
<1>3. CASE pc' # "write"
  BY <1>1, <1>3, BootCommits DEF ReadBundle, Load
<1> QED
  BY <1>1, <1>2, <1>3

LEMMA CommitStep ==
  ASSUME Sturdy
  PROVE  TypeOK /\ WipeInv /\ CommitInv /\ [Next]_vars => CommitInv'
<1> SUFFICES ASSUME TypeOK, WipeInv, CommitInv, [Next]_vars PROVE CommitInv'
  OBVIOUS
<1>1. CASE SetupFork
  BY <1>1, FlashKept DEF SetupFork, Load, CommitInv, flash
<1>2. CASE ReadBundle
  BY <1>2, ReadCommits
<1>3. CASE WriteKey
  BY <1>3, WriteCommits
<1>4. CASE WipeFile
  BY <1>4, FlashKept DEF WipeFile, CommitInv, flash
<1>5. CASE Restart \/ PowerCycle \/ PowerLoss
  BY <1>5, BootCommits DEF Restart, PowerCycle, PowerLoss, Boot, flash
<1>6. CASE Clear
  BY <1>6, ClearCommits
<1>7. CASE FactoryReset
  BY <1>7, FlashKept DEF FactoryReset, CommitInv, flash
<1>8. CASE Pick \/ (\E b \in Bundles : Insert(b)) \/ Eject \/ UNCHANGED vars
  <2>1. UNCHANGED <<wifi, nvs, pc, next, bundle>>
    BY <1>8 DEF Pick, Insert, Eject, vars, flash, ram
  <2> QED
    BY <2>1, FlashKept DEF CommitInv
<1> QED
  BY <1>1, <1>2, <1>3, <1>4, <1>5, <1>6, <1>7, <1>8 DEF Next, Task, User

LEMMA CommitAlways == ASSUME Sturdy PROVE Spec => [](TypeOK /\ WipeInv /\ CommitInv)
<1>1. (TypeOK /\ WipeInv /\ CommitInv) /\ [Next]_vars => CommitInv'
  BY CommitStep
<1> QED
  BY <1>1, CommitInit, WipeAlways, PTL DEF Spec

----------------------------------------------------------------------------
(* The refinement of Enrolment.                                            *)

AbstractSettings == [k \in Settings |-> IF Provisioned THEN nvs[k] ELSE None]

LEMMA EnrolInitial == Init => Enrol!EnrolInit
BY SettingFacts DEF Init, Enrol!EnrolInit, Enrol!Blank, Provisioned, Has

LEMMA EnrolStep ==
  ASSUME Sturdy
  PROVE  TypeOK /\ WipeInv /\ CommitInv /\ [Next]_vars
           => [Enrol!EnrolNext]_AbstractSettings
<1> SUFFICES ASSUME TypeOK, WipeInv, CommitInv, [Next]_vars
             PROVE  Enrol!EnrolNext \/ UNCHANGED AbstractSettings
  BY DEF AbstractSettings
<1>1. CASE UNCHANGED <<wifi, nvs>>
  <2>1. Provisioned' <=> Provisioned
    BY <1>1, FlashKept
  <2> QED
    BY <1>1, <2>1 DEF AbstractSettings
<1>2. CASE Clear
  <2>1. ~Provisioned'
    BY <1>2, ClearCommits
  <2> QED
    BY <2>1 DEF Enrol!EnrolNext, Enrol!GiveUp, Enrol!Blank
<1>3. CASE WriteKey
  <2>1. /\ next \in 1..LastKey /\ bundle \in Bundles \ Broken
        /\ nvs \in [KeySet -> Bundles \cup {None}]
    BY <1>3 DEF TypeOK, WipeInv, WriteKey
  <2>2. /\ nvs' \in {[nvs EXCEPT ![Keys[next]] = bundle], nvs}
        /\ UNCHANGED <<wifi, bundle>>
    BY <1>3 DEF WriteKey
  <2>3. CASE next < LastKey - 1
    <3>1. ~Provisioned /\ ~Provisioned'
      BY <1>3, <2>1, <2>3, WriteCommits DEF LastKey
    <3> QED
      BY <3>1 DEF AbstractSettings
  <2>4. CASE next = LastKey - 1
    <3>1. ~Provisioned
      BY <1>3, <2>4, WriteCommits DEF LastKey
    <3>2. \A k \in Settings : nvs'[k] = bundle
      BY <1>3, <2>4, WriteCommits DEF LastKey
    <3>3. CASE Provisioned'
      BY <2>1, <3>1, <3>2, <3>3 DEF Enrol!EnrolNext, Enrol!Adopt, Enrol!Blank
    <3>4. CASE ~Provisioned'
      BY <3>1, <3>4 DEF AbstractSettings
    <3> QED
      BY <3>3, <3>4
  <2>5. CASE next = LastKey
    <3>1. \A k \in Settings : nvs'[k] = nvs[k]
      BY <2>1, <2>2, <2>5, KeyFacts DEF Settings
    <3>2. Provisioned' <=> Provisioned
      BY <2>2, <3>1, SettingFacts DEF Provisioned, Has
    <3> QED
      BY <3>1, <3>2 DEF AbstractSettings
  <2> QED
    BY <2>1, <2>3, <2>4, <2>5 DEF LastKey
<1> QED
  BY <1>1, <1>2, <1>3
     DEF Next, Task, User, SetupFork, ReadBundle, WipeFile, Restart, Pick, FactoryReset,
         Insert, Eject, PowerCycle, PowerLoss, vars, flash

(* The device takes whole bundles on in one step, as is_provisioned sees   *)
(* it, wherever a commit or a reset is cut off.                            *)
THEOREM ProvisioningImplements == ASSUME Sturdy PROVE Spec => ImplementsEnrolment
<1>1. Init => Enrol!EnrolInit
  BY EnrolInitial
<1>2. (TypeOK /\ WipeInv /\ CommitInv) /\ [Next]_vars
        => [Enrol!EnrolNext]_AbstractSettings
  BY EnrolStep
<1> QED
  BY <1>1, <1>2, CommitAlways, PTL
     DEF Spec, ImplementsEnrolment, Enrol!EnrolSpec, AbstractSettings
=============================================================================
