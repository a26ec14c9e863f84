------------------------------ MODULE Enrolment ------------------------------
(***************************************************************************)
(* What provisioning promises: a device has no settings at all, or those   *)
(* of one bundle, whole; it takes a bundle on in one step, and only gives  *)
(* it up to have none.                                                     *)
(***************************************************************************)
CONSTANTS
  Fields,   \* the settings a device runs with
  Sources,  \* bundles
  Unset     \* no setting

VARIABLE settings

Blank == [f \in Fields |-> Unset]

EnrolInit == settings = Blank

Adopt(b) == settings = Blank /\ settings' = [f \in Fields |-> b]

GiveUp == settings' = Blank

EnrolNext == (\E b \in Sources : Adopt(b)) \/ GiveUp

EnrolSpec == EnrolInit /\ [][EnrolNext]_settings
=============================================================================
