--------------------------- MODULE MCProvisioning ----------------------------
(* Small instances of Provisioning for TLC.                                *)
EXTENDS Provisioning

CONSTANTS b1, b2, b3

MCTwo    == {b1, b2}
MCThree  == {b1, b2, b3}
MCBroken == {b3}
MCNone   == {}
=============================================================================
