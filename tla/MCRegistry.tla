----------------------------- MODULE MCRegistry ------------------------------
(* Small instances of Registry for TLC.                                    *)
EXTENDS Registry

CONSTANTS d1, d2, d3, p1, p2

MCDevices == {d1, d2}
MCThree   == {d1, d2, d3}
MCSolo    == {p1}
MCPair    == {p1, p2}
=============================================================================
