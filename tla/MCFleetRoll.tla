---------------------------- MODULE MCFleetRoll ----------------------------
(* Instances of FleetRoll for TLC.                                         *)
EXTENDS FleetRoll, TLC

CONSTANTS d1, d2, d3

MCSeeders == <<"ns2", "ns1">>
=============================================================================
