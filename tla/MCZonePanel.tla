----------------------------- MODULE MCZonePanel -----------------------------
(* Instances of ZonePanel for TLC: every input, or those of one zone.      *)
EXTENDS ZonePanel

AllInputs      == Lines
InputsOfZone13 == {<<2, 14>>, <<2, 15>>}
OwnAndNext     == {0, 1}
=============================================================================
