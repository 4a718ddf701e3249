------------------------- MODULE MCLocationManager -------------------------
(* Instance of LocationManager, and of the pipeline that it extends, for   *)
(* TLC: two integrations and a timer thread, two fixes.                    *)
EXTENDS LocationManager

CONSTANTS p1, p2, timer, here, there

TwoIntegrations == {p1, p2}
OneTimer == {timer}
TwoFixes == {here, there}
=============================================================================
