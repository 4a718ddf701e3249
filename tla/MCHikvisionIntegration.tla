---------------------- MODULE MCHikvisionIntegration ------------------------
(* Instances of HikvisionIntegration for TLC.                              *)
EXTENDS HikvisionIntegration

CONSTANTS zone1, zone2   (* zones of the panel                              *)

TwoZones == {zone1, zone2}
AnySubject == {"zones", "fault", "status"}
=============================================================================
