----------------------------- MODULE MCFailover -----------------------------
(* Instances of Failover for TLC; Mode B of network_architecture.md is a   *)
(* device configured for ethernet.                                         *)
EXTENDS Failover

ModeB == {"ethernet"}

Nobody == {}
OnTheWeb == {"web"}
LcdAndWeb == {"lcd", "web"}
=============================================================================
