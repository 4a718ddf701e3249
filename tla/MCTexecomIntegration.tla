----------------------- MODULE MCTexecomIntegration -------------------------
(* Instances of TexecomIntegration for TLC.                                *)
EXTENDS TexecomIntegration

TwoZones == {1, 2}
AnyTopic == {"incidents", "keys", "mains", "battery"}
=============================================================================
