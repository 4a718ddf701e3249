----------------------------- MODULE MCDelivery -----------------------------
(* Instances of Delivery for TLC: a device configured for ethernet.        *)
EXTENDS Delivery

ModeB == {"ethernet"}
Nobody == {}
LastBroken == {N}
=============================================================================
