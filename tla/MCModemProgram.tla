--------------------------- MODULE MCModemProgram ---------------------------
(* Instances of ModemProgram for TLC: the whole control plane on a device  *)
(* without a modem, and the modem program on a device with one.            *)
EXTENDS ModemProgram

LcdAndWeb == {"lcd", "web"}
WithAndWithout == BOOLEAN
=============================================================================
