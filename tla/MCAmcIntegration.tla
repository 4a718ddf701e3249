-------------------------- MODULE MCAmcIntegration --------------------------
(* Instances of AmcIntegration for TLC: the queue of a device with two     *)
(* writing processes and both senders, and the integration on a device     *)
(* with an AMC panel.                                                      *)
EXTENDS AmcIntegration

CONSTANTS core,          (* TLChronosProMAIN_391.py                         *)
          integration,   (* and an integration, which insert_with_cap       *)
          mqtt, serial,  (* thingsboard_mqtt_publisher.py and               *)
                         (* SerialCommunication.py                          *)
          zone1,         (* a burglary alarm of zone 1                      *)
          c1, c2         (* connections                                     *)

CoreAndIntegration == {core, integration}
MqttAndSerial == {mqtt, serial}
OneZone == {zone1}
Connections == {c1, c2}
AllPanels == {"none", "SIA-DCS", "ADM-CID"}
=============================================================================
