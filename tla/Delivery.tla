------------------------------ MODULE Delivery ------------------------------
(***************************************************************************)
(* The two senders of the telemetry, on top of the control plane: the      *)
(* publisher of dexter-mqtt (thingsboard_mqtt_publisher.py), over eth0,    *)
(* and the modem program (SerialCommunication.py), over GSM.  Both take    *)
(* the head of payloads.db and mark it sent afterwards; only network_type  *)
(* in modem_config.db tells them whose turn it is.                         *)
(*                                                                         *)
(* Eviction, expiry and purging of rows are the matter of PayloadQueue.    *)
(***************************************************************************)
EXTENDS Integers, FiniteSets

CONSTANTS StableThreshold, InitialModes, Users, Faults, EthReturns,
          MaxCoreCrashes, MaxMqttCrashes,  (* of Failover                      *)
          N,               (* bound of the model: payloads ever inserted       *)
          Broken,          (* the payloads that are no JSON even when repaired *)
          MaxReturns,      (* bounds: times that the lost link comes back,     *)
          MaxRefusals,     (* AT+MQTTPUBLM is answered by ERROR,               *)
          MaxFailures,     (* failed sends and marks, and crashes of the modem *)
                           (* program                                          *)
          MaxCopies        (* copies of a payload that are told apart          *)

ASSUME DeliveryAssumption ==
    /\ N \in Nat
    /\ Broken \subseteq 1 .. N
    /\ MaxReturns \in Nat /\ MaxRefusals \in Nat /\ MaxFailures \in Nat
    /\ MaxCopies \in Nat \ {0}

VARIABLES ethUp, dbNet, core, bootNet, network_type, monitor, active, stable,
          mqtt, web, chosen, upPolls, crashes,      (* of Failover             *)
          row,             (* the status of each payload in payloads.db        *)
          mqttRow,         (* the row the publisher has in hand, 0 if none     *)
          mqttSent,        (* the broker has acknowledged it                   *)
          serialPc,        (* where CheckSignalStrength.on_event stands        *)
          serialRow,       (* the row the modem program has in hand            *)
          delivered,       (* ThingsBoard: copies of each payload it received  *)
          failures,        (* history: what MaxFailures counts                 *)
          returns,         (* history: times that the link came back           *)
          refusals         (* history: publishes that the modem refused        *)

Control == INSTANCE Failover

controlVars == <<ethUp, dbNet, core, bootNet, network_type, monitor, active, stable,
                 mqtt, web, chosen, upPolls, crashes>>
mqttVars    == <<mqttRow, mqttSent>>
serialVars  == <<serialPc, serialRow>>
histVars    == <<failures, returns, refusals>>
vars == <<ethUp, dbNet, core, bootNet, network_type, monitor, active, stable,
          mqtt, web, chosen, upPolls, crashes,
          row, mqttRow, mqttSent, serialPc, serialRow, delivered,
          failures, returns, refusals>>

Rows    == 1 .. N
Pending == {i \in Rows : row[i] = "pending"}
Head    == CHOOSE i \in Pending : \A j \in Pending : i <= j

Init ==
    /\ Control!Init
    /\ row = [i \in Rows |-> "none"]
    /\ mqttRow = 0
    /\ mqttSent = FALSE
    /\ serialPc = "idle"
    /\ serialRow = 0
    /\ delivered = [i \in Rows |-> 0]
    /\ failures = 0 /\ returns = 0 /\ refusals = 0

(* A step of the control plane; a publisher that is stopped or restarted   *)
(* forgets what it had in hand.                                            *)
ControlStep ==
    /\ Control!Next
    /\ IF ethUp' /\ ~ ethUp
       THEN returns < MaxReturns /\ returns' = returns + 1
       ELSE UNCHANGED returns
    /\ mqttRow' = IF mqtt' = "running" THEN mqttRow ELSE 0
    /\ mqttSent' = (mqtt' = "running" /\ mqttSent)
    /\ UNCHANGED <<row, serialVars, delivered, failures, refusals>>

(* insert_with_cap *)
Insert(i) ==
    /\ row[i] = "none"
    /\ \A j \in Rows : j < i => row[j] # "none"
    /\ row' = [row EXCEPT ![i] = "pending"]
    /\ UNCHANGED <<controlVars, mqttVars, serialVars, delivered, histVars>>

Receive(i) == delivered' = [delivered EXCEPT ![i] = IF @ < MaxCopies THEN @ + 1 ELSE @]

-----------------------------------------------------------------------------
(* ChildProgram.run of the publisher *)

(* Mutant: the publisher takes any pending row. *)
MqttTake_AnyRow ==
    /\ mqtt = "running"
    /\ ethUp
    /\ mqttRow = 0
    /\ Pending # {}
    /\ \E i \in Pending : mqttRow' = i
    /\ UNCHANGED <<controlVars, row, mqttSent, serialVars, delivered, histVars>>

(* get_next, once is_connected has answered. *)
MqttTake ==
    /\ mqtt = "running"
    /\ ethUp
    /\ mqttRow = 0
    /\ Pending # {}
    /\ mqttRow' = Head
    /\ UNCHANGED <<controlVars, row, mqttSent, serialVars, delivered, histVars>>

(* publish_data: qos 1, and wait_for_publish returns with the answer of    *)
(* the broker; without a link it waits.                                    *)
MqttPublish ==
    /\ mqttRow # 0 /\ ~ mqttSent
    /\ mqttRow \notin Broken
    /\ ethUp
    /\ Receive(mqttRow)
    /\ mqttSent' = TRUE
    /\ UNCHANGED <<controlVars, row, mqttRow, serialVars, histVars>>

(* "JSON repair failed": send_to_cloud returns False. *)
MqttSkipBroken ==
    /\ mqttRow \in Broken /\ ~ mqttSent
    /\ mqttRow' = 0
    /\ UNCHANGED <<controlVars, row, mqttSent, serialVars, delivered, histVars>>

(* The second is_connected of send_to_cloud fails, or the publish raises:  *)
(* before the broker has the payload, or when only its answer is lost.     *)
MqttFails ==
    /\ mqttRow # 0 /\ ~ mqttSent
    /\ \/ ~ ethUp /\ UNCHANGED <<delivered, histVars>>
       \/ /\ failures < MaxFailures
          /\ failures' = failures + 1
          /\ UNCHANGED delivered \/ (mqttRow \notin Broken /\ ethUp /\ Receive(mqttRow))
    /\ mqttRow' = 0
    /\ UNCHANGED <<controlVars, row, mqttSent, serialVars, returns, refusals>>

(* Mutant: the row is not marked. *)
MqttMark_Forgotten ==
    /\ mqttRow # 0 /\ mqttSent
    /\ mqttRow' = 0
    /\ mqttSent' = FALSE
    /\ UNCHANGED <<controlVars, row, serialVars, delivered, histVars>>

MqttMark ==
    /\ mqttRow # 0 /\ mqttSent
    /\ row' = [row EXCEPT ![mqttRow] = "sent"]
    /\ mqttRow' = 0
    /\ mqttSent' = FALSE
    /\ UNCHANGED <<controlVars, serialVars, delivered, histVars>>

(* _set_status swallows the error of the database, and run does not look   *)
(* at what mark_as_sent returns: the row stays pending and is taken again. *)
MqttMarkFails ==
    /\ mqttRow # 0 /\ mqttSent
    /\ failures < MaxFailures
    /\ failures' = failures + 1
    /\ mqttRow' = 0
    /\ mqttSent' = FALSE
    /\ UNCHANGED <<controlVars, row, serialVars, delivered, returns, refusals>>

-----------------------------------------------------------------------------
(* CheckSignalStrength.on_event of the modem program *)

(* _sc_network_type returns "" for a database error.                       *)
ReadsEthernet == dbNet = "ethernet"
ReadsOther    == dbNet # "ethernet" \/ Faults

SerialCheck ==
    /\ serialPc = "idle"
    /\ ReadsOther
    /\ serialPc' = "take"
    /\ UNCHANGED <<controlVars, row, mqttVars, serialRow, delivered, histVars>>

SerialTake ==
    /\ serialPc = "take"
    /\ IF Pending # {}
       THEN serialRow' = Head /\ serialPc' = "recheck"
       ELSE serialPc' = "idle" /\ UNCHANGED serialRow
    /\ UNCHANGED <<controlVars, row, mqttVars, delivered, histVars>>

(* checkMQTTStatus reads network_type again; for ethernet it returns True, *)
(* "the payload is already being sent via TCP by dexter-mqtt".             *)
SerialRecheck ==
    /\ serialPc = "recheck"
    /\ \/ ReadsEthernet /\ serialPc' = "mark"
       \/ ReadsOther /\ serialPc' = "publish"
    /\ UNCHANGED <<controlVars, row, mqttVars, serialRow, delivered, histVars>>

(* send_payload tests a tuple, so an ERROR of the modem passes for OK. *)
SerialPublish ==
    /\ serialPc = "publish"
    /\ \/ Receive(serialRow) /\ UNCHANGED refusals
       \/ /\ refusals < MaxRefusals
          /\ refusals' = refusals + 1
          /\ UNCHANGED delivered
    /\ serialPc' = "mark"
    /\ UNCHANGED <<controlVars, row, mqttVars, serialRow, failures, returns>>

(* The modem is not there, the session is not, the row is not marked, as   *)
(* above, or the program is killed.                                        *)
SerialFails ==
    /\ serialPc # "idle"
    /\ failures < MaxFailures
    /\ failures' = failures + 1
    /\ serialPc' = "idle"
    /\ serialRow' = 0
    /\ UNCHANGED <<controlVars, row, mqttVars, delivered, returns, refusals>>

(* Mutant: get_json_string is called again for the row to mark. *)
SerialMark_ReadsAgain ==
    /\ serialPc = "mark"
    /\ IF Pending # {} THEN row' = [row EXCEPT ![Head] = "sent"] ELSE UNCHANGED row
    /\ serialPc' = "idle"
    /\ serialRow' = 0
    /\ UNCHANGED <<controlVars, mqttVars, delivered, histVars>>

SerialMark ==
    /\ serialPc = "mark"
    /\ row' = [row EXCEPT ![serialRow] = "sent"]
    /\ serialPc' = "idle"
    /\ serialRow' = 0
    /\ UNCHANGED <<controlVars, mqttVars, delivered, histVars>>

-----------------------------------------------------------------------------
MqttStep   == MqttTake \/ MqttPublish \/ MqttSkipBroken \/ MqttMark
SerialStep == SerialCheck \/ SerialTake \/ SerialRecheck \/ SerialPublish \/ SerialMark

Next ==
    \/ ControlStep
    \/ \E i \in Rows : Insert(i)
    \/ MqttStep \/ MqttFails \/ MqttMarkFails
    \/ SerialStep \/ SerialFails

(* As in Failover; besides, both loops go round, each on its own, and what *)
(* the broker or the modem was asked to do ends.                           *)
Fairness ==
    /\ WF_vars(Control!Boot /\ ControlStep)
    /\ WF_vars(Control!Monitor /\ ControlStep)
    /\ WF_vars(Control!MqttStart /\ ControlStep)
    /\ WF_vars(Control!WebRestart /\ ControlStep)
    /\ WF_vars(MqttStep)
    /\ WF_vars(SerialStep)

Spec == Init /\ [][Next]_vars
FairSpec == Spec /\ Fairness
-----------------------------------------------------------------------------
TypeOK ==
    /\ Control!TypeOK
    /\ row \in [Rows -> {"none", "pending", "sent"}]
    /\ mqttRow \in 0 .. N
    /\ mqttSent \in BOOLEAN
    /\ serialPc \in {"idle", "take", "recheck", "publish", "mark"}
    /\ serialRow \in 0 .. N
    /\ delivered \in [Rows -> 0 .. MaxCopies]
    /\ failures \in 0 .. MaxFailures
    /\ returns \in 0 .. MaxReturns
    /\ refusals \in 0 .. MaxRefusals

Lost == {i \in Rows : row[i] = "sent" /\ delivered[i] = 0}

(* No more payloads are lost than there were returns of the link and       *)
(* refusals of the modem: whatever else fails, crashes or is switched      *)
(* between the take and the mark_as_sent of either sender, a payload that  *)
(* is marked sent has arrived.                                             *)
LossBounded == Cardinality(Lost) <= returns + refusals

(* ThingsBoard sees the payloads for the first time in the order in which  *)
(* they were inserted, though two senders and their retries overlap: none  *)
(* before which another is still to be sent (get_next, get_json_string).   *)
FirstInOrder ==
    [][\A i \in Rows : delivered[i] = 0 /\ delivered'[i] > 0
          => \A j \in Rows : j < i => row[j] = "sent"]_vars

(* A second copy is paid for: a payload arrives once more only for an     *)
(* answer that was lost, a mark that failed, a publisher that was killed   *)
(* or restarted after its publish, or the failover that hands a payload in *)
(* flight to the other sender (both publish first and call mark_as_sent    *)
(* afterwards).                                                            *)
CopiesPaidFor ==
    \A i \in Rows :
        delivered[i] <= 1 + failures + crashes.mqtt + returns
                          + (IF dbNet = "gsm" \/ returns > 0 THEN 1 ELSE 0)

(* Every payload that waits behind no broken one gets sent, over one       *)
(* uplink or over the other, unless a restart of the core leaves the       *)
(* device without a sender (ChildProgram.run, CheckSignalStrength).        *)
EventuallySent ==
    [](crashes.core = 0) =>
        \A i \in Rows : (\A j \in Broken : i < j) =>
            (row[i] = "pending" ~> row[i] = "sent")

(* Why what is published comes in order: all before a row in hand is sent. *)
BeforeHand ==
    /\ \A j \in Rows : j < mqttRow => row[j] = "sent"
    /\ \A j \in Rows : j < serialRow => row[j] = "sent"
    /\ \A i, j \in Rows : j < i /\ row[j] = "none" => row[i] = "none"

(* What is in hand, and what the publisher is about to mark.               *)
HandInv ==
    /\ mqttRow # 0 => row[mqttRow] # "none"
    /\ mqttSent => mqttRow # 0 /\ delivered[mqttRow] > 0
    /\ serialPc \in {"recheck", "publish", "mark"} => serialRow # 0 /\ row[serialRow] # "none"

(* The losses to come: the payload that the modem program has taken, or    *)
(* will take, after the switch-back, or that it is about to mark unsent;   *)
(* and the switch-back that a return of the link has made possible.        *)
AboutToLose ==
    \/ serialPc \in {"take", "recheck"} /\ dbNet = "ethernet"
    \/ serialPc = "mark" /\ delivered[serialRow] = 0

SwitchBackDue ==
    \/ ethUp /\ (dbNet = "gsm" \/ monitor = "db_gsm")
    \/ monitor = "db_ethernet"
    \/ core = "override"

LossInv ==
    Cardinality(Lost) + (IF AboutToLose THEN 1 ELSE 0) + (IF SwitchBackDue THEN 1 ELSE 0)
        <= returns + refusals
=============================================================================
