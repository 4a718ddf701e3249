--------------------------- MODULE DeliveryProofs ---------------------------
(***************************************************************************)
(* Delivery proved for any number of payloads, crashes, failed sends and   *)
(* returns of the link: payloads arrive in order, always; and on a device  *)
(* in the ethernet mode no more of them are lost than there were returns   *)
(* of the link and refusals of the modem, and no more second copies arrive *)
(* than failures, crashes and returns pay for.                             *)
(***************************************************************************)
EXTENDS Delivery, FiniteSetTheorems, WellFoundedInduction, TLAPS

(* The part of TypeOK that the steps below rest on. *)
DataOK ==
    /\ row \in [Rows -> {"none", "pending", "sent"}]
    /\ mqttRow \in 0 .. N
    /\ mqttSent \in BOOLEAN
    /\ serialPc \in {"idle", "take", "recheck", "publish", "mark"}
    /\ serialRow \in 0 .. N
    /\ delivered \in [Rows -> 0 .. MaxCopies]
    /\ returns \in Nat /\ refusals \in Nat

IInv == DataOK /\ HandInv /\ BeforeHand

(* The head of the queue is its smallest id.                               *)
LEMMA HeadIsFirst ==
  ASSUME Pending # {}
  PROVE  Head \in Pending /\ \A j \in Pending : Head <= j
<1>1. Pending \subseteq Nat
  BY DeliveryAssumption DEF Pending, Rows
<1>2. PICK i \in Pending : \A j \in Pending : ~ (<<j, i>> \in OpToRel(<, Nat))
  BY <1>1, NatLessThanWellFounded, WFMin
<1>3. \A j \in Pending : ~ (j < i)
  BY <1>1, <1>2 DEF OpToRel
<1>4. \A j \in Pending : i \in Nat /\ j \in Nat
  BY <1>1
<1>5. \A j \in Pending : i <= j
  BY <1>3, <1>4
<1> QED BY <1>5 DEF Head

(* Everything before the head of the queue has been sent, if payloads are  *)
(* inserted in order.                                                      *)
LEMMA BeforeHeadSent ==
  ASSUME DataOK, BeforeHand, Pending # {}
  PROVE  Head \in Rows /\ \A j \in Rows : j < Head => row[j] = "sent"
<1>1. Head \in Pending /\ \A j \in Pending : Head <= j
  BY HeadIsFirst
<1>2. Head \in Rows /\ row[Head] = "pending"
  BY <1>1 DEF Pending
<1>3. ASSUME NEW j \in Rows, j < Head PROVE row[j] = "sent"
  <2>1. row[j] # "none"
    BY <1>2, <1>3 DEF BeforeHand
  <2>2. j \notin Pending
    BY <1>1, <1>2, <1>3, DeliveryAssumption DEF Rows
  <2> QED BY <2>1, <2>2 DEF DataOK, Pending
<1> QED BY <1>2, <1>3

(* A delivery adds to what has arrived and takes nothing back. *)
LEMMA ReceiveAdds ==
  ASSUME DataOK, NEW i \in Rows, Receive(i)
  PROVE  /\ delivered' \in [Rows -> 0 .. MaxCopies]
         /\ delivered'[i] > 0
         /\ \A j \in Rows : j # i => delivered'[j] = delivered[j]
<1>1. delivered[i] \in 0 .. MaxCopies /\ MaxCopies \in Nat \ {0}
  BY DeliveryAssumption DEF DataOK
<1>2. DEFINE c == IF delivered[i] < MaxCopies THEN delivered[i] + 1 ELSE delivered[i]
<1>3. c \in 0 .. MaxCopies /\ c > 0
  BY <1>1
<1>4. delivered' = [delivered EXCEPT ![i] = c]
  BY DEF Receive
<1> QED BY <1>3, <1>4 DEF DataOK

(* The initial states have the invariant.                                  *)
LEMMA InitInv == Init => IInv
<1> SUFFICES ASSUME Init PROVE IInv
  OBVIOUS
<1>1. DataOK
  <2>1. row \in [Rows -> {"none", "pending", "sent"}]
    BY DEF Init
  <2>2. 0 \in 0 .. N /\ 0 \in 0 .. MaxCopies
    BY DeliveryAssumption
  <2>3. delivered \in [Rows -> 0 .. MaxCopies]
    BY <2>2 DEF Init
  <2>4. mqttRow \in 0 .. N /\ serialRow \in 0 .. N
    BY <2>2 DEF Init
  <2>5. mqttSent \in BOOLEAN /\ serialPc = "idle"
    BY DEF Init
  <2>6. returns \in Nat /\ refusals \in Nat
    BY DEF Init
  <2> QED BY <2>1, <2>3, <2>4, <2>5, <2>6 DEF DataOK
<1>2. HandInv
  BY DEF Init, HandInv
<1>3. BeforeHand
  BY DeliveryAssumption DEF Init, BeforeHand, Rows
<1> QED BY <1>1, <1>2, <1>3 DEF IInv

(* The data keep their types.                                              *)
LEMMA DataStep == IInv /\ [Next]_vars => DataOK'
<1> SUFFICES ASSUME IInv, [Next]_vars PROVE DataOK'
  OBVIOUS
<1> USE DeliveryAssumption DEF IInv, DataOK
<1>1. CASE ControlStep
  <2>1. returns' \in Nat
    BY <1>1 DEF ControlStep
  <2>2. mqttRow' \in 0 .. N /\ UNCHANGED <<row, serialVars, delivered, refusals>>
    BY <1>1 DEF ControlStep
  <2>3. mqttSent' \in BOOLEAN
    BY <1>1 DEF ControlStep
  <2> QED BY <2>1, <2>2, <2>3 DEF serialVars
<1>2. CASE \E i \in Rows : Insert(i)
  BY <1>2 DEF Insert, mqttVars, serialVars, histVars
<1>3. CASE MqttTake
  <2>1. Head \in Rows
    BY <1>3, BeforeHeadSent DEF MqttTake
  <2> QED BY <1>3, <2>1 DEF MqttTake, serialVars, histVars, Rows
<1>4. CASE MqttPublish
  <2>1. mqttRow \in Rows
    BY <1>4 DEF MqttPublish, Rows
  <2>2. delivered' \in [Rows -> 0 .. MaxCopies]
    BY <1>4, <2>1, ReceiveAdds DEF MqttPublish
  <2> QED BY <1>4, <2>2 DEF MqttPublish, serialVars, histVars
<1>5. CASE MqttSkipBroken
  BY <1>5 DEF MqttSkipBroken, serialVars, histVars
<1>6. CASE MqttFails
  <2>1. mqttRow \in Rows
    BY <1>6 DEF MqttFails, Rows
  <2>2. delivered' \in [Rows -> 0 .. MaxCopies]
    BY <1>6, <2>1, ReceiveAdds DEF MqttFails
  <2> QED BY <1>6, <2>2 DEF MqttFails, serialVars, histVars
<1>7. CASE MqttMark
  <2>1. row' \in [Rows -> {"none", "pending", "sent"}]
    BY <1>7 DEF MqttMark
  <2>2. mqttRow' \in 0 .. N
    BY <1>7 DEF MqttMark
  <2>3. mqttSent' = FALSE
    BY <1>7 DEF MqttMark
  <2> QED BY <1>7, <2>1, <2>2, <2>3 DEF MqttMark, serialVars, histVars
<1>13. CASE MqttMarkFails
  <2>1. mqttRow' = 0 /\ mqttSent' = FALSE
    BY <1>13 DEF MqttMarkFails
  <2>2. UNCHANGED <<row, serialPc, serialRow, delivered, returns, refusals>>
    BY <1>13 DEF MqttMarkFails, serialVars
  <2>3. mqttRow' \in 0 .. N
    BY <2>1
  <2> QED BY <2>1, <2>2, <2>3
<1>8. CASE SerialCheck \/ SerialRecheck \/ SerialFails
  BY <1>8 DEF SerialCheck, SerialRecheck, SerialFails, mqttVars, histVars
<1>9. CASE SerialTake
  <2>1. Pending # {} => Head \in Rows
    BY BeforeHeadSent
  <2> QED BY <1>9, <2>1 DEF SerialTake, mqttVars, histVars, Rows
<1>10. CASE SerialPublish
  <2>1. serialRow \in Rows
    BY <1>10 DEF SerialPublish, HandInv, Rows
  <2>2. delivered' \in [Rows -> 0 .. MaxCopies]
    BY <1>10, <2>1, ReceiveAdds DEF SerialPublish
  <2>3. refusals' \in Nat
    BY <1>10 DEF SerialPublish
  <2> QED BY <1>10, <2>2, <2>3 DEF SerialPublish, mqttVars, histVars
<1>11. CASE SerialMark
  <2>1. row' \in [Rows -> {"none", "pending", "sent"}]
    BY <1>11 DEF SerialMark
  <2>2. serialRow' \in 0 .. N /\ serialPc' = "idle"
    BY <1>11 DEF SerialMark
  <2> QED BY <1>11, <2>1, <2>2 DEF SerialMark, mqttVars, histVars
<1>12. CASE UNCHANGED vars
  BY <1>12 DEF vars
<1> QED BY <1>1, <1>2, <1>3, <1>4, <1>5, <1>6, <1>7, <1>8, <1>9, <1>10, <1>11, <1>12, <1>13
        DEF Next, MqttStep, SerialStep

(* What a sender has in hand stays inserted, and what the publisher is     *)
(* about to mark stays delivered.                                          *)
LEMMA HandStep == IInv /\ [Next]_vars => HandInv'
<1> SUFFICES ASSUME IInv, [Next]_vars PROVE HandInv'
  OBVIOUS
<1> USE DeliveryAssumption DEF IInv, HandInv
<1>1. CASE ControlStep
  BY <1>1 DEF ControlStep, serialVars
<1>2. CASE \E i \in Rows : Insert(i)
  BY <1>2 DEF Insert, mqttVars, serialVars, DataOK
<1>3. CASE MqttTake
  <2>1. Head \in Pending
    BY <1>3, HeadIsFirst DEF MqttTake
  <2>2. row[Head] = "pending"
    BY <2>1 DEF Pending
  <2> QED BY <1>3, <2>2 DEF MqttTake, serialVars
<1>4. CASE MqttPublish
  <2>1. mqttRow \in Rows
    BY <1>4 DEF MqttPublish, DataOK, Rows
  <2>2. /\ delivered'[mqttRow] > 0
        /\ \A j \in Rows : j # mqttRow => delivered'[j] = delivered[j]
    BY <1>4, <2>1, ReceiveAdds DEF MqttPublish
  <2> QED BY <1>4, <2>1, <2>2 DEF MqttPublish, serialVars
<1>5. CASE MqttSkipBroken
  BY <1>5 DEF MqttSkipBroken, serialVars, DataOK
<1>6. CASE MqttFails
  <2>1. mqttRow' = 0 /\ mqttSent' = FALSE
    BY <1>6 DEF MqttFails, DataOK
  <2> QED BY <1>6, <2>1 DEF MqttFails, serialVars
<1>7. CASE MqttMark
  BY <1>7 DEF MqttMark, serialVars, DataOK
<1>14. CASE MqttMarkFails
  <2>1. mqttRow' = 0 /\ mqttSent' = FALSE /\ UNCHANGED <<row, serialPc, serialRow, delivered>>
    BY <1>14 DEF MqttMarkFails, serialVars
  <2> QED BY <2>1
<1>8. CASE SerialCheck \/ SerialFails
  BY <1>8 DEF SerialCheck, SerialFails, mqttVars
<1>9. CASE SerialTake
  <2>1. Pending # {} => Head \in Rows /\ row[Head] = "pending"
    BY HeadIsFirst DEF Pending
  <2> QED BY <1>9, <2>1 DEF SerialTake, mqttVars, Rows
<1>10. CASE SerialRecheck
  BY <1>10 DEF SerialRecheck, mqttVars
<1>11. CASE SerialPublish
  <2>1. serialRow \in Rows
    BY <1>11 DEF SerialPublish, DataOK, Rows
  <2>2. mqttSent => delivered'[mqttRow] > 0
    BY <1>11, <2>1, ReceiveAdds DEF SerialPublish, DataOK, Rows
  <2> QED BY <1>11, <2>1, <2>2 DEF SerialPublish, mqttVars
<1>12. CASE SerialMark
  BY <1>12 DEF SerialMark, mqttVars, DataOK
<1>13. CASE UNCHANGED vars
  BY <1>13 DEF vars
<1> QED BY <1>1, <1>2, <1>3, <1>4, <1>5, <1>6, <1>7, <1>8, <1>9, <1>10, <1>11, <1>12, <1>13,
           <1>14
        DEF Next, MqttStep, SerialStep

(* Rows are inserted in order and taken from the head, and a sent row      *)
(* stays sent.                                                             *)
LEMMA BeforeStep == IInv /\ [Next]_vars => BeforeHand'
<1> SUFFICES ASSUME IInv, [Next]_vars PROVE BeforeHand'
  OBVIOUS
<1> USE DeliveryAssumption DEF IInv
<1>1. CASE /\ mqttRow' \in {0, mqttRow}
           /\ serialRow' \in {0, serialRow}
           /\ row' = row
  BY <1>1 DEF BeforeHand, Rows
<1>2. CASE \E i \in Rows : Insert(i)
  <2>1. PICK i \in Rows : Insert(i)
    BY <1>2
  <2>2. /\ row[i] = "none"
        /\ \A j \in Rows : j < i => row[j] # "none"
        /\ row' = [row EXCEPT ![i] = "pending"]
        /\ UNCHANGED <<mqttRow, serialRow>>
    BY <2>1 DEF Insert, mqttVars, serialVars
  <2>3. \A j \in Rows : row[j] = "sent" => row'[j] = "sent"
    BY <2>2 DEF DataOK
  <2>4. ASSUME NEW k \in Rows, NEW j \in Rows, j < k, row'[j] = "none"
        PROVE  row'[k] = "none"
    <3>1. j # i /\ row[j] = "none"
      BY <2>2, <2>4 DEF DataOK
    <3>2. row[k] = "none" /\ ~ (j < i)
      BY <2>2, <2>4, <3>1 DEF BeforeHand
    <3>3. k # i
      BY <2>4, <3>2
    <3> QED BY <2>2, <3>2, <3>3 DEF DataOK
  <2> QED BY <2>2, <2>3, <2>4 DEF BeforeHand
<1>3. CASE MqttTake
  <2>1. \A j \in Rows : j < Head => row[j] = "sent"
    BY <1>3, BeforeHeadSent DEF MqttTake
  <2> QED BY <1>3, <2>1 DEF MqttTake, serialVars, BeforeHand
<1>4. CASE SerialTake
  <2>1. Pending # {} => \A j \in Rows : j < Head => row[j] = "sent"
    BY BeforeHeadSent
  <2> QED BY <1>4, <2>1 DEF SerialTake, mqttVars, BeforeHand
<1>5. ASSUME NEW m \in Rows, row[m] # "none", row' = [row EXCEPT ![m] = "sent"],
             mqttRow' \in {0, mqttRow}, serialRow' \in {0, serialRow}
      PROVE  BeforeHand'
  <2>1. \A j \in Rows : row[j] = "sent" => row'[j] = "sent"
    BY <1>5 DEF DataOK
  <2>2. \A j \in Rows : row'[j] = "none" <=> row[j] = "none"
    BY <1>5 DEF DataOK
  <2>3. \A j \in Rows : ~ (j < 0)
    BY DEF Rows
  <2> QED BY <1>5, <2>1, <2>2, <2>3 DEF BeforeHand
<1>6. CASE MqttMark
  <2>1. mqttRow \in Rows /\ row[mqttRow] # "none"
    BY <1>6 DEF MqttMark, HandInv, DataOK, Rows
  <2> QED BY <1>5, <1>6, <2>1 DEF MqttMark, serialVars
<1>7. CASE SerialMark
  <2>1. serialRow \in Rows /\ row[serialRow] # "none"
    BY <1>7 DEF SerialMark, HandInv, DataOK, Rows
  <2> QED BY <1>5, <1>7, <2>1 DEF SerialMark, mqttVars
<1>8. CASE \/ ControlStep \/ MqttPublish \/ MqttSkipBroken \/ MqttFails \/ MqttMarkFails
           \/ UNCHANGED vars
  BY <1>1, <1>8 DEF ControlStep, MqttPublish, MqttSkipBroken, MqttFails, MqttMarkFails, vars,
                    serialVars
<1>9. CASE SerialCheck \/ SerialRecheck \/ SerialPublish \/ SerialFails
  BY <1>1, <1>9 DEF SerialCheck, SerialRecheck, SerialPublish, SerialFails, mqttVars
<1> QED BY <1>2, <1>3, <1>4, <1>6, <1>7, <1>8, <1>9 DEF Next, MqttStep, SerialStep

(* Whatever happens, the data are as they should be.                       *)
LEMMA AlwaysIInv == Spec => []IInv
<1>1. Init => IInv
  BY InitInv
<1>2. IInv /\ [Next]_vars => IInv'
  BY DataStep, HandStep, BeforeStep DEF IInv
<1> QED BY <1>1, <1>2, PTL DEF Spec

(* What arrives for the first time is a row in hand.                       *)
LEMMA OrderStep ==
  IInv /\ [Next]_vars =>
      [\A i \in Rows : delivered[i] = 0 /\ delivered'[i] > 0
          => \A j \in Rows : j < i => row[j] = "sent"]_vars
<1> SUFFICES ASSUME IInv, [Next]_vars,
                    NEW i \in Rows, delivered[i] = 0, delivered'[i] > 0,
                    NEW j \in Rows, j < i
             PROVE  row[j] = "sent"
  OBVIOUS
<1> USE DeliveryAssumption DEF IInv
<1>1. \A k \in Rows : Receive(k) /\ i # k => FALSE
  BY ReceiveAdds
<1>2. delivered' # delivered
  BY DEF DataOK
<1>3. CASE MqttPublish \/ MqttFails
  <2>1. mqttRow \in Rows
    BY <1>3 DEF MqttPublish, MqttFails, DataOK, Rows
  <2>2. Receive(mqttRow)
    BY <1>2, <1>3 DEF MqttPublish, MqttFails
  <2>3. i = mqttRow
    BY <1>1, <2>1, <2>2
  <2> QED BY <2>3 DEF BeforeHand
<1>4. CASE SerialPublish
  <2>1. serialRow \in Rows
    BY <1>4 DEF SerialPublish, HandInv, DataOK, Rows
  <2>2. Receive(serialRow)
    BY <1>2, <1>4 DEF SerialPublish
  <2>3. i = serialRow
    BY <1>1, <2>1, <2>2
  <2> QED BY <2>3 DEF BeforeHand
<1> QED BY <1>2, <1>3, <1>4
        DEF Next, MqttStep, SerialStep, ControlStep, Insert, MqttTake, MqttSkipBroken,
            MqttMark, MqttMarkFails, SerialCheck, SerialTake, SerialRecheck, SerialFails,
            SerialMark, vars

(* ThingsBoard sees the payloads for the first time in the order of their  *)
(* insertion, whatever fails, crashes or is switched, and though both      *)
(* senders may be at work (get_next, checkMQTTStatus, mark_as_sent).       *)
THEOREM ArrivalsInOrder == Spec => FirstInOrder
<1>1. IInv /\ [Next]_vars =>
        [\A i \in Rows : delivered[i] = 0 /\ delivered'[i] > 0
            => \A j \in Rows : j < i => row[j] = "sent"]_vars
  BY OrderStep
<1> QED BY <1>1, AlwaysIInv, PTL DEF Spec, FirstInOrder
-----------------------------------------------------------------------------
(* A device whose configuration is ethernet, left alone by its users, and  *)
(* whose databases can be read and written.                                *)
LeftAlone ==
    /\ InitialModes = {"ethernet"}
    /\ Users = {}
    /\ Faults = FALSE

(* What of the control plane the losses depend on: the monitor and the     *)
(* boot go back to ethernet only from GSM, and not at the same time.       *)
ControlInv ==
    /\ dbNet \in {"ethernet", "gsm"}
    /\ active /\ monitor = "sleep" => dbNet = "gsm"
    /\ monitor \in {"db_ethernet", "restart_mqtt"} => ~ active
    /\ core # "up" => monitor = "off" /\ ~ active
    /\ core = "check" => dbNet = "gsm"

(* Each step of the control plane keeps it.                                *)
LEMMA ControlKeepsInv ==
  ASSUME LeftAlone, ControlInv, Control!Next
  PROVE  ControlInv'
<1> USE DEF LeftAlone, ControlInv, Control!WriteNet, Control!RestartMqtt, Control!coreVars,
            Control!monitorVars, Control!userVars
<1>1. CASE Control!EthToggle
  BY <1>1 DEF Control!EthToggle
<1>2. CASE Control!Boot
  BY <1>2 DEF Control!Boot, Control!CoreBootRead, Control!CoreBootCheck,
              Control!CoreBootOverride, Control!CoreBootStart
<1>3. CASE Control!CoreCrash
  BY <1>3 DEF Control!CoreCrash
<1>4. CASE Control!Monitor
  BY <1>4 DEF Control!Monitor, Control!MonitorPoll, Control!MonitorDbGsm,
              Control!MonitorDbEthernet, Control!MonitorRestartMqtt
<1>5. CASE Control!MqttStart \/ Control!MqttCrash
  BY <1>5 DEF Control!MqttStart, Control!MqttCrash
<1>6. CASE \E user \in Users : Control!UserActs(user)
  BY <1>6 DEF LeftAlone
<1>7. CASE Control!WebRestart
  BY <1>7 DEF Control!WebRestart
<1> QED BY <1>1, <1>2, <1>3, <1>4, <1>5, <1>6, <1>7 DEF Control!Next

(* So does every step of the device.                                       *)
LEMMA ControlInvStep ==
  ASSUME LeftAlone, ControlInv, [Next]_vars
  PROVE  ControlInv'
<1>1. CASE ControlStep
  BY <1>1, ControlKeepsInv DEF ControlStep
<1>2. CASE UNCHANGED controlVars
  BY <1>2 DEF controlVars, ControlInv
<1> QED BY <1>1, <1>2
        DEF Next, MqttStep, SerialStep, Insert, MqttTake, MqttPublish, MqttSkipBroken,
            MqttFails, MqttMark, MqttMarkFails, SerialCheck, SerialTake, SerialRecheck, SerialPublish,
            SerialMark, SerialFails, vars, controlVars

(* A step of the control plane that goes back to ethernet uses up the      *)
(* switch-back that was due, and one that makes a switch-back due is the   *)
(* return of the link.                                                     *)
LEMMA ControlPays ==
  ASSUME LeftAlone, ControlInv, ControlStep
  PROVE  \/ /\ dbNet' = "ethernet" => dbNet = "ethernet"
            /\ SwitchBackDue' => SwitchBackDue
            /\ returns' = returns
         \/ /\ dbNet' = "ethernet" => dbNet = "ethernet"
            /\ returns' = returns + 1
         \/ SwitchBackDue /\ ~ SwitchBackDue' /\ returns' = returns
<1> USE DEF LeftAlone, ControlInv, SwitchBackDue, Control!WriteNet, Control!RestartMqtt,
            Control!coreVars, Control!monitorVars, Control!userVars
<1>1. ASSUME UNCHANGED ethUp PROVE returns' = returns
  BY <1>1 DEF ControlStep
<1>2. CASE Control!EthToggle
  <2>1. UNCHANGED <<dbNet, core, monitor>>
    BY <1>2 DEF Control!EthToggle
  <2>2. CASE ethUp' /\ ~ ethUp
    BY <2>1, <2>2 DEF ControlStep
  <2>3. CASE ~ ethUp'
    BY <2>1, <2>3 DEF ControlStep
  <2> QED BY <1>2, <2>2, <2>3 DEF Control!EthToggle
<1>3. CASE Control!CoreBootRead
  BY <1>1, <1>3 DEF Control!CoreBootRead
<1>4. CASE Control!CoreBootCheck
  BY <1>1, <1>4 DEF Control!CoreBootCheck
<1>5. CASE Control!CoreBootOverride
  BY <1>1, <1>5 DEF Control!CoreBootOverride
<1>6. CASE Control!CoreBootStart
  BY <1>1, <1>6 DEF Control!CoreBootStart
<1>7. CASE Control!CoreCrash
  BY <1>1, <1>7 DEF Control!CoreCrash
<1>8. CASE Control!MonitorPoll
  BY <1>1, <1>8 DEF Control!MonitorPoll
<1>9. CASE Control!MonitorDbGsm
  BY <1>1, <1>9 DEF Control!MonitorDbGsm
<1>10. CASE Control!MonitorDbEthernet
  BY <1>1, <1>10 DEF Control!MonitorDbEthernet
<1>11. CASE Control!MonitorRestartMqtt
  BY <1>1, <1>11 DEF Control!MonitorRestartMqtt
<1>12. CASE Control!MqttStart \/ Control!MqttCrash
  BY <1>1, <1>12 DEF Control!MqttStart, Control!MqttCrash
<1>13. CASE Control!WebRestart
  BY <1>1, <1>13 DEF Control!WebRestart
<1>14. CASE \E user \in Users : Control!UserActs(user)
  BY <1>14 DEF LeftAlone
<1> QED BY <1>2, <1>3, <1>4, <1>5, <1>6, <1>7, <1>8, <1>9, <1>10, <1>11, <1>12, <1>13, <1>14
        DEF ControlStep, Control!Next, Control!Boot, Control!Monitor

(* The losses can be counted, and a step that loses one payload adds one.  *)
LEMMA CountLost ==
  ASSUME DataOK
  PROVE  /\ Cardinality(Lost) \in Nat
         /\ \A S : S \subseteq Lost =>
               Cardinality(S) \in Nat /\ Cardinality(S) <= Cardinality(Lost)
         /\ \A S, x : S \subseteq Lost \cup {x} =>
               Cardinality(S) \in Nat /\ Cardinality(S) <= Cardinality(Lost) + 1
<1>1. IsFiniteSet(Rows)
  BY DeliveryAssumption, FS_Interval DEF Rows
<1>2. IsFiniteSet(Lost)
  BY <1>1, FS_Subset DEF Lost
<1>3. Cardinality(Lost) \in Nat
  BY <1>2, FS_CardinalityType
<1>4. ASSUME NEW S, S \subseteq Lost
      PROVE  Cardinality(S) \in Nat /\ Cardinality(S) <= Cardinality(Lost)
  BY <1>2, <1>4, FS_Subset, FS_CardinalityType
<1>5. ASSUME NEW S, NEW x, S \subseteq Lost \cup {x}
      PROVE  Cardinality(S) \in Nat /\ Cardinality(S) <= Cardinality(Lost) + 1
  <2>1. /\ IsFiniteSet(Lost \cup {x})
        /\ \/ Cardinality(Lost \cup {x}) = Cardinality(Lost)
           \/ Cardinality(Lost \cup {x}) = Cardinality(Lost) + 1
    BY <1>2, FS_AddElement
  <2>2. IsFiniteSet(S) /\ Cardinality(S) <= Cardinality(Lost \cup {x})
    BY <1>5, <2>1, FS_Subset
  <2>3. Cardinality(S) \in Nat
    BY <2>2, FS_CardinalityType
  <2> QED BY <1>3, <2>1, <2>2, <2>3
<1> QED BY <1>3, <1>4, <1>5

(* The steps of the senders: a loss was about to happen, or the modem      *)
(* refused the publish.                                                    *)
LEMMA SendersPay ==
  ASSUME Faults = FALSE, IInv, [Next]_vars, ~ ControlStep
  PROVE  /\ UNCHANGED <<ethUp, dbNet, monitor, core, returns>>
         /\ \/ /\ Lost' \subseteq Lost
               /\ AboutToLose' => AboutToLose
               /\ refusals' = refusals
            \/ Lost' \subseteq Lost /\ refusals' = refusals + 1
            \/ /\ Lost' \subseteq Lost \cup {serialRow}
               /\ AboutToLose /\ ~ AboutToLose'
               /\ refusals' = refusals
<1> USE DeliveryAssumption DEF IInv
<1>1. UNCHANGED <<ethUp, dbNet, monitor, core>>
  BY DEF Next, MqttStep, SerialStep, Insert, MqttTake, MqttPublish, MqttSkipBroken,
         MqttFails, MqttMark, MqttMarkFails, SerialCheck, SerialTake, SerialRecheck, SerialPublish,
         SerialMark, SerialFails, vars, controlVars
<1>2. returns' = returns
  BY DEF Next, MqttStep, SerialStep, Insert, MqttTake, MqttPublish, MqttSkipBroken,
         MqttFails, MqttMark, MqttMarkFails, SerialCheck, SerialTake, SerialRecheck, SerialPublish,
         SerialMark, SerialFails, vars, histVars
<1>3. ASSUME row' = row, \A i \in Rows : delivered[i] > 0 => delivered'[i] > 0
      PROVE  Lost' \subseteq Lost
  BY <1>3 DEF Lost, DataOK
<1>4. ASSUME NEW i \in Rows, Receive(i), row' = row, UNCHANGED <<serialPc, serialRow>>
      PROVE  Lost' \subseteq Lost /\ (AboutToLose' => AboutToLose)
  <2>1. \A j \in Rows : delivered[j] > 0 => delivered'[j] > 0
    BY <1>4, ReceiveAdds DEF DataOK
  <2>2. Lost' \subseteq Lost
    BY <1>3, <1>4, <2>1
  <2>3. serialPc = "mark" => serialRow \in Rows
    BY DEF HandInv, DataOK, Rows
  <2>4. ASSUME serialPc = "mark", delivered'[serialRow] = 0 PROVE delivered[serialRow] = 0
    BY <2>1, <2>3, <2>4 DEF DataOK
  <2> QED BY <1>1, <1>4, <2>2, <2>4 DEF AboutToLose
<1>5. CASE \/ \E i \in Rows : Insert(i)
           \/ MqttTake \/ MqttSkipBroken
           \/ UNCHANGED vars
  <2>1. UNCHANGED <<delivered, serialPc, serialRow, refusals>>
    BY <1>5 DEF Insert, MqttTake, MqttSkipBroken, vars, serialVars, histVars
  <2>2. Lost' \subseteq Lost
    BY <1>5, <2>1 DEF Insert, MqttTake, MqttSkipBroken, vars, Lost, DataOK
  <2> QED BY <1>1, <1>2, <2>1, <2>2 DEF AboutToLose
<1>6. CASE MqttPublish
  <2>1. mqttRow \in Rows
    BY <1>6 DEF MqttPublish, DataOK, Rows
  <2> QED BY <1>1, <1>2, <1>4, <1>6, <2>1 DEF MqttPublish, serialVars, histVars
<1>7. CASE MqttFails
  <2>1. mqttRow \in Rows
    BY <1>7 DEF MqttFails, DataOK, Rows
  <2>2. UNCHANGED <<row, serialPc, serialRow, refusals>>
    BY <1>7 DEF MqttFails, serialVars
  <2>3. CASE delivered' = delivered
    BY <1>1, <1>2, <2>2, <2>3 DEF Lost, AboutToLose
  <2>4. CASE Receive(mqttRow)
    BY <1>1, <1>2, <1>4, <2>1, <2>2, <2>4
  <2> QED BY <1>7, <2>3, <2>4 DEF MqttFails
<1>12. CASE MqttMarkFails
  <2>1. UNCHANGED <<row, delivered, serialPc, serialRow, refusals>>
    BY <1>12 DEF MqttMarkFails, serialVars
  <2> QED BY <1>1, <1>2, <2>1 DEF Lost, AboutToLose
<1>8. CASE MqttMark
  <2>1. mqttRow \in Rows /\ delivered[mqttRow] > 0
    BY <1>8 DEF MqttMark, HandInv, DataOK, Rows
  <2>2. Lost' \subseteq Lost
    BY <1>8, <2>1 DEF MqttMark, Lost, DataOK
  <2> QED BY <1>1, <1>2, <1>8, <2>2 DEF MqttMark, AboutToLose, serialVars, histVars
<1>9. CASE SerialCheck \/ SerialTake \/ SerialRecheck \/ SerialFails
  <2>1. UNCHANGED <<row, delivered, refusals>>
    BY <1>9 DEF SerialCheck, SerialTake, SerialRecheck, SerialFails, histVars
  <2>2. Lost' \subseteq Lost
    BY <1>3, <2>1
  <2>3. AboutToLose' => AboutToLose
    <3>1. CASE SerialCheck
      BY <1>1, <3>1 DEF SerialCheck, AboutToLose, ReadsOther
    <3>2. CASE SerialTake
      <4>1. serialPc = "take" /\ serialPc' \in {"recheck", "idle"}
        BY <3>2 DEF SerialTake
      <4> QED BY <1>1, <4>1 DEF AboutToLose
    <3>3. CASE SerialRecheck
      <4>1. /\ serialPc = "recheck"
            /\ serialPc' = "publish" \/ (serialPc' = "mark" /\ dbNet = "ethernet")
        BY <3>3 DEF SerialRecheck, ReadsEthernet
      <4> QED BY <4>1 DEF AboutToLose
    <3>4. CASE SerialFails
      BY <3>4 DEF SerialFails, AboutToLose
    <3> QED BY <1>9, <3>1, <3>2, <3>3, <3>4
  <2> QED BY <1>1, <1>2, <2>1, <2>2, <2>3
<1>10. CASE SerialPublish
  <2>1. serialRow \in Rows
    BY <1>10 DEF SerialPublish, HandInv, DataOK, Rows
  <2>2. CASE delivered' = delivered /\ refusals' = refusals + 1
    <3>1. Lost' \subseteq Lost
      BY <1>3, <1>10, <2>2 DEF SerialPublish
    <3> QED BY <1>1, <1>2, <2>2, <3>1
  <2>3. CASE Receive(serialRow) /\ refusals' = refusals
    <3>1. /\ delivered'[serialRow] > 0
          /\ \A j \in Rows : delivered[j] > 0 => delivered'[j] > 0
      BY <2>1, <2>3, ReceiveAdds DEF DataOK
    <3>2. Lost' \subseteq Lost
      BY <1>3, <1>10, <3>1 DEF SerialPublish
    <3>3. ~ AboutToLose'
      BY <1>10, <3>1 DEF SerialPublish, AboutToLose
    <3> QED BY <1>1, <1>2, <2>3, <3>2, <3>3
  <2> QED BY <1>10, <2>2, <2>3 DEF SerialPublish
<1>11. CASE SerialMark
  <2>1. serialRow \in Rows
    BY <1>11 DEF SerialMark, HandInv, DataOK, Rows
  <2>2. UNCHANGED <<delivered, refusals>> /\ ~ AboutToLose'
    BY <1>11 DEF SerialMark, AboutToLose, histVars
  <2>3. \A j \in Rows : row'[j] = IF j = serialRow THEN "sent" ELSE row[j]
    BY <1>11 DEF SerialMark, DataOK
  <2>4. CASE delivered[serialRow] = 0
    <3>1. AboutToLose
      BY <1>11, <2>4 DEF SerialMark, AboutToLose
    <3>2. Lost' \subseteq Lost \cup {serialRow}
      BY <2>2, <2>3 DEF Lost
    <3> QED BY <1>1, <1>2, <2>2, <3>1, <3>2
  <2>5. CASE delivered[serialRow] # 0
    <3>1. Lost' \subseteq Lost
      BY <2>1, <2>2, <2>3, <2>5 DEF Lost
    <3> QED BY <1>1, <1>2, <2>2, <3>1
  <2> QED BY <2>4, <2>5
<1> QED BY <1>5, <1>6, <1>7, <1>8, <1>9, <1>10, <1>11, <1>12 DEF Next, MqttStep, SerialStep

(* So the losses, past and to come, never exceed what pays for them.       *)
LEMMA LossStep ==
  ASSUME LeftAlone, IInv, IInv', ControlInv, LossInv, [Next]_vars
  PROVE  LossInv'
<1> DEFINE w  == IF AboutToLose THEN 1 ELSE 0
           c  == IF SwitchBackDue THEN 1 ELSE 0
           wn == IF AboutToLose' THEN 1 ELSE 0
           cn == IF SwitchBackDue' THEN 1 ELSE 0
<1>1. /\ Cardinality(Lost) \in Nat /\ Cardinality(Lost') \in Nat
      /\ returns \in Nat /\ refusals \in Nat /\ returns' \in Nat /\ refusals' \in Nat
      /\ w \in 0 .. 1 /\ c \in 0 .. 1 /\ wn \in 0 .. 1 /\ cn \in 0 .. 1
  <2>1. Cardinality(Lost) \in Nat
    BY CountLost DEF IInv
  <2>2. Cardinality(Lost') \in Nat
    <3>1. CASE ControlStep
      BY <2>1, <3>1 DEF ControlStep, Lost
    <3>2. CASE ~ ControlStep
      <4>1. Lost' \subseteq Lost \cup {serialRow}
        BY <3>2, SendersPay DEF LeftAlone
      <4> QED BY <4>1, CountLost DEF IInv
    <3> QED BY <3>1, <3>2
  <2> QED BY <2>1, <2>2 DEF IInv, DataOK
<1>2. Cardinality(Lost) + w + c <= returns + refusals
  BY DEF LossInv
<1>3. SUFFICES Cardinality(Lost') + wn + cn <= returns' + refusals'
  BY DEF LossInv
<1>4. CASE ControlStep
  <2>1. Lost' = Lost /\ refusals' = refusals /\ UNCHANGED <<serialPc, serialRow, delivered>>
    BY <1>4 DEF ControlStep, Lost, serialVars
  <2>2. ASSUME dbNet' = "ethernet" => dbNet = "ethernet" PROVE wn <= w
    BY <2>1, <2>2 DEF AboutToLose
  <2>3. CASE /\ dbNet' = "ethernet" => dbNet = "ethernet"
             /\ SwitchBackDue' => SwitchBackDue
             /\ returns' = returns
    <3>1. cn <= c
      BY <2>3
    <3> HIDE DEF w, c, wn, cn
    <3> QED BY <1>1, <1>2, <2>1, <2>2, <2>3, <3>1
  <2>4. CASE /\ dbNet' = "ethernet" => dbNet = "ethernet"
             /\ returns' = returns + 1
    <3> HIDE DEF w, c, wn, cn
    <3> QED BY <1>1, <1>2, <2>1, <2>2, <2>4
  <2>5. CASE SwitchBackDue /\ ~ SwitchBackDue' /\ returns' = returns
    <3>1. c = 1 /\ cn = 0
      BY <2>5
    <3> HIDE DEF w, c, wn, cn
    <3> QED BY <1>1, <1>2, <2>1, <2>5, <3>1
  <2> QED BY <1>4, <2>3, <2>4, <2>5, ControlPays
<1>5. CASE ~ ControlStep
  <2>1. UNCHANGED <<ethUp, dbNet, monitor, core, returns>>
    BY <1>5, SendersPay DEF LeftAlone
  <2>2. cn = c
    BY <2>1 DEF SwitchBackDue
  <2>3. CASE /\ Lost' \subseteq Lost
             /\ AboutToLose' => AboutToLose
             /\ refusals' = refusals
    <3>1. wn <= w
      BY <2>3
    <3>2. Cardinality(Lost') <= Cardinality(Lost)
      BY <2>3, CountLost DEF IInv
    <3> HIDE DEF w, c, wn, cn
    <3> QED BY <1>1, <1>2, <2>1, <2>2, <2>3, <3>1, <3>2
  <2>4. CASE Lost' \subseteq Lost /\ refusals' = refusals + 1
    <3>1. Cardinality(Lost') <= Cardinality(Lost)
      BY <2>4, CountLost DEF IInv
    <3> HIDE DEF w, c, wn, cn
    <3> QED BY <1>1, <1>2, <2>1, <2>2, <2>4, <3>1
  <2>5. CASE /\ Lost' \subseteq Lost \cup {serialRow}
             /\ AboutToLose /\ ~ AboutToLose'
             /\ refusals' = refusals
    <3>1. w = 1 /\ wn = 0
      BY <2>5
    <3>2. Cardinality(Lost') <= Cardinality(Lost) + 1
      BY <2>5, CountLost DEF IInv
    <3> HIDE DEF w, c, wn, cn
    <3> QED BY <1>1, <1>2, <2>1, <2>2, <2>5, <3>1, <3>2
  <2> QED BY <1>5, <2>3, <2>4, <2>5, SendersPay DEF LeftAlone
<1> QED BY <1>4, <1>5

(* On a device left alone in the ethernet mode no more payloads are marked *)
(* sent and do not arrive than the link came back, and the modem refused   *)
(* one (checkMQTTStatus, send_payload, mark_as_sent).                      *)
THEOREM LossAlwaysBounded == LeftAlone => (Spec => []LossBounded)
<1> SUFFICES ASSUME LeftAlone PROVE Spec => []LossBounded
  OBVIOUS
<1> DEFINE Inv == ControlInv /\ LossInv
<1>1. Init => Inv
  <2> SUFFICES ASSUME Init PROVE Inv
    OBVIOUS
  <2>1. Lost = {}
    BY DEF Init, Lost
  <2>2. Cardinality(Lost) = 0
    BY <2>1, FS_EmptySet
  <2>3. ~ AboutToLose /\ ~ SwitchBackDue /\ ControlInv
    BY DEF LeftAlone, Init, Control!Init, AboutToLose, SwitchBackDue, ControlInv
  <2>4. returns = 0 /\ refusals = 0
    BY DEF Init
  <2> QED BY <2>2, <2>3, <2>4 DEF LossInv
<1>2. IInv /\ IInv' /\ Inv /\ [Next]_vars => Inv'
  BY ControlInvStep, LossStep
<1>3. IInv /\ Inv => LossBounded
  <2> SUFFICES ASSUME IInv, LossInv PROVE LossBounded
    OBVIOUS
  <2>1. Cardinality(Lost) \in Nat /\ returns \in Nat /\ refusals \in Nat
    BY CountLost DEF IInv, DataOK
  <2> QED BY <2>1 DEF LossInv, LossBounded
<1> QED BY <1>1, <1>2, <1>3, AlwaysIInv, PTL DEF Spec
-----------------------------------------------------------------------------
(* Second copies.  A copy too many is one that was published and not       *)
(* marked, or one that the other sender had already in hand.               *)
One(b) == IF b THEN 1 ELSE 0

(* The restart of the publisher by the monitor is still to come, and a     *)
(* return of the link has paid for it.                                     *)
RestartDue == SwitchBackDue \/ monitor = "restart_mqtt"

(* What has paid for copies so far.                                        *)
Paid == failures + crashes.mqtt + returns - One(RestartDue)

(* Both senders can be at work only once the device has failed over.       *)
SecondSender == dbNet = "gsm" \/ returns > 0

(* Of row i: published and about to be marked; in hand and not published.  *)
Unmarked(i) ==
    One(mqttSent /\ mqttRow = i) + One(serialPc = "mark" /\ serialRow = i)
Unpublished(i) ==
    One(~ mqttSent /\ mqttRow = i) + One(serialPc \in {"recheck", "publish"} /\ serialRow = i)

CopiesOf(i) ==
    /\ row[i] # "sent" => delivered[i] <= Paid + Unmarked(i)
    /\ row[i] = "sent" => delivered[i] + Unpublished(i) <= Paid + 1 + One(SecondSender)

CountsOK ==
    /\ failures \in Nat
    /\ crashes \in [core : Nat, mqtt : Nat]

(* Who can be at work, and what has happened if he is.                     *)
TurnInv ==
    /\ mqttRow # 0 => mqtt = "running"
    /\ web = "idle"
    /\ monitor = "restart_mqtt" => dbNet = "ethernet"
    /\ RestartDue => returns > 0
    /\ serialPc # "idle" => SecondSender

CopiesInv == CountsOK /\ TurnInv /\ \A i \in Rows : CopiesOf(i)

(* The control plane restarts the publisher only when a restart is due,    *)
(* goes back to ethernet only when it is, and makes one due only when the  *)
(* link returns.                                                           *)
LEMMA ControlTurns ==
  ASSUME LeftAlone, ControlInv, TurnInv, CountsOK, returns \in Nat, ControlStep
  PROVE  /\ CountsOK'
         /\ web' = "idle"
         /\ monitor' = "restart_mqtt" => dbNet' = "ethernet"
         /\ dbNet = "gsm" => dbNet' = "gsm" \/ RestartDue
         /\ \/ /\ RestartDue' => RestartDue
               /\ returns' = returns /\ crashes'.mqtt = crashes.mqtt
               /\ mqtt = "running" => mqtt' = "running"
            \/ /\ returns' = returns + 1 /\ crashes'.mqtt = crashes.mqtt
               /\ mqtt' = mqtt
            \/ /\ RestartDue /\ ~ RestartDue'
               /\ returns' = returns /\ crashes'.mqtt = crashes.mqtt
            \/ /\ RestartDue' => RestartDue
               /\ returns' = returns /\ crashes'.mqtt = crashes.mqtt + 1
<1> USE DEF LeftAlone, ControlInv, TurnInv, SwitchBackDue, RestartDue, Control!WriteNet,
            Control!RestartMqtt, Control!coreVars, Control!monitorVars, Control!userVars
<1>1. ASSUME UNCHANGED ethUp PROVE returns' = returns
  BY <1>1 DEF ControlStep
<1>2. failures' = failures
  BY DEF ControlStep
<1>3. ASSUME UNCHANGED crashes PROVE CountsOK'
  BY <1>2, <1>3 DEF CountsOK
<1>4. CASE Control!EthToggle
  <2>1. UNCHANGED <<dbNet, core, monitor, mqtt, web, crashes>>
    BY <1>4 DEF Control!EthToggle
  <2>2. CASE ethUp' /\ ~ ethUp
    BY <1>3, <2>1, <2>2 DEF ControlStep
  <2>3. CASE ~ ethUp'
    BY <1>3, <2>1, <2>3 DEF ControlStep
  <2> QED BY <1>4, <2>2, <2>3 DEF Control!EthToggle
<1>5. CASE Control!CoreBootRead
  BY <1>1, <1>3, <1>5 DEF Control!CoreBootRead
<1>6. CASE Control!CoreBootCheck
  BY <1>1, <1>3, <1>6 DEF Control!CoreBootCheck
<1>7. CASE Control!CoreBootOverride
  BY <1>1, <1>3, <1>7 DEF Control!CoreBootOverride
<1>8. CASE Control!CoreBootStart
  BY <1>1, <1>3, <1>8 DEF Control!CoreBootStart
<1>9. CASE Control!CoreCrash
  <2>1. /\ UNCHANGED <<ethUp, dbNet, mqtt, web>>
        /\ core' = "down" /\ monitor' = "off"
        /\ crashes' = [crashes EXCEPT !.core = @ + 1]
    BY <1>9 DEF Control!CoreCrash
  <2>2. crashes'.mqtt = crashes.mqtt /\ CountsOK'
    BY <1>2, <2>1 DEF CountsOK
  <2> QED BY <1>1, <2>1, <2>2
<1>10. CASE Control!MonitorPoll
  BY <1>1, <1>3, <1>10 DEF Control!MonitorPoll
<1>11. CASE Control!MonitorDbGsm
  BY <1>1, <1>3, <1>11 DEF Control!MonitorDbGsm
<1>12. CASE Control!MonitorDbEthernet
  BY <1>1, <1>3, <1>12 DEF Control!MonitorDbEthernet
<1>13. CASE Control!MonitorRestartMqtt
  BY <1>1, <1>3, <1>13 DEF Control!MonitorRestartMqtt
<1>14. CASE Control!MqttStart
  BY <1>1, <1>3, <1>14 DEF Control!MqttStart
<1>15. CASE Control!MqttCrash
  <2>1. /\ UNCHANGED <<ethUp, dbNet, monitor, core, web>>
        /\ crashes' = [crashes EXCEPT !.mqtt = @ + 1]
    BY <1>15 DEF Control!MqttCrash
  <2>2. crashes'.mqtt = crashes.mqtt + 1 /\ CountsOK'
    BY <1>2, <2>1 DEF CountsOK
  <2> QED BY <1>1, <2>1, <2>2
<1>16. CASE Control!WebRestart
  BY <1>16 DEF Control!WebRestart
<1>17. CASE \E user \in Users : Control!UserActs(user)
  BY <1>17 DEF LeftAlone
<1> QED BY <1>4, <1>5, <1>6, <1>7, <1>8, <1>9, <1>10, <1>11, <1>12, <1>13, <1>14, <1>15,
           <1>16, <1>17
        DEF ControlStep, Control!Next, Control!Boot, Control!Monitor

(* So what pays for copies does not shrink, and grows by one when the      *)
(* publisher loses what it has in hand.                                    *)
LEMMA ControlPaysCopies ==
  ASSUME LeftAlone, ControlInv, TurnInv, CountsOK, returns \in Nat, ControlStep
  PROVE  /\ Paid \in Int /\ Paid' \in Int
         /\ Paid' >= Paid
         /\ mqtt = "running" /\ mqtt' # "running" => Paid' >= Paid + 1
         /\ SecondSender => SecondSender'
         /\ TurnInv'
<1> DEFINE d == One(RestartDue)
           dn == One(RestartDue')
<1>1. /\ failures \in Nat /\ crashes.mqtt \in Nat /\ returns \in Nat
      /\ failures' = failures /\ crashes'.mqtt \in Nat /\ returns' \in Nat
  BY ControlTurns DEF CountsOK, ControlStep
<1>2. d \in 0 .. 1 /\ dn \in 0 .. 1
  BY DEF One
<1>3. /\ (RestartDue' => RestartDue) => dn <= d
      /\ RestartDue /\ ~ RestartDue' => d = 1 /\ dn = 0
  BY DEF One
<1>4. Paid = failures + crashes.mqtt + returns - d
  BY DEF Paid
<1>5. Paid' = failures' + crashes'.mqtt + returns' - dn
  BY DEF Paid
<1>6. RestartDue' => returns' > 0
  BY <1>1, ControlTurns DEF TurnInv
<1>7. SecondSender => SecondSender'
  BY <1>1, ControlTurns DEF SecondSender, TurnInv, ControlInv
<1>8. mqttRow' # 0 => mqtt' = "running"
  BY DEF ControlStep
<1>9. TurnInv'
  BY <1>6, <1>7, <1>8, ControlTurns DEF TurnInv, ControlStep, serialVars
<1>10. /\ Paid \in Int /\ Paid' \in Int
       /\ Paid' >= Paid
       /\ mqtt = "running" /\ mqtt' # "running" => Paid' >= Paid + 1
  <2> HIDE DEF d, dn
  <2> QED BY <1>1, <1>2, <1>3, <1>4, <1>5, ControlTurns
<1> QED BY <1>7, <1>9, <1>10

(* A delivery adds one copy at most, of the row delivered. *)
LEMMA ReceiveCounts ==
  ASSUME DataOK, NEW k \in Rows, Receive(k), NEW i \in Rows
  PROVE  delivered'[i] <= delivered[i] + One(i = k)
<1>1. delivered[k] \in 0 .. MaxCopies
  BY DEF DataOK
<1>2. DEFINE c == IF delivered[k] < MaxCopies THEN delivered[k] + 1 ELSE delivered[k]
<1>3. c <= delivered[k] + 1
  BY <1>1
<1>4. delivered' = [delivered EXCEPT ![k] = c]
  BY DEF Receive
<1>5. CASE i = k
  BY <1>3, <1>4, <1>5 DEF DataOK, One
<1>6. CASE i # k
  BY <1>4, <1>6 DEF DataOK, One
<1> QED BY <1>5, <1>6

(* A step of a sender costs a failure, or what is in hand keeps the        *)
(* account.                                                                *)
LEMMA SendersCopies ==
  ASSUME Faults = FALSE, ControlInv, IInv, IInv', CopiesInv, [Next]_vars, ~ ControlStep
  PROVE  CopiesInv'
<1> USE DeliveryAssumption DEF IInv
<1>1. UNCHANGED controlVars /\ returns' = returns
  BY DEF Next, MqttStep, SerialStep, Insert, MqttTake, MqttPublish, MqttSkipBroken,
         MqttFails, MqttMark, MqttMarkFails, SerialCheck, SerialTake, SerialRecheck, SerialPublish,
         SerialMark, SerialFails, vars, controlVars, histVars
<1>2. failures' \in Nat /\ (failures' = failures \/ failures' = failures + 1)
  BY DEF Next, MqttStep, SerialStep, Insert, MqttTake, MqttPublish, MqttSkipBroken,
         MqttFails, MqttMark, MqttMarkFails, SerialCheck, SerialTake, SerialRecheck, SerialPublish,
         SerialMark, SerialFails, vars, histVars, CopiesInv, CountsOK
<1>3. CountsOK'
  BY <1>1, <1>2 DEF CopiesInv, CountsOK, controlVars
<1>4. RestartDue' = RestartDue /\ SecondSender' = SecondSender
  BY <1>1 DEF controlVars, RestartDue, SwitchBackDue, SecondSender
<1>5. TurnInv'
  <2>1. mqttRow' # 0 => mqtt = "running"
    BY DEF Next, MqttStep, SerialStep, Insert, MqttTake, MqttPublish, MqttSkipBroken,
           MqttFails, MqttMark, MqttMarkFails, SerialCheck, SerialTake, SerialRecheck, SerialPublish,
           SerialMark, SerialFails, vars, mqttVars, CopiesInv, TurnInv
  <2>2. serialPc' # "idle" => SecondSender
    <3>1. CASE SerialCheck
      BY <3>1 DEF SerialCheck, ReadsOther, SecondSender, ControlInv
    <3>2. CASE ~ SerialCheck
      BY <3>2
      DEF Next, MqttStep, SerialStep, Insert, MqttTake, MqttPublish, MqttSkipBroken,
          MqttFails, MqttMark, MqttMarkFails, SerialTake, SerialRecheck, SerialPublish,
          SerialMark, SerialFails, vars, serialVars, CopiesInv, TurnInv
    <3> QED BY <3>1, <3>2
  <2> QED BY <1>1, <1>4, <2>1, <2>2 DEF CopiesInv, TurnInv, controlVars
<1>6. /\ Paid \in Int /\ Paid' = Paid + (failures' - failures)
      /\ failures \in Nat
  BY <1>1, <1>2, <1>4 DEF Paid, One, CopiesInv, CountsOK, DataOK, controlVars
<1> SUFFICES ASSUME NEW i \in Rows PROVE CopiesOf(i)'
  BY <1>3, <1>5 DEF CopiesInv
<1>7. /\ delivered[i] \in Nat /\ delivered'[i] \in Nat
      /\ CopiesOf(i)
  BY DEF DataOK, CopiesInv
<1>8. CASE \E k \in Rows : Insert(k)
  <2>1. row'[i] = "sent" <=> row[i] = "sent"
    BY <1>8 DEF Insert, DataOK
  <2>2. UNCHANGED <<delivered, failures, mqttSent, mqttRow, serialPc, serialRow>>
    BY <1>8 DEF Insert, mqttVars, serialVars, histVars
  <2>3. Unmarked(i)' = Unmarked(i) /\ Unpublished(i)' = Unpublished(i)
    BY <2>2 DEF Unmarked, Unpublished
  <2> QED BY <1>4, <1>6, <1>7, <2>1, <2>2, <2>3 DEF CopiesOf
<1>9. CASE MqttTake
  <2>1. /\ UNCHANGED <<row, delivered, failures, mqttSent, serialPc, serialRow>>
        /\ mqttRow = 0 /\ mqttRow' = Head /\ row[Head] = "pending" /\ mqttSent = FALSE
    BY <1>9, HeadIsFirst DEF MqttTake, serialVars, histVars, Pending, HandInv, DataOK
  <2>2. Unmarked(i)' = Unmarked(i)
    BY <2>1 DEF Unmarked, One
  <2>3. row[i] = "sent" => Unpublished(i)' = Unpublished(i)
    BY <2>1 DEF Unpublished, One, Rows
  <2> QED BY <1>4, <1>6, <1>7, <2>1, <2>2, <2>3 DEF CopiesOf
<1>10. CASE MqttPublish
  <2>1. /\ UNCHANGED <<row, failures, mqttRow, serialPc, serialRow>>
        /\ mqttRow \in Rows /\ mqttSent = FALSE /\ mqttSent' = TRUE
    BY <1>10 DEF MqttPublish, serialVars, histVars, DataOK, Rows
  <2>2. delivered'[i] <= delivered[i] + One(i = mqttRow)
    BY <1>10, <2>1, ReceiveCounts DEF MqttPublish
  <2>3. /\ Unmarked(i) \in Int
        /\ Unmarked(i)' = Unmarked(i) + One(i = mqttRow)
    BY <2>1 DEF Unmarked, One
  <2>4. /\ Unpublished(i) \in Int
        /\ Unpublished(i)' = Unpublished(i) - One(i = mqttRow)
    BY <2>1 DEF Unpublished, One
  <2> QED BY <1>4, <1>6, <1>7, <2>1, <2>2, <2>3, <2>4 DEF CopiesOf, One
<1>11. CASE MqttSkipBroken
  <2>1. /\ UNCHANGED <<row, delivered, failures, mqttSent, serialPc, serialRow>>
        /\ mqttRow' = 0 /\ mqttSent = FALSE
    BY <1>11 DEF MqttSkipBroken, serialVars, histVars, DataOK
  <2>2. Unmarked(i)' = Unmarked(i)
    BY <2>1 DEF Unmarked, One
  <2>3. /\ Unpublished(i) \in Int /\ Unpublished(i)' \in Int
        /\ Unpublished(i)' <= Unpublished(i)
    BY <2>1 DEF Unpublished, One, Rows
  <2> QED BY <1>4, <1>6, <1>7, <2>1, <2>2, <2>3 DEF CopiesOf, One
<1>12. CASE MqttFails
  <2>1. /\ UNCHANGED <<row, mqttSent, serialPc, serialRow>>
        /\ mqttRow' = 0 /\ mqttSent = FALSE /\ mqttRow \in Rows
        /\ \/ UNCHANGED <<delivered, failures>>
           \/ failures' = failures + 1 /\ delivered' = delivered
           \/ failures' = failures + 1 /\ Receive(mqttRow)
    BY <1>12 DEF MqttFails, serialVars, histVars, DataOK, Rows
  <2>2. Unmarked(i)' = Unmarked(i) /\ Unmarked(i) \in Int
    BY <2>1 DEF Unmarked, One
  <2>3. /\ Unpublished(i) \in Int /\ Unpublished(i)' \in Int
        /\ Unpublished(i)' = Unpublished(i) - One(i = mqttRow)
    BY <2>1 DEF Unpublished, One, Rows
  <2>4. \/ delivered'[i] = delivered[i] /\ failures' \in {failures, failures + 1}
        \/ failures' = failures + 1 /\ delivered'[i] <= delivered[i] + One(i = mqttRow)
    BY <2>1, ReceiveCounts
  <2> QED BY <1>4, <1>6, <1>7, <2>1, <2>2, <2>3, <2>4 DEF CopiesOf, One
<1>13. CASE MqttMark
  <2>1. /\ UNCHANGED <<delivered, failures, serialPc, serialRow>>
        /\ mqttRow' = 0 /\ mqttSent = TRUE /\ mqttSent' = FALSE /\ mqttRow \in Rows
        /\ row' = [row EXCEPT ![mqttRow] = "sent"]
    BY <1>13 DEF MqttMark, serialVars, histVars, DataOK, Rows
  <2>2. CASE i = mqttRow
    <3>1. row'[i] = "sent"
      BY <2>1, <2>2 DEF DataOK
    <3>2. /\ Unpublished(i) \in Int /\ Unpublished(i)' = Unpublished(i)
          /\ Unmarked(i) \in Int
          /\ Unmarked(i) + Unpublished(i) <= 1 + One(serialPc # "idle")
      BY <2>1, <2>2 DEF Unmarked, Unpublished, One, Rows
    <3>3. serialPc # "idle" => SecondSender
      BY DEF CopiesInv, TurnInv
    <3> QED BY <1>4, <1>6, <1>7, <2>1, <3>1, <3>2, <3>3 DEF CopiesOf, One
  <2>3. CASE i # mqttRow
    <3>1. row'[i] = row[i]
      BY <2>1, <2>3 DEF DataOK
    <3>2. /\ Unpublished(i)' = Unpublished(i)
          /\ Unmarked(i)' = Unmarked(i)
      BY <2>1, <2>3 DEF Unmarked, Unpublished, One, Rows
    <3> QED BY <1>4, <1>6, <1>7, <2>1, <3>1, <3>2 DEF CopiesOf
  <2> QED BY <2>2, <2>3
<1>21. CASE MqttMarkFails
  <2>1. /\ UNCHANGED <<row, delivered, serialPc, serialRow>>
        /\ mqttRow' = 0 /\ mqttSent = TRUE /\ mqttSent' = FALSE
        /\ failures' = failures + 1
    BY <1>21 DEF MqttMarkFails, serialVars, DataOK
  <2>2. /\ Unmarked(i) \in Int /\ Unmarked(i)' \in Int /\ Unmarked(i)' + 1 >= Unmarked(i)
    BY <2>1 DEF Unmarked, One
  <2>3. Unpublished(i) \in Int /\ Unpublished(i)' = Unpublished(i)
    BY <2>1 DEF Unpublished, One, Rows
  <2> QED BY <1>4, <1>6, <1>7, <2>1, <2>2, <2>3 DEF CopiesOf, One
<1>14. CASE SerialCheck
  <2>1. /\ UNCHANGED <<row, delivered, failures, mqttRow, mqttSent, serialRow>>
        /\ serialPc = "idle" /\ serialPc' = "take"
    BY <1>14 DEF SerialCheck, mqttVars, histVars
  <2>2. Unmarked(i)' = Unmarked(i) /\ Unpublished(i)' = Unpublished(i)
    BY <2>1 DEF Unmarked, Unpublished, One
  <2> QED BY <1>4, <1>6, <1>7, <2>1, <2>2 DEF CopiesOf
<1>15. CASE SerialTake
  <2>1. /\ UNCHANGED <<row, delivered, failures, mqttRow, mqttSent>>
        /\ serialPc = "take"
        /\ \/ serialPc' = "recheck" /\ serialRow' = Head /\ row[Head] = "pending"
           \/ serialPc' = "idle"
    BY <1>15, HeadIsFirst DEF SerialTake, mqttVars, histVars, Pending
  <2>2. Unmarked(i)' = Unmarked(i)
    BY <2>1 DEF Unmarked, One
  <2>3. row[i] = "sent" => Unpublished(i)' = Unpublished(i)
    BY <2>1 DEF Unpublished, One
  <2> QED BY <1>4, <1>6, <1>7, <2>1, <2>2, <2>3 DEF CopiesOf
<1>16. CASE SerialRecheck
  <2>1. /\ UNCHANGED <<row, delivered, failures, mqttRow, mqttSent, serialRow>>
        /\ serialPc = "recheck" /\ serialPc' \in {"mark", "publish"}
    BY <1>16 DEF SerialRecheck, mqttVars, histVars
  <2>2. /\ Unmarked(i) \in Int /\ Unmarked(i)' \in Int /\ Unmarked(i)' >= Unmarked(i)
    BY <2>1 DEF Unmarked, One
  <2>3. /\ Unpublished(i) \in Int /\ Unpublished(i)' \in Int
        /\ Unpublished(i)' <= Unpublished(i)
    BY <2>1 DEF Unpublished, One
  <2> QED BY <1>4, <1>6, <1>7, <2>1, <2>2, <2>3 DEF CopiesOf, One
<1>17. CASE SerialPublish
  <2>1. /\ UNCHANGED <<row, failures, mqttRow, mqttSent, serialRow>>
        /\ serialPc = "publish" /\ serialPc' = "mark" /\ serialRow \in Rows
        /\ Receive(serialRow) \/ delivered' = delivered
    BY <1>17 DEF SerialPublish, mqttVars, HandInv, DataOK, Rows
  <2>2. delivered'[i] <= delivered[i] + One(i = serialRow)
    BY <1>7, <2>1, ReceiveCounts DEF One
  <2>3. /\ Unmarked(i) \in Int
        /\ Unmarked(i)' = Unmarked(i) + One(i = serialRow)
    BY <2>1 DEF Unmarked, One
  <2>4. /\ Unpublished(i) \in Int
        /\ Unpublished(i)' = Unpublished(i) - One(i = serialRow)
    BY <2>1 DEF Unpublished, One
  <2> QED BY <1>4, <1>6, <1>7, <2>1, <2>2, <2>3, <2>4 DEF CopiesOf, One
<1>18. CASE SerialFails
  <2>1. /\ UNCHANGED <<row, delivered, mqttRow, mqttSent>>
        /\ serialPc # "idle" /\ serialPc' = "idle" /\ failures' = failures + 1
    BY <1>18 DEF SerialFails, mqttVars
  <2>2. /\ Unmarked(i) \in Int /\ Unmarked(i)' \in Int /\ Unmarked(i)' + 1 >= Unmarked(i)
    BY <2>1 DEF Unmarked, One
  <2>3. /\ Unpublished(i) \in Int /\ Unpublished(i)' \in Int
        /\ Unpublished(i)' <= Unpublished(i)
    BY <2>1 DEF Unpublished, One
  <2> QED BY <1>4, <1>6, <1>7, <2>1, <2>2, <2>3 DEF CopiesOf, One
<1>19. CASE SerialMark
  <2>1. /\ UNCHANGED <<delivered, failures, mqttRow, mqttSent>>
        /\ serialPc = "mark" /\ serialPc' = "idle" /\ serialRow \in Rows
        /\ row' = [row EXCEPT ![serialRow] = "sent"]
    BY <1>19 DEF SerialMark, mqttVars, histVars, HandInv, DataOK, Rows
  <2>2. SecondSender
    BY <2>1 DEF CopiesInv, TurnInv
  <2>3. CASE i = serialRow
    <3>1. row'[i] = "sent"
      BY <2>1, <2>3 DEF DataOK
    <3>2. /\ Unpublished(i) \in Int /\ Unpublished(i)' = Unpublished(i)
          /\ Unmarked(i) \in Int
          /\ Unmarked(i) + Unpublished(i) <= 2
      BY <2>1, <2>3 DEF Unmarked, Unpublished, One
    <3> QED BY <1>4, <1>6, <1>7, <2>1, <2>2, <3>1, <3>2 DEF CopiesOf, One
  <2>4. CASE i # serialRow
    <3>1. row'[i] = row[i]
      BY <2>1, <2>4 DEF DataOK
    <3>2. Unpublished(i)' = Unpublished(i) /\ Unmarked(i)' = Unmarked(i)
      BY <2>1, <2>4 DEF Unmarked, Unpublished, One
    <3> QED BY <1>4, <1>6, <1>7, <2>1, <3>1, <3>2 DEF CopiesOf
  <2> QED BY <2>3, <2>4
<1>20. CASE UNCHANGED vars
  <2>1. UNCHANGED <<row, delivered, failures, mqttRow, mqttSent, serialPc, serialRow>>
    BY <1>20 DEF vars
  <2>2. Unmarked(i)' = Unmarked(i) /\ Unpublished(i)' = Unpublished(i)
    BY <2>1 DEF Unmarked, Unpublished
  <2> QED BY <1>4, <1>6, <1>7, <2>1, <2>2 DEF CopiesOf
<1> QED BY <1>8, <1>9, <1>10, <1>11, <1>12, <1>13, <1>14, <1>15, <1>16, <1>17, <1>18, <1>19,
           <1>20, <1>21
        DEF Next, MqttStep, SerialStep

(* A step of the control plane keeps the account: a publisher that loses   *)
(* what it has in hand is paid for.                                        *)
LEMMA ControlCopies ==
  ASSUME LeftAlone, ControlInv, IInv, IInv', CopiesInv, ControlStep
  PROVE  CopiesInv'
<1> USE DEF IInv
<1>1. returns \in Nat /\ TurnInv /\ CountsOK
  BY DEF DataOK, CopiesInv
<1>2. CountsOK' /\ TurnInv'
  BY <1>1, ControlTurns, ControlPaysCopies
<1>3. /\ Paid \in Int /\ Paid' \in Int /\ Paid' >= Paid
      /\ mqtt = "running" /\ mqtt' # "running" => Paid' >= Paid + 1
      /\ One(SecondSender') >= One(SecondSender)
  BY <1>1, ControlPaysCopies DEF One
<1>4. ASSUME NEW i \in Rows PROVE CopiesOf(i)'
  <2>1. /\ UNCHANGED <<row, delivered, serialPc, serialRow>>
        /\ mqttRow' = IF mqtt' = "running" THEN mqttRow ELSE 0
        /\ mqttSent' = (mqtt' = "running" /\ mqttSent)
        /\ delivered[i] \in Nat /\ CopiesOf(i)
    BY DEF ControlStep, serialVars, DataOK, CopiesInv
  <2>2. One(SecondSender) \in Int /\ One(SecondSender') \in Int
    BY DEF One
  <2>3. CASE mqtt' = "running"
    <3>1. mqttRow' = mqttRow /\ mqttSent' = mqttSent
      BY <2>1, <2>3 DEF DataOK
    <3>2. /\ Unmarked(i)' = Unmarked(i) /\ Unpublished(i)' = Unpublished(i)
          /\ Unmarked(i) \in Int /\ Unpublished(i) \in Int
      BY <2>1, <3>1 DEF Unmarked, Unpublished, One
    <3> QED BY <1>3, <2>1, <2>2, <3>2 DEF CopiesOf
  <2>4. CASE mqtt' # "running"
    <3>1. mqttRow' = 0 /\ ~ mqttSent' /\ i # 0
      <4>1. mqttRow' = 0 /\ i # 0
        BY <2>1, <2>4, DeliveryAssumption DEF Rows
      <4>2. ~ mqttSent'
        BY <2>1, <2>4, Zenon
      <4> QED BY <4>1, <4>2
    <3>2. /\ Unmarked(i) \in Int /\ Unmarked(i)' \in Int
          /\ Unmarked(i) <= Unmarked(i)' + One(mqttRow # 0)
          /\ Unpublished(i) \in Int /\ Unpublished(i)' \in Int
          /\ Unpublished(i)' <= Unpublished(i)
      BY <2>1, <3>1 DEF Unmarked, Unpublished, One
    <3>3. mqttRow # 0 => Paid' >= Paid + 1
      BY <1>1, <1>3, <2>4 DEF TurnInv
    <3> QED BY <1>3, <2>1, <2>2, <3>2, <3>3 DEF CopiesOf, One
  <2> QED BY <2>3, <2>4
<1> QED BY <1>2, <1>4 DEF CopiesInv

(* On a device left alone in the ethernet mode a payload arrives once, and *)
(* once more only for a lost answer, a crash of the publisher, a return of *)
(* the link or the failover that put the other sender to work              *)
(* (publish_data, CheckSignalStrength.on_event, mark_as_sent).             *)
THEOREM CopiesAlwaysPaidFor == LeftAlone => (Spec => []CopiesPaidFor)
<1> SUFFICES ASSUME LeftAlone PROVE Spec => []CopiesPaidFor
  OBVIOUS
<1> DEFINE Inv == ControlInv /\ CopiesInv
<1>1. Init => Inv
  <2> SUFFICES ASSUME Init PROVE Inv
    OBVIOUS
  <2>1. /\ ControlInv /\ ~ RestartDue /\ web = "idle"
        /\ crashes = [core |-> 0, mqtt |-> 0] /\ monitor # "restart_mqtt"
    BY DEF LeftAlone, Init, Control!Init, RestartDue, SwitchBackDue, ControlInv
  <2>2. failures = 0 /\ returns = 0 /\ mqttRow = 0 /\ serialPc = "idle"
    BY DEF Init
  <2>3. TurnInv /\ CountsOK
    BY <2>1, <2>2 DEF TurnInv, CountsOK
  <2>4. Paid = 0
    BY <2>1, <2>2 DEF Paid, One
  <2>5. ASSUME NEW i \in Rows PROVE CopiesOf(i)
    <3>1. delivered[i] = 0 /\ row[i] = "none"
      BY DEF Init
    <3>2. Unmarked(i) = 0
      BY <2>2 DEF Unmarked, One, Init
    <3> QED BY <2>4, <3>1, <3>2 DEF CopiesOf
  <2> QED BY <2>1, <2>3, <2>5 DEF CopiesInv
<1>2. IInv /\ IInv' /\ Inv /\ [Next]_vars => Inv'
  BY ControlInvStep, SendersCopies, ControlCopies DEF LeftAlone
<1>3. IInv /\ Inv => CopiesPaidFor
  <2> SUFFICES ASSUME IInv, CopiesInv, NEW i \in Rows
               PROVE  delivered[i] <= 1 + failures + crashes.mqtt + returns
                          + (IF dbNet = "gsm" \/ returns > 0 THEN 1 ELSE 0)
    BY DEF CopiesPaidFor
  <2>1. /\ delivered[i] \in Nat /\ returns \in Nat /\ failures \in Nat
        /\ crashes.mqtt \in Nat /\ CopiesOf(i)
    BY DEF IInv, DataOK, CopiesInv, CountsOK
  <2>2. Paid \in Int /\ Paid <= failures + crashes.mqtt + returns
    BY <2>1 DEF Paid, One
  <2>3. Unpublished(i) \in Nat
    BY DEF Unpublished, One
  <2>4. Unmarked(i) \in Nat /\ Unmarked(i) <= 1 + One(serialPc # "idle")
    BY DEF Unmarked, One
  <2>5. serialPc # "idle" => SecondSender
    BY DEF CopiesInv, TurnInv
  <2>6. delivered[i] <= Paid + 1 + One(SecondSender)
    BY <2>1, <2>2, <2>3, <2>4, <2>5 DEF CopiesOf, One
  <2> QED BY <2>1, <2>2, <2>6 DEF SecondSender, One
<1> QED BY <1>1, <1>2, <1>3, AlwaysIInv, PTL DEF Spec
=============================================================================
