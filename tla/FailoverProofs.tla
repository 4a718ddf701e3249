--------------------------- MODULE FailoverProofs ---------------------------
(***************************************************************************)
(* The control plane proved for every value of its constants.              *)
(*                                                                         *)
(* Failover, for every threshold, every initial mode and any number of     *)
(* crashes: the switch-back is never early; with no user and no failing    *)
(* call, the monitor's flags and the database agree; and with users at the *)
(* web page only, an ethernet device is not left without a sender.         *)
(*                                                                         *)
(* ModemProgram, which runs beside it, for any number of faults, edits and *)
(* orders: its types, that pppd is put down when a command is over, and    *)
(* that a reboot is ordered or is the repetition of one whose              *)
(* acknowledgement was lost.                                               *)
(***************************************************************************)
EXTENDS ModemProgram, TLAPS

(* Every start of the device has the right types.                          *)
LEMMA TypeInit == Init => TypeOK
<1> SUFFICES ASSUME Init PROVE TypeOK
  OBVIOUS
<1>1. crashes \in [core : 0 .. MaxCoreCrashes, mqtt : 0 .. MaxMqttCrashes]
  BY ConstantsAssumption DEF Init
<1>2. /\ stable \in 0 .. StableThreshold - 1
      /\ upPolls \in 0 .. StableThreshold
  BY ConstantsAssumption DEF Init
<1> QED BY <1>1, <1>2, ConstantsAssumption DEF Init, TypeOK, Modes

(* Every step of the core, the publisher and the user keeps the types.     *)
LEMMA TypeStep == TypeOK /\ [Next]_vars => TypeOK'
<1> SUFFICES ASSUME TypeOK, [Next]_vars PROVE TypeOK'
  OBVIOUS
<1> USE ConstantsAssumption DEF TypeOK, Modes, WriteNet, RestartMqtt,
        coreVars, monitorVars, userVars
<1>1. CASE EthToggle
  BY <1>1 DEF EthToggle
<1>2. CASE Boot
  BY <1>2 DEF Boot, CoreBootRead, CoreBootCheck, CoreBootOverride, CoreBootStart
<1>3. CASE CoreCrash
  <2>1. crashes' \in [core : 0 .. MaxCoreCrashes, mqtt : 0 .. MaxMqttCrashes]
    BY <1>3 DEF CoreCrash
  <2>2. stable' \in 0 .. StableThreshold - 1 /\ upPolls' \in 0 .. StableThreshold
    BY <1>3 DEF CoreCrash
  <2> QED BY <1>3, <2>1, <2>2 DEF CoreCrash
<1>4. CASE Monitor
  <2>1. CASE MonitorPoll
    <3>1. upPolls' \in 0 .. StableThreshold
      BY <2>1 DEF MonitorPoll, CountPoll
    <3>2. stable' \in 0 .. StableThreshold - 1
      BY <2>1 DEF MonitorPoll
    <3>3. UNCHANGED <<ethUp, dbNet, core, bootNet, mqtt, web, chosen, crashes>>
      BY <2>1 DEF MonitorPoll
    <3>4. /\ network_type' \in {1, 2}
          /\ monitor' \in {"off", "sleep", "db_gsm", "db_ethernet", "restart_mqtt"}
          /\ active' \in BOOLEAN
      BY <2>1 DEF MonitorPoll
    <3> QED BY <3>1, <3>2, <3>3, <3>4
  <2>2. CASE MonitorDbGsm \/ MonitorDbEthernet \/ MonitorRestartMqtt
    BY <2>2 DEF MonitorDbGsm, MonitorDbEthernet, MonitorRestartMqtt
  <2> QED BY <1>4, <2>1, <2>2 DEF Monitor
<1>5. CASE MqttStart \/ MqttCrash
  BY <1>5 DEF MqttStart, MqttCrash
<1>6. CASE (\E user \in Users : UserActs(user)) \/ WebRestart
  BY <1>6 DEF UserActs, LcdToggle, WebSet, WebRestart
<1>7. CASE UNCHANGED vars
  BY <1>7 DEF vars
<1> QED BY <1>1, <1>2, <1>3, <1>4, <1>5, <1>6, <1>7 DEF Next

(* The flags, the database cell and the containers keep to their types     *)
(* (TLChronosProMAIN_391.py, thingsboard_mqtt_publisher.py, seple.py).     *)
THEOREM TypeCorrect == Spec => []TypeOK
BY TypeInit, TypeStep, PTL DEF Spec
-----------------------------------------------------------------------------
(* No step lets stable run ahead of the polls that saw eth0 up.            *)
LEMMA StableStep == TypeOK /\ StableInv /\ [Next]_vars => StableInv'
<1> SUFFICES ASSUME TypeOK, StableInv, [Next]_vars PROVE StableInv'
  OBVIOUS
<1> USE ConstantsAssumption DEF TypeOK, StableInv, coreVars, monitorVars, userVars
<1>1. CASE EthToggle \/ Boot
  BY <1>1 DEF EthToggle, Boot, CoreBootRead, CoreBootCheck, CoreBootOverride, CoreBootStart
<1>2. CASE CoreCrash
  BY <1>2 DEF CoreCrash
<1>3. CASE Monitor
  <2>1. CASE MonitorPoll
    BY <2>1 DEF MonitorPoll, CountPoll
  <2>2. CASE MonitorDbGsm \/ MonitorDbEthernet \/ MonitorRestartMqtt
    BY <2>2 DEF MonitorDbGsm, MonitorDbEthernet, MonitorRestartMqtt
  <2> QED BY <1>3, <2>1, <2>2 DEF Monitor
<1>4. CASE MqttStart \/ MqttCrash
  BY <1>4 DEF MqttStart, MqttCrash
<1>5. CASE (\E user \in Users : UserActs(user)) \/ WebRestart
  BY <1>5 DEF UserActs, LcdToggle, WebSet, WebRestart
<1>6. CASE UNCHANGED vars
  BY <1>6 DEF vars
<1> QED BY <1>1, <1>2, <1>3, <1>4, <1>5, <1>6 DEF Next

(* No flapping, crash, user or failing call lets the monitor go back to    *)
(* ethernet before StableThreshold polls in a row saw the link up          *)
(* (_run_failover_monitor, "prevent flip-flopping on a flapping link").    *)
THEOREM SwitchBackAlwaysNeedsStability == Spec => SwitchBackNeedsStability
<1> DEFINE A == monitor # "db_ethernet" /\ monitor' = "db_ethernet"
                   => upPolls' = StableThreshold
<1>1. Init => StableInv
  BY DEF Init, StableInv
<1>2. TypeOK /\ StableInv /\ [Next]_vars => A
  <2> SUFFICES ASSUME TypeOK, StableInv, [Next]_vars,
                      monitor # "db_ethernet", monitor' = "db_ethernet"
               PROVE  upPolls' = StableThreshold
    OBVIOUS
  <2>1. MonitorPoll
    BY DEF Next, EthToggle, Boot, CoreBootRead, CoreBootCheck, CoreBootOverride,
           CoreBootStart, CoreCrash, Monitor, MonitorDbGsm, MonitorDbEthernet,
           MonitorRestartMqtt, MqttStart, MqttCrash, UserActs, LcdToggle, WebSet, WebRestart,
           monitorVars, vars
  <2>2. ethUp /\ stable + 1 >= StableThreshold
    BY <2>1 DEF MonitorPoll
  <2> QED BY <2>1, <2>2, ConstantsAssumption DEF MonitorPoll, CountPoll, TypeOK, StableInv
<1>3. TypeOK /\ StableInv /\ [Next]_vars => [A]_vars
  BY <1>2
<1> QED BY <1>1, <1>3, StableStep, TypeCorrect, PTL DEF Spec, SwitchBackNeedsStability
-----------------------------------------------------------------------------
(* Each step keeps the flags of the monitor and the database in agreement, *)
(* until the first act of a user.                                          *)
LEMMA AgreeStep ==
  ASSUME Faults = FALSE, TypeOK, AgreeInv, [Next]_vars
  PROVE  AgreeInv'
<1> USE DEF TypeOK, AgreeInv, MonitorAgrees, MonitorWrites, BootReads,
        WriteNet, RestartMqtt, Modes, coreVars, monitorVars, userVars
<1>1. CASE EthToggle
  BY <1>1 DEF EthToggle
<1>2. CASE Boot
  <2>1. CASE CoreBootRead
    BY <2>1 DEF CoreBootRead
  <2>2. CASE CoreBootCheck
    BY <2>2 DEF CoreBootCheck
  <2>3. CASE CoreBootOverride
    BY <2>3 DEF CoreBootOverride
  <2>4. CASE CoreBootStart
    BY <2>4 DEF CoreBootStart
  <2> QED BY <1>2, <2>1, <2>2, <2>3, <2>4 DEF Boot
<1>3. CASE CoreCrash
  BY <1>3 DEF CoreCrash
<1>4. CASE Monitor
  <2>1. CASE MonitorPoll
    <3>1. UNCHANGED <<dbNet, core, bootNet, chosen>> /\ monitor = "sleep"
      BY <2>1 DEF MonitorPoll
    <3>2. CASE monitor' = "sleep"
      BY <2>1, <3>1, <3>2 DEF MonitorPoll
    <3>3. CASE monitor' = "db_gsm"
      BY <2>1, <3>1, <3>3 DEF MonitorPoll
    <3>4. CASE monitor' = "db_ethernet"
      BY <2>1, <3>1, <3>4 DEF MonitorPoll
    <3> QED BY <2>1, <3>2, <3>3, <3>4 DEF MonitorPoll
  <2>2. CASE MonitorDbGsm
    BY <2>2 DEF MonitorDbGsm
  <2>3. CASE MonitorDbEthernet
    BY <2>3 DEF MonitorDbEthernet
  <2>4. CASE MonitorRestartMqtt
    BY <2>4 DEF MonitorRestartMqtt
  <2> QED BY <1>4, <2>1, <2>2, <2>3, <2>4 DEF Monitor
<1>5. CASE MqttStart \/ MqttCrash
  BY <1>5 DEF MqttStart, MqttCrash
<1>6. CASE (\E user \in Users : UserActs(user)) \/ WebRestart
  BY <1>6 DEF UserActs, LcdToggle, WebSet, WebRestart
<1>7. CASE UNCHANGED vars
  BY <1>7 DEF vars
<1> QED BY <1>1, <1>2, <1>3, <1>4, <1>5, <1>6, <1>7 DEF Next

(* Where no database call fails: whatever step a crash of the core         *)
(* interrupts, whenever the monitor sleeps again its flag, the core's      *)
(* network_type and the database agree, until the first act of a user      *)
(* (_run_failover_monitor, boot of TLChronosProMAIN_391.py).               *)
THEOREM MonitorAlwaysAgrees == Faults = FALSE => (Spec => []MonitorAgrees)
<1> SUFFICES ASSUME Faults = FALSE PROVE Spec => []MonitorAgrees
  OBVIOUS
<1>1. Init => AgreeInv
  BY DEF Init, AgreeInv, MonitorAgrees, MonitorWrites, BootReads
<1>2. TypeOK /\ AgreeInv /\ [Next]_vars => AgreeInv'
  BY AgreeStep
<1>3. AgreeInv => MonitorAgrees
  BY DEF AgreeInv, MonitorAgrees
<1> QED BY <1>1, <1>2, <1>3, TypeCorrect, PTL DEF Spec
-----------------------------------------------------------------------------
(* What makes SomeoneSendsInModeB inductive: who writes "ethernet" into    *)
(* the database has still to restart the publisher if it has exited, and a *)
(* boot that overrides a choice of GSM that is no longer one writes what   *)
(* is already there.                                                       *)
SendersInv ==
    /\ core # "up" => monitor = "off"
    /\ crashes.core = 0 /\ chosen # "gsm" =>
          /\ core # "up" => dbNet = "ethernet"
          /\ dbNet = "ethernet" =>
                mqtt # "exited" \/ web = "restart" \/ monitor = "restart_mqtt"

LEMMA SendersStep ==
  ASSUME Faults = FALSE, Users \subseteq {"web"}, TypeOK, SendersInv, [Next]_vars
  PROVE  SendersInv'
<1> USE DEF TypeOK, SendersInv, WriteNet, RestartMqtt, Modes, coreVars, monitorVars, userVars
<1>1. CASE EthToggle
  BY <1>1 DEF EthToggle
<1>2. CASE Boot
  BY <1>2 DEF Boot, CoreBootRead, CoreBootCheck, CoreBootOverride, CoreBootStart
<1>3. CASE CoreCrash
  <2>1. crashes'.core = crashes.core + 1 /\ crashes.core \in Nat
    BY <1>3, ConstantsAssumption DEF CoreCrash
  <2>2. crashes'.core # 0
    BY <2>1
  <2> QED BY <1>3, <2>2 DEF CoreCrash
<1>4. CASE Monitor
  <2>1. CASE MonitorPoll
    BY <2>1 DEF MonitorPoll
  <2>2. CASE MonitorDbGsm \/ MonitorDbEthernet \/ MonitorRestartMqtt
    BY <2>2 DEF MonitorDbGsm, MonitorDbEthernet, MonitorRestartMqtt
  <2> QED BY <1>4, <2>1, <2>2 DEF Monitor
<1>5. CASE MqttStart
  BY <1>5 DEF MqttStart
<1>6. CASE MqttCrash
  <2>1. crashes'.core = crashes.core /\ mqtt' = "starting"
    BY <1>6 DEF MqttCrash
  <2> QED BY <1>6, <2>1 DEF MqttCrash
<1>7. CASE \E user \in Users : UserActs(user)
  <2>1. PICK mode \in Modes : WebSet(mode)
    BY <1>7 DEF UserActs
  <2> QED BY <2>1 DEF WebSet
<1>8. CASE WebRestart
  BY <1>8 DEF WebRestart
<1>9. CASE UNCHANGED vars
  BY <1>9 DEF vars
<1> QED BY <1>1, <1>2, <1>3, <1>4, <1>5, <1>6, <1>7, <1>8, <1>9 DEF Next

(* A device configured for ethernet whose calls do not fail and whose mode *)
(* is changed at the web page only: until its core restarts, and unless    *)
(* GSM is what the user asked for, the publisher is not left exited while  *)
(* the database says ethernet (_run_failover_monitor, seple.py).           *)
THEOREM SomeoneAlwaysSendsInModeB ==
  Faults = FALSE /\ InitialModes = {"ethernet"} /\ Users \subseteq {"web"}
    => (Spec => []SomeoneSendsInModeB)
<1> SUFFICES ASSUME Faults = FALSE, InitialModes = {"ethernet"}, Users \subseteq {"web"}
             PROVE  Spec => []SomeoneSendsInModeB
  OBVIOUS
<1>1. Init => SendersInv
  BY DEF Init, SendersInv
<1>2. TypeOK /\ SendersInv /\ [Next]_vars => SendersInv'
  BY SendersStep
<1>3. SendersInv => SomeoneSendsInModeB
  BY DEF SendersInv, SomeoneSendsInModeB, SomeoneSends
<1> QED BY <1>1, <1>2, <1>3, TypeCorrect, PTL DEF Spec

-----------------------------------------------------------------------------
(* The modem program *)

(* What a step of ModemNext can be, for the variables of the modem.        *)
ModemActs ==
    \/ Loop \/ Command \/ Fetch \/ Edit \/ Heartbeat
    \/ Kill \/ PppEnds \/ SessionDrops \/ \E command \in Commands : Order(command)

LEMMA ModemCases ==
  ASSUME [ModemNext]_allVars
  PROVE  UNCHANGED modemVars \/ (fitted' = fitted /\ ModemActs)
BY DEF ModemNext, Program, FetchStep, EditStep, Payloads, Mishap, LinkStep, ControlStep,
       allVars, ModemActs

Tallies == [faults : Nat, orders : Nat, rebootOrders : Nat, reboots : Nat, lostAcks : Nat]

(* A fault, and what a step counts, keep the counters natural numbers.     *)
LEMMA CountTypes ==
  ASSUME ModemTypeOK
  PROVE  /\ \A what \in {"faults", "reboots"} : Count(what) => tally' \in Tallies
         /\ Fault => /\ tally' \in Tallies
                     /\ tally'.reboots = tally.reboots
                     /\ tally'.rebootOrders = tally.rebootOrders
                     /\ tally'.lostAcks = tally.lostAcks
BY DEF ModemTypeOK, Count, Fault, Tallies

(* The states go on along the table, and so do the events.                 *)
LEMMA TableTypes ==
  /\ DOMAIN Awaits = {"InitializeModem", "CheckNetworkStatus", "CheckSignalStrength",
                      "SendPayload", "ConfirmDelivery"}
  /\ \A s \in DOMAIN Awaits : Successor[s] \in States
  /\ \A e \in Events : AfterEvent[e] \in Events
BY DEF Awaits, Successor, AfterEvent, States, Events

(* A state that goes on stays one of the table.                            *)
LEMMA GoOnTypes ==
  ASSUME ModemTypeOK
  PROVE  /\ FireEvent => event' \in Events
         /\ state \in DOMAIN Awaits /\ GoOn => state' \in States /\ event' \in Events
         /\ PortRaises => state' \in States /\ event' \in Events /\ tally' \in Tallies
<1>1. FireEvent => event' \in Events
  BY TableTypes DEF ModemTypeOK, FireEvent
<1>2. state \in DOMAIN Awaits /\ GoOn => state' \in States
  BY TableTypes DEF GoOn
<1>3. PortRaises => state' \in States /\ tally' \in Tallies
  BY CountTypes DEF PortRaises, States, Tallies, ModemTypeOK
<1> QED BY <1>1, <1>2, <1>3 DEF GoOn, PortRaises

(* A command is carried out in the state SendPayload only.                 *)
InCommand == cmd # "none" => state = "SendPayload"

(* Every start of the program has the right types.                         *)
LEMMA ModemTypeInit == ModemInit => ModemTypeOK /\ InCommand
<1> SUFFICES ASSUME ModemInit PROVE ModemTypeOK /\ InCommand
  OBVIOUS
<1>1. fitted \in BOOLEAN
  BY ModemAssumption DEF ModemInit
<1>2. tally \in [faults : Nat, orders : Nat, rebootOrders : Nat, reboots : Nat, lostAcks : Nat]
  BY DEF ModemInit
<1>3. /\ state = "startup" /\ event \in Events /\ cmd = "none" /\ step = "none"
      /\ config = 0 /\ snapshot = 0 /\ payload = 0 /\ cloud = 0 /\ care = "done"
  BY DEF ModemInit, Events
<1>4. /\ use_modem = FALSE /\ ppp = FALSE /\ session = FALSE /\ waiting = FALSE
      /\ send_needed = TRUE /\ orphaned = FALSE /\ forgone = FALSE
  BY DEF ModemInit
<1> QED BY <1>1, <1>2, <1>3, <1>4 DEF ModemTypeOK, InCommand

(* Every step of the loop, of a command and of the world around keeps      *)
(* them.                                                                   *)
LEMMA ModemTypeStep ==
  ModemTypeOK /\ InCommand /\ [ModemNext]_allVars => ModemTypeOK' /\ InCommand'
<1> SUFFICES ASSUME ModemTypeOK, InCommand, [ModemNext]_allVars
             PROVE  ModemTypeOK' /\ InCommand'
  OBVIOUS
<1> USE DEF ModemTypeOK, InCommand, cmdVars, lineVars, syncVars, loopVars
<1>1. CASE UNCHANGED modemVars
  BY <1>1 DEF modemVars
<1>2. SUFFICES ASSUME fitted' = fitted, ModemActs PROVE ModemTypeOK' /\ InCommand'
  BY <1>1, ModemCases
<1>3. CASE Loop
  <2>1. CASE Startup
    BY <1>2, <2>1 DEF Startup, States, Events
  <2>2. CASE Ignore \/ LeaveErrorState
    BY <1>2, <2>2, GoOnTypes DEF Ignore, LeaveErrorState, Looping, States
  <2>3. CASE SetUp
    <3>1. session' \in BOOLEAN /\ cmd = "none"
      BY <2>3 DEF SetUp, ResetDevice, Looping
    <3>2. state' \in States /\ event' \in Events /\ tally' \in Tallies
      BY <2>3, GoOnTypes DEF SetUp, States, Tallies
    <3> QED BY <1>2, <2>3, <3>1, <3>2 DEF SetUp, Tallies
  <2>4. CASE Initialize \/ CheckNetwork
    BY <1>2, <2>4, GoOnTypes DEF Initialize, CheckNetwork, AskModem, Acts, Looping, Tallies
  <2>5. CASE Recheck
    BY <1>2, <2>5, GoOnTypes DEF Recheck, Acts, Looping
  <2>6. CASE SendRow
    <3>1. session' \in BOOLEAN /\ waiting' \in BOOLEAN /\ cmd = "none"
      BY <2>6 DEF SendRow, CheckMqttStatus, ConnectToServer, Acts, Looping
    <3>2. tally' \in Tallies
      BY <2>6, GoOnTypes, CountTypes DEF SendRow, CheckMqttStatus, ConnectToServer, Tallies
    <3>3. state' \in States /\ event' \in Events
      BY <2>6, GoOnTypes DEF SendRow, Acts
    <3> QED BY <1>2, <2>6, <3>1, <3>2, <3>3 DEF SendRow, Tallies
  <2>7. CASE Poll
    <3>1. tally' \in Tallies
      BY <2>7, CountTypes DEF Poll, Tallies
    <3>2. \/ GoOn /\ UNCHANGED cmdVars
          \/ /\ cmd' = care /\ step' \in {"read", "pon"} /\ use_modem' \in BOOLEAN
             /\ UNCHANGED loopVars
      BY <2>7 DEF Poll
    <3> QED BY <1>2, <2>7, <3>1, <3>2, GoOnTypes DEF Poll, Acts, Looping, Tallies
  <2> QED BY <1>3, <2>1, <2>2, <2>3, <2>4, <2>5, <2>6, <2>7 DEF Loop
(* A command that is over goes on with the loop. *)
<1>4. ASSUME cmd # "none", Return
      PROVE  /\ state' \in States /\ event' \in Events
             /\ cmd' = "none" /\ step' = "none" /\ use_modem' = FALSE
  BY <1>4, GoOnTypes, TableTypes DEF Return
<1>5. CASE Command
  <2>1. CASE Read
    <3>1. cmd # "none" /\ UNCHANGED <<lineVars, waiting, config, payload, send_needed, cloud,
                                      forgone, care, tally>>
      BY <2>1 DEF Read, At
    <3>2. CASE Return /\ UNCHANGED snapshot
      BY <1>2, <1>4, <3>1, <3>2
    <3>3. CASE /\ snapshot' = IF cmd = "done" THEN config ELSE snapshot
               /\ use_modem' = (dbNet = "gsm")
               /\ step' = IF dbNet = "gsm" THEN "pon" ELSE "net"
               /\ UNCHANGED <<cmd, loopVars>>
      <4>1. use_modem' \in BOOLEAN
        BY <3>3
      <4>2. step' \in {"pon", "net"} /\ snapshot' \in Nat
        BY <3>3
      <4> QED BY <1>2, <3>1, <3>3, <4>1, <4>2
    <3> QED BY <2>1, <3>2, <3>3 DEF Read
  <2>2. CASE Pon
    BY <1>2, <2>2, CountTypes DEF Pon, At, Goto, Tallies
  <2>3. CASE Net
    <3>1. tally' \in Tallies /\ send_needed' \in BOOLEAN
      BY <2>3, CountTypes DEF Net, Tallies
    <3> QED BY <1>2, <2>3, <3>1 DEF Net, Goto, Tallies
  <2>4. CASE ReadConfig
    BY <1>2, <2>4 DEF ReadConfig, Goto
  <2>5. CASE Publish
    <3>1. send_needed' \in BOOLEAN /\ cloud' \in Nat
      BY <2>5 DEF Publish
    <3>2. tally' \in Tallies
      BY <2>5, CountTypes DEF Publish, Tallies
    <3> QED BY <1>2, <2>5, <3>1, <3>2 DEF Publish, Goto, Tallies
  <2>6. CASE SendForgone
    BY <1>2, <2>6, CountTypes DEF SendForgone, Goto, Tallies
  <2>7. CASE Acknowledge
    <3>1. care' \in {"done"} \cup Commands
      BY <2>7 DEF Acknowledge
    <3>2. tally' \in Tallies
      <4>1. CASE UNCHANGED tally
        BY <4>1 DEF Tallies
      <4>2. CASE tally' = [tally EXCEPT !.faults = IF Reaches THEN @ + 1 ELSE @,
                                        !.lostAcks = IF cmd = "reboot" THEN @ + 1 ELSE @]
        <5>1. PICK f \in Nat, l \in Nat :
                 tally' = [tally EXCEPT !.faults = f, !.lostAcks = l]
          <6>1. (IF Reaches THEN tally.faults + 1 ELSE tally.faults) \in Nat
            OBVIOUS
          <6>2. (IF cmd = "reboot" THEN tally.lostAcks + 1 ELSE tally.lostAcks) \in Nat
            OBVIOUS
          <6> QED BY <4>2, <6>1, <6>2
        <5> QED BY <5>1 DEF Tallies
      <4> QED BY <2>7, <4>1, <4>2 DEF Acknowledge
    <3> QED BY <1>2, <2>7, <3>1, <3>2 DEF Acknowledge, Goto, Tallies
  <2>8. CASE Poff
    <3>1. /\ cmd # "none" /\ session' \in BOOLEAN
          /\ UNCHANGED <<orphaned, waiting, syncVars, care, tally>>
      BY <2>8 DEF Poff, At
    <3>2. ppp' \in BOOLEAN
      BY <2>8 DEF Poff
    <3>3. CASE Return
      BY <1>2, <1>4, <3>1, <3>2, <3>3
    <3>4. CASE Goto("reboot") /\ UNCHANGED loopVars
      BY <1>2, <3>1, <3>2, <3>4 DEF Goto
    <3> QED BY <2>8, <3>3, <3>4 DEF Poff
  <2>9. CASE Reboot
    BY <1>2, <2>9, CountTypes DEF Reboot, Restart, Events, Tallies
  <2> QED BY <1>5, <2>1, <2>2, <2>3, <2>4, <2>5, <2>6, <2>7, <2>8, <2>9 DEF Command
<1>6. CASE Fetch
  BY <1>2, <1>6 DEF Fetch, Goto
<1>7. CASE Edit \/ Heartbeat
  <2>1. CASE Edit
    <3>1. config' \in Nat
      BY <2>1 DEF Edit
    <3> QED BY <1>2, <2>1, <3>1 DEF Edit
  <2>2. CASE Heartbeat
    <3>1. waiting' \in BOOLEAN
      BY <2>2 DEF Heartbeat
    <3> QED BY <1>2, <2>2, <3>1 DEF Heartbeat
  <2> QED BY <1>7, <2>1, <2>2
<1>8. CASE Kill
  BY <1>2, <1>8, CountTypes DEF Kill, Restart, Events, Tallies
<1>9. CASE PppEnds
  <2>1. tally' \in Tallies
    BY <1>9, CountTypes DEF PppEnds, Tallies
  <2> QED BY <1>2, <1>9, <2>1 DEF PppEnds, Tallies
<1>10. CASE \E command \in Commands : Order(command)
  <2>1. PICK command \in Commands : Order(command)
    BY <1>10
  <2>2. tally' \in Tallies
    <3>1. PICK r \in Nat :
             tally' = [tally EXCEPT !.orders = tally.orders + 1, !.rebootOrders = r]
      <4>1. (IF command = "reboot" THEN tally.rebootOrders + 1 ELSE tally.rebootOrders) \in Nat
        OBVIOUS
      <4> QED BY <2>1, <4>1 DEF Order
    <3>2. tally.orders + 1 \in Nat /\ tally \in Tallies
      BY DEF Tallies
    <3> HIDE DEF ModemTypeOK
    <3> QED BY <3>1, <3>2 DEF Tallies
  <2> QED BY <1>2, <2>1, <2>2 DEF Order, Tallies
<1>11. CASE SessionDrops
  <2>1. tally' \in Tallies
    BY <1>11, CountTypes DEF SessionDrops, Tallies
  <2>2. session' \in BOOLEAN /\ UNCHANGED <<loopVars, cmdVars, ppp, orphaned, waiting, syncVars, care>>
    BY <1>11 DEF SessionDrops
  <2> QED BY <1>2, <2>1, <2>2 DEF Tallies
<1> QED BY <1>2, <1>3, <1>5, <1>6, <1>7, <1>8, <1>9, <1>10, <1>11 DEF ModemActs

(* The states and the commands of the program, its flags, the versions and *)
(* the counters keep their types (SerialCommunication.py).                 *)
THEOREM ModemTypeCorrect == ModemSpec => [](ModemTypeOK /\ InCommand)
BY ModemTypeInit, ModemTypeStep, PTL DEF ModemSpec
-----------------------------------------------------------------------------
(* While a command is carried out pppd has the port only if the command    *)
(* remembers that it has dialled; no command that has yet to read the      *)
(* network_type has.                                                       *)
LoanInv ==
    /\ cmd = "none" => ~ ppp \/ orphaned
    /\ cmd # "none" /\ ppp => use_modem
    /\ step = "pon" => use_modem
    /\ step = "read" => ~ use_modem
    /\ state = "startup" => cmd = "none"

(* The restart of the program puts it outside any command.                 *)
LEMMA LoanStep ==
  ModemTypeOK /\ InCommand /\ LoanInv /\ [ModemNext]_allVars => LoanInv'
<1> SUFFICES ASSUME ModemTypeOK, InCommand, LoanInv, [ModemNext]_allVars PROVE LoanInv'
  OBVIOUS
<1> USE DEF LoanInv
<1>1. CASE UNCHANGED modemVars
  BY <1>1 DEF modemVars, cmdVars, lineVars, loopVars
<1>2. SUFFICES ASSUME ModemActs PROVE LoanInv'
  BY <1>1, ModemCases
(* Where neither the command nor the line has moved. *)
<1>3. ASSUME UNCHANGED <<cmd, step, use_modem, ppp, orphaned>>,
             state' = state \/ state' \in States \/ cmd = "none"
      PROVE  LoanInv'
  BY <1>3 DEF States
<1>4. CASE Loop
  <2>1. CASE Poll
    <3>1. /\ UNCHANGED <<ppp, orphaned>> /\ cmd = "none"
          /\ \/ UNCHANGED <<cmd, step, use_modem>>
             \/ /\ ~ ppp /\ state' = state /\ state = "SendPayload"
                /\ cmd' = care
                /\ step' = IF care \in {"done", "webcall"} THEN "read" ELSE "pon"
                /\ use_modem' = (care \in {"reboot", "debug"})
                /\ care # "runota"
      BY <2>1 DEF Poll, Acts, Looping, lineVars, cmdVars, loopVars
    <3>2. CASE UNCHANGED <<cmd, step, use_modem>>
      BY <1>3, <3>1, <3>2
    <3>3. CASE care \in {"done", "webcall"} /\ use_modem' = FALSE /\ step' = "read" /\ ~ ppp
               /\ state' = "SendPayload"
      BY <3>1, <3>3
    <3>4. CASE care \in {"reboot", "debug"} /\ use_modem' = TRUE /\ step' = "pon" /\ ~ ppp
               /\ state' = "SendPayload"
      BY <3>1, <3>4 DEF ModemTypeOK, Commands
    <3>5. CASE ~ UNCHANGED <<cmd, step, use_modem>>
      <4>1. /\ ~ ppp /\ state' = "SendPayload"
            /\ use_modem' = (care \in {"reboot", "debug"})
            /\ step' = IF care \in {"done", "webcall"} THEN "read" ELSE "pon"
        BY <3>1, <3>5
      <4>2. care \in {"done", "webcall"} \/ care \in {"reboot", "debug"}
        BY <3>1, <3>5 DEF ModemTypeOK, Commands
      <4>3. CASE care \in {"done", "webcall"}
        <5>1. use_modem' = FALSE
          <6>1. (care \in {"reboot", "debug"}) = FALSE
            BY <4>3
          <6> QED BY <4>1, <6>1, Zenon
        <5> QED BY <3>3, <4>1, <4>3, <5>1
      <4>4. CASE care \in {"reboot", "debug"}
        <5>1. use_modem' = TRUE
          BY <4>1, <4>4
        <5>2. step' = "pon"
          BY <4>1, <4>4
        <5> QED BY <3>4, <4>1, <4>4, <5>1, <5>2
      <4> QED BY <4>2, <4>3, <4>4
    <3> QED BY <3>2, <3>5
  <2>2. CASE Startup \/ Ignore \/ LeaveErrorState \/ SetUp \/ Initialize \/ CheckNetwork
             \/ Recheck \/ SendRow
    <3>1. UNCHANGED <<cmd, step, use_modem, ppp, orphaned>>
      BY <2>2 DEF Startup, Ignore, LeaveErrorState, SetUp, Initialize, CheckNetwork, AskModem,
                  Recheck, SendRow, cmdVars, lineVars
    <3>2. cmd = "none"
      BY <2>2 DEF Startup, Ignore, LeaveErrorState, SetUp, Initialize, CheckNetwork, AskModem,
                  Recheck, SendRow, Acts, Looping
    <3> QED BY <1>3, <3>1, <3>2
  <2> QED BY <1>4, <2>1, <2>2 DEF Loop
<1>5. CASE Command
  <2>1. CASE Read
    <3>1. /\ step = "read" /\ cmd # "none" /\ UNCHANGED <<ppp, orphaned>>
      BY <2>1 DEF Read, At, lineVars
    <3>2. ~ ppp /\ state = "SendPayload"
      BY <3>1 DEF InCommand
    <3>3. CASE Return
      <4>1. cmd' = "none" /\ step' = "none" /\ ~ ppp'
        BY <3>1, <3>2, <3>3 DEF Return
      <4> QED BY <4>1
    <3>4. CASE /\ use_modem' = (dbNet = "gsm")
               /\ step' = IF dbNet = "gsm" THEN "pon" ELSE "net"
               /\ UNCHANGED <<cmd, loopVars>>
      <4>1. /\ ~ ppp' /\ state' = "SendPayload" /\ cmd' # "none" /\ step' # "read"
        BY <3>1, <3>2, <3>4 DEF loopVars
      <4>2. step' = "pon" => use_modem'
        BY <3>4
      <4>3. state' # "startup"
        BY <4>1
      <4>4. step' # "read" /\ ~ ppp' /\ cmd' # "none"
        BY <4>1
      <4> QED BY <4>2, <4>3, <4>4
    <3> QED BY <2>1, <3>3, <3>4 DEF Read
  <2>2. CASE Pon
    BY <2>2 DEF Pon, At, Goto, loopVars
  <2>3. CASE Net \/ ReadConfig \/ Publish \/ SendForgone \/ Acknowledge
    <3>1. /\ UNCHANGED <<cmd, use_modem, ppp, orphaned, state>>
          /\ step' \notin {"pon", "read"}
      BY <2>3 DEF Net, ReadConfig, Publish, SendForgone, Acknowledge, At, Goto, lineVars, loopVars
    <3> QED BY <3>1
  <2>4. CASE Poff
    <3>1. cmd # "none" /\ UNCHANGED orphaned /\ ppp' = (ppp /\ ~ use_modem)
      BY <2>4 DEF Poff, At
    <3>2. ~ ppp'
      BY <3>1
    <3>3. \/ cmd' = "none" /\ step' = "none"
          \/ cmd' = cmd /\ step' = "reboot" /\ state' = state
      BY <2>4 DEF Poff, Goto, Return, loopVars
    <3> QED BY <3>1, <3>2, <3>3
  <2>5. CASE Reboot
    BY <2>5 DEF Reboot, Restart
  <2> QED BY <1>5, <2>1, <2>2, <2>3, <2>4, <2>5 DEF Command
<1>6. CASE Fetch
  <2>1. /\ UNCHANGED <<cmd, use_modem, ppp, orphaned, state>>
        /\ step' = "ack"
    BY <1>6 DEF Fetch, Goto, lineVars, loopVars
  <2> QED BY <2>1
<1>7. CASE Edit \/ Heartbeat \/ SessionDrops \/ \E command \in Commands : Order(command)
  <2>1. UNCHANGED <<cmd, step, use_modem, ppp, orphaned, state>>
    BY <1>7 DEF Edit, Heartbeat, SessionDrops, Order, cmdVars, lineVars, loopVars
  <2> QED BY <1>3, <2>1
<1>8. CASE Kill
  <2>1. cmd' = "none" /\ step' = "none" /\ orphaned' = ppp'
    BY <1>8 DEF Kill, Restart
  <2> QED BY <2>1
<1>9. CASE PppEnds
  <2>1. ppp' = FALSE /\ UNCHANGED <<cmd, step, use_modem, state>>
    BY <1>9 DEF PppEnds, cmdVars, loopVars
  <2> QED BY <2>1
<1> QED BY <1>2, <1>4, <1>5, <1>6, <1>7, <1>8, <1>9 DEF ModemActs

(* Whatever fails, is edited or ordered: outside of a command pppd has the *)
(* serial port only if the program was killed while it was lent            *)
(* (check_and_send, webdone.py, net_reboot.py, net_debug.py).              *)
THEOREM PppIsAlwaysPutDown == ModemSpec => []PppIsPutDown
<1>1. ModemInit => LoanInv
  BY DEF ModemInit, LoanInv
<1>2. ModemTypeOK /\ LoanInv => PppIsPutDown
  BY DEF ModemTypeOK, LoanInv, PppIsPutDown
<1> QED BY <1>1, <1>2, LoanStep, ModemTypeCorrect, PTL DEF ModemSpec
-----------------------------------------------------------------------------
(* The reboots to come that are paid for: of the order that stands at      *)
(* ThingsBoard, and of the one that is carried out; until this has been    *)
(* acknowledged the two are one.                                           *)
Standing == IF care = "reboot" THEN 1 ELSE 0

RebootsToCome ==
    IF cmd # "reboot" THEN Standing
    ELSE IF step \in {"poff", "reboot"} THEN 1 + Standing
    ELSE 1

RebootInv ==
    /\ cmd = "reboot" => step \in {"pon", "ack", "poff", "reboot"}
    /\ step = "reboot" => cmd = "reboot"
    /\ tally.reboots + RebootsToCome <= tally.rebootOrders + tally.lostAcks

(* A step that neither orders, acknowledges nor reboots does not add to    *)
(* the reboots to come.                                                    *)
LEMMA RebootStep ==
  ModemTypeOK /\ InCommand /\ RebootInv /\ [ModemNext]_allVars => RebootInv'
<1> SUFFICES ASSUME ModemTypeOK, InCommand, RebootInv, [ModemNext]_allVars PROVE RebootInv'
  OBVIOUS
<1> USE DEF ModemTypeOK, InCommand
<1>1. /\ tally.reboots \in Nat /\ tally.rebootOrders \in Nat /\ tally.lostAcks \in Nat
      /\ RebootsToCome \in 0 .. 2 /\ Standing \in 0 .. 1
  BY DEF RebootsToCome, Standing
<1>2. tally.reboots + RebootsToCome <= tally.rebootOrders + tally.lostAcks
  BY DEF RebootInv
<1>3. ASSUME /\ tally'.reboots = tally.reboots
             /\ tally'.rebootOrders = tally.rebootOrders
             /\ tally'.lostAcks = tally.lostAcks,
             RebootsToCome' \in 0 .. 2, RebootsToCome' <= RebootsToCome,
             cmd' = "reboot" => step' \in {"pon", "ack", "poff", "reboot"},
             step' = "reboot" => cmd' = "reboot"
      PROVE  RebootInv'
  <2> HIDE DEF ModemTypeOK
  <2>1. tally'.reboots + RebootsToCome' <= tally'.rebootOrders + tally'.lostAcks
    BY <1>1, <1>2, <1>3
  <2> QED BY <1>3, <2>1 DEF RebootInv
<1>4. ASSUME Fault \/ UNCHANGED tally
      PROVE  /\ tally'.reboots = tally.reboots
             /\ tally'.rebootOrders = tally.rebootOrders
             /\ tally'.lostAcks = tally.lostAcks
  BY <1>4, CountTypes
<1>5. CASE UNCHANGED modemVars
  BY <1>3, <1>5 DEF modemVars, cmdVars, RebootInv, RebootsToCome, Standing
<1>6. SUFFICES ASSUME ModemActs PROVE RebootInv'
  BY <1>5, ModemCases
<1>7. ASSUME UNCHANGED <<cmd, step, care>>, Fault \/ UNCHANGED tally PROVE RebootInv'
  BY <1>3, <1>4, <1>7 DEF RebootInv, RebootsToCome, Standing
<1>8. CASE Loop
  <2>1. CASE Poll
    <3>1. Fault \/ UNCHANGED tally
      BY <2>1 DEF Poll
    <3>2. CASE UNCHANGED cmdVars
      BY <1>7, <2>1, <3>1, <3>2 DEF Poll, cmdVars
    <3>3. CASE /\ cmd' = care /\ care' = care
               /\ step' = IF care \in {"done", "webcall"} THEN "read" ELSE "pon"
      <4>1. cmd = "none"
        BY <2>1 DEF Poll, Acts, Looping
      <4>2. RebootsToCome' = RebootsToCome
        BY <3>3, <4>1 DEF RebootsToCome, Standing
      <4> QED BY <1>1, <1>3, <1>4, <3>1, <3>3, <4>2
    <3> QED BY <2>1, <3>2, <3>3 DEF Poll
  <2>2. CASE Startup \/ Ignore \/ LeaveErrorState \/ SetUp \/ Initialize \/ CheckNetwork
             \/ Recheck \/ SendRow
    BY <1>7, <2>2 DEF Startup, Ignore, LeaveErrorState, SetUp, Initialize, CheckNetwork,
                      AskModem, Recheck, SendRow, CheckMqttStatus, ConnectToServer, PortRaises, cmdVars
  <2> QED BY <1>8, <2>1, <2>2 DEF Loop
<1>9. CASE Command
  <2>1. CASE Read
    <3>1. /\ cmd \notin {"none", "reboot"} /\ UNCHANGED <<care, tally>>
          /\ cmd' \in {"none", cmd} /\ step' \in {"none", "pon", "net"}
      BY <2>1 DEF Read, At, Return, RebootInv
    <3>2. RebootsToCome' = RebootsToCome
      BY <3>1 DEF RebootsToCome, Standing
    <3> QED BY <1>1, <1>3, <1>4, <3>1, <3>2
  <2>2. CASE Pon \/ Net \/ ReadConfig \/ Publish \/ SendForgone
    <3>1. /\ Fault \/ UNCHANGED tally
          /\ UNCHANGED <<cmd, care>>
      BY <2>2 DEF Pon, Net, ReadConfig, Publish, SendForgone, Goto
    <3>2. /\ step \in {"pon", "net", "work", "publish"}
          /\ step' \in {"net", "ack", "work", "poff", "publish"}
          /\ cmd = "reboot" => step = "pon" /\ step' = "ack"
      BY <2>2 DEF Pon, Net, ReadConfig, Publish, SendForgone, Goto, At, RebootInv
    <3>3. RebootsToCome' = RebootsToCome
      BY <3>1, <3>2 DEF RebootsToCome, Standing
    <3> QED BY <1>1, <1>3, <1>4, <3>1, <3>2, <3>3
  <2>3. CASE Acknowledge
    <3>1. step = "ack" /\ step' = "poff" /\ cmd' = cmd
      BY <2>3 DEF Acknowledge, At, Goto
    <3>2. CASE care' = "done" /\ UNCHANGED tally
      <4>1. RebootsToCome' <= RebootsToCome /\ RebootsToCome' \in 0 .. 2
        BY <3>1, <3>2 DEF RebootsToCome, Standing
      <4> QED BY <1>3, <1>4, <3>1, <3>2, <4>1
    <3>3. CASE /\ care' = care
               /\ tally' = [tally EXCEPT !.faults = IF Reaches THEN @ + 1 ELSE @,
                                         !.lostAcks = IF cmd = "reboot" THEN @ + 1 ELSE @]
      <4>1. /\ tally'.reboots = tally.reboots
            /\ tally'.rebootOrders = tally.rebootOrders
            /\ tally'.lostAcks = IF cmd = "reboot" THEN tally.lostAcks + 1 ELSE tally.lostAcks
        BY <3>3
      <4>2. CASE cmd # "reboot"
        <5>1. RebootsToCome' = RebootsToCome
          BY <3>1, <3>3, <4>2 DEF RebootsToCome, Standing
        <5> QED BY <1>1, <1>3, <3>1, <4>1, <4>2, <5>1
      <4>3. CASE cmd = "reboot"
        <5>1. RebootsToCome' = 1 + Standing /\ RebootsToCome = 1
          BY <3>1, <3>3, <4>3 DEF RebootsToCome, Standing
        <5>2. tally'.reboots + RebootsToCome' <= tally'.rebootOrders + tally'.lostAcks
          BY <1>1, <1>2, <4>1, <4>3, <5>1
        <5> QED BY <3>1, <4>3, <5>2 DEF RebootInv
      <4> QED BY <4>2, <4>3
    <3> QED BY <2>3, <3>2, <3>3 DEF Acknowledge
  <2>4. CASE Poff
    <3>1. /\ step = "poff" /\ UNCHANGED <<care, tally>>
          /\ \/ cmd = "reboot" /\ cmd' = cmd /\ step' = "reboot"
             \/ cmd # "reboot" /\ cmd' = "none" /\ step' = "none"
      BY <2>4 DEF Poff, At, Goto, Return
    <3>2. RebootsToCome' = RebootsToCome
      BY <3>1 DEF RebootsToCome, Standing
    <3> QED BY <1>1, <1>3, <1>4, <3>1, <3>2
  <2>5. CASE Reboot
    <3>1. /\ step = "reboot" /\ cmd = "reboot" /\ cmd' = "none" /\ step' = "none"
          /\ care' = care /\ Count("reboots")
      BY <2>5 DEF Reboot, Restart, At, RebootInv
    <3>2. /\ tally'.reboots = tally.reboots + 1
          /\ tally'.rebootOrders = tally.rebootOrders
          /\ tally'.lostAcks = tally.lostAcks
      BY <3>1 DEF Count
    <3>3. RebootsToCome = 1 + Standing /\ RebootsToCome' = Standing
      BY <3>1 DEF RebootsToCome, Standing
    <3>4. tally'.reboots + RebootsToCome' <= tally'.rebootOrders + tally'.lostAcks
      BY <1>1, <1>2, <3>2, <3>3
    <3> QED BY <3>1, <3>4 DEF RebootInv
  <2> QED BY <1>9, <2>1, <2>2, <2>3, <2>4, <2>5 DEF Command
<1>10. CASE Fetch
  <2>1. step = "work" /\ step' = "ack" /\ cmd = "webcall" /\ UNCHANGED <<cmd, care, tally>>
    BY <1>10 DEF Fetch, At, Goto
  <2>2. RebootsToCome' = RebootsToCome
    BY <2>1 DEF RebootsToCome, Standing
  <2> QED BY <1>1, <1>3, <1>4, <2>1, <2>2
<1>11. CASE Edit \/ Heartbeat \/ PppEnds \/ SessionDrops
  BY <1>7, <1>11 DEF Edit, Heartbeat, PppEnds, SessionDrops, cmdVars
<1>12. CASE Kill
  <2>1. cmd' = "none" /\ step' = "none" /\ care' = care /\ Fault
    BY <1>12 DEF Kill, Restart
  <2>2. RebootsToCome' <= RebootsToCome /\ RebootsToCome' \in 0 .. 2
    BY <2>1 DEF RebootsToCome, Standing
  <2> QED BY <1>3, <1>4, <2>1, <2>2
<1>13. ASSUME NEW command \in Commands, Order(command) PROVE RebootInv'
  <2>1. /\ care' = command /\ UNCHANGED <<cmd, step>>
        /\ tally' = [tally EXCEPT !.orders = @ + 1,
                        !.rebootOrders = IF command = "reboot" THEN @ + 1 ELSE @]
    BY <1>13 DEF Order, cmdVars
  <2>2. /\ tally'.reboots = tally.reboots
        /\ tally'.rebootOrders = IF command = "reboot" THEN tally.rebootOrders + 1
                                                       ELSE tally.rebootOrders
        /\ tally'.lostAcks = tally.lostAcks
    BY <2>1
  <2>3. /\ RebootsToCome' \in 0 .. 2
        /\ RebootsToCome' <= RebootsToCome + (IF command = "reboot" THEN 1 ELSE 0)
    BY <2>1 DEF RebootsToCome, Standing
  <2>4. tally'.reboots + RebootsToCome' <= tally'.rebootOrders + tally'.lostAcks
    BY <1>1, <1>2, <2>2, <2>3
  <2> QED BY <2>1, <2>4 DEF RebootInv
<1> QED BY <1>6, <1>8, <1>9, <1>10, <1>11, <1>12, <1>13 DEF ModemActs

(* However many commands are ordered, overwritten, lost or repeated: the   *)
(* machine reboots once for each order, and once more for each             *)
(* acknowledgement that was lost (receive_message, net_reboot.py,          *)
(* net_reboot_done.py).                                                    *)
THEOREM RebootsAlwaysPaidFor == ModemSpec => []RebootsPaidFor
<1>1. ModemInit => RebootInv
  BY DEF ModemInit, RebootInv, RebootsToCome, Standing
<1>2. ModemTypeOK /\ RebootInv => RebootsPaidFor
  <2> SUFFICES ASSUME ModemTypeOK, RebootInv PROVE RebootsPaidFor
    OBVIOUS
  <2>1. /\ tally.reboots \in Nat /\ tally.rebootOrders \in Nat /\ tally.lostAcks \in Nat
        /\ RebootsToCome \in 0 .. 2
    BY DEF ModemTypeOK, RebootsToCome, Standing
  <2> QED BY <2>1 DEF RebootInv, RebootsPaidFor
<1> QED BY <1>1, <1>2, RebootStep, ModemTypeCorrect, PTL DEF ModemSpec
=============================================================================
