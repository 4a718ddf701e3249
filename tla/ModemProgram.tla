---------------------------- MODULE ModemProgram ----------------------------
(***************************************************************************)
(* The modem program (SerialCommunication.py) on a device of the control   *)
(* plane: its loop of five events over a machine of states, the MQTT       *)
(* session of the modem, and the commands it polls from ThingsBoard, for   *)
(* which it lends the serial port to pppd: sending the configuration       *)
(* (check_and_send, refreshcode.py), fetching it (updatecode.py,           *)
(* webdone.py), a reboot (net_reboot.py) and the debug window              *)
(* (net_debug.py).                                                         *)
(*                                                                         *)
(* Not every device is fitted with a modem.  To one that is, the rest of   *)
(* the control plane shows only as network_type, which Edit writes.        *)
(***************************************************************************)
EXTENDS Failover

CONSTANTS Fitted,      (* whether the device has a modem: the cases looked at  *)
          MaxEdits,    (* bounds of the model: changes of the configuration,   *)
          MaxOrders,   (* commands given at ThingsBoard,                       *)
          MaxFaults    (* calls that fail, answers that are lost, restarts of  *)
                       (* the program by a watchdog or after the relay         *)

Commands == {"webcall", "reboot", "debug", "runota"}
Events == {"initialize", "network_check", "signal_strength", "send_payload",
           "confirm_delivery"}
States == {"InitializeModem", "CheckNetworkStatus", "CheckSignalStrength",
           "SendPayload", "ConfirmDelivery", "ErrorState", "ModemSetUp"}

ASSUME ModemAssumption ==
    /\ Fitted \subseteq BOOLEAN
    /\ MaxEdits \in Nat /\ MaxOrders \in Nat /\ MaxFaults \in Nat

VARIABLES fitted,      (* this device has a modem                              *)
          state,       (* context.state, or "startup" before the loop          *)
          event,       (* the event that the loop fires next                   *)
          cmd,         (* the command being carried out, or "none"             *)
          step,        (* and how far                                          *)
          use_modem,   (* the network_type that the command has read is gsm    *)
          ppp,         (* pppd has the serial port                             *)
          session,     (* the MQTT session of the modem is up                  *)
          waiting,     (* a payload waits in payloads.db                       *)
          config,      (* the version of files and databases                   *)
          snapshot,    (* the version in config_snapshot.json                  *)
          payload,     (* the version that send_dexter_config has in hand      *)
          send_needed, (* the flag of check_and_send                           *)
          cloud,       (* the version that ThingsBoard has received last       *)
          care,        (* the attribute of ThingsBoard that getcare returns    *)
          orphaned,    (* history: a pppd has survived the program             *)
          forgone,     (* history: a configuration given up, see SendForgone   *)
          tally        (* history: what the bounds count, and reboots          *)

loopVars  == <<state, event>>
cmdVars   == <<cmd, step, use_modem>>
lineVars  == <<ppp, orphaned, session>>
syncVars  == <<config, snapshot, payload, send_needed, cloud, forgone>>
modemVars == <<fitted, loopVars, cmdVars, lineVars, waiting, syncVars, care, tally>>
controlRest == <<coreVars, monitorVars, userVars, mqtt, crashes>>

ModemInit ==
    /\ Init
    /\ fitted \in Fitted
    /\ state = "startup"
    /\ event = "initialize"
    /\ cmd = "none" /\ step = "none"
    /\ use_modem = FALSE
    /\ ppp = FALSE /\ orphaned = FALSE
    /\ session = FALSE
    /\ waiting = FALSE
    /\ config = 0 /\ snapshot = 0 /\ payload = 0 /\ cloud = 0
    /\ send_needed = TRUE
    /\ forgone = FALSE
    /\ care = "done"
    /\ tally = [faults |-> 0, orders |-> 0, rebootOrders |-> 0, reboots |-> 0,
                lostAcks |-> 0]

Count(what) == tally' = [tally EXCEPT ![what] = @ + 1]
Fault == tally.faults < MaxFaults /\ Count("faults")

(* wait_for_network, or any call over the internet: over PPP or over eth0. *)
Reaches == ppp \/ ethUp

-----------------------------------------------------------------------------
(* The loop and its states *)

(* A program that finds the port taken dies here and is started again.     *)
Startup ==
    /\ state = "startup"
    /\ ~ ppp
    /\ state' = "InitializeModem"
    /\ event' = "initialize"
    /\ UNCHANGED <<cmdVars, lineVars, waiting, syncVars, care, tally>>

(* The event at which a state acts, and the state it goes on to.           *)
Awaits == [InitializeModem |-> "network_check",
           CheckNetworkStatus |-> "signal_strength",
           CheckSignalStrength |-> "send_payload",
           SendPayload |-> "confirm_delivery",
           ConfirmDelivery |-> "network_check"]

Successor == [InitializeModem |-> "CheckNetworkStatus",
              CheckNetworkStatus |-> "CheckSignalStrength",
              CheckSignalStrength |-> "SendPayload",
              SendPayload |-> "ConfirmDelivery",
              ConfirmDelivery |-> "CheckNetworkStatus"]

AfterEvent == [initialize |-> "network_check", network_check |-> "signal_strength",
               signal_strength |-> "send_payload", send_payload |-> "confirm_delivery",
               confirm_delivery |-> "initialize"]

Looping == state # "startup" /\ cmd = "none"
FireEvent == event' = AfterEvent[event]
Acts == Looping /\ state \in DOMAIN Awaits /\ event = Awaits[state]
GoOn == state' = Successor[state] /\ FireEvent

(* initialize_serial raises if pppd has the port, and any call may.        *)
PortRaises ==
    /\ \/ ppp /\ UNCHANGED tally
       \/ Fault
    /\ state' = "ErrorState"
    /\ FireEvent

Ignore ==
    /\ Looping
    /\ state \in DOMAIN Awaits
    /\ event # Awaits[state]
    /\ FireEvent
    /\ UNCHANGED <<state, cmdVars, lineVars, waiting, syncVars, care, tally>>

(* Mutant: the state does what it prints, "cannot handle events". *)
LeaveErrorState_Stays ==
    /\ Looping
    /\ state = "ErrorState"
    /\ FireEvent
    /\ UNCHANGED <<state, cmdVars, lineVars, waiting, syncVars, care, tally>>

LeaveErrorState ==
    /\ Looping
    /\ state = "ErrorState"
    /\ state' = "ModemSetUp"
    /\ FireEvent
    /\ UNCHANGED <<cmdVars, lineVars, waiting, syncVars, care, tally>>

(* reset_device: AT+TRB reboots the modem, or is not answered.             *)
ResetDevice == session' \in {session, FALSE}

(* At whatever event comes.                                                *)
SetUp ==
    /\ Looping
    /\ state = "ModemSetUp"
    /\ \/ PortRaises /\ UNCHANGED session
       \/ /\ ~ ppp
          /\ state' = "CheckNetworkStatus"
          /\ FireEvent
          /\ ResetDevice
          /\ UNCHANGED tally
    /\ UNCHANGED <<cmdVars, ppp, orphaned, waiting, syncVars, care>>

(* Questions to the modem: their failures are results that nobody looks at.*)
AskModem ==
    /\ PortRaises \/ (~ ppp /\ GoOn /\ UNCHANGED tally)
    /\ UNCHANGED <<cmdVars, lineVars, waiting, syncVars, care>>

(* initialize_device                                                       *)
Initialize == Acts /\ state = "InitializeModem" /\ AskModem

(* main with 2 and with 6: again, and what the modem knows of itself       *)
(* (LocationManager).                                                      *)
CheckNetwork == Acts /\ state = "CheckNetworkStatus" /\ AskModem

Recheck ==
    /\ Acts
    /\ state = "ConfirmDelivery"
    /\ GoOn
    /\ UNCHANGED <<cmdVars, lineVars, waiting, syncVars, care, tally>>

(* The session is there, and the payload is sent or refused.               *)
CheckMqttStatus == session /\ waiting' \in BOOLEAN /\ UNCHANGED <<session, tally>>

(* It is not, or the answer is lost: it is taken down and set up again,    *)
(* which may fail with or without a session.                               *)
ConnectToServer ==
    \/ ~ session /\ session' = TRUE /\ waiting' \in BOOLEAN /\ UNCHANGED tally
    \/ session' \in BOOLEAN /\ UNCHANGED waiting /\ Fault

(* checkMQTTStatus: a session that is down is set up again for the payload *)
(* that waits, and for nothing else.                                       *)
SendRow ==
    /\ Acts
    /\ state = "CheckSignalStrength"
    /\ \/ /\ dbNet = "ethernet" \/ ~ waiting
          /\ GoOn
          /\ UNCHANGED <<session, waiting, tally>>
       \/ /\ dbNet = "gsm" /\ waiting /\ ~ ppp
          /\ CheckMqttStatus \/ ConnectToServer
          /\ GoOn
       \/ /\ dbNet = "gsm" /\ waiting
          /\ PortRaises
          /\ UNCHANGED <<session, waiting>>
    /\ UNCHANGED <<cmdVars, ppp, orphaned, syncVars, care>>

(* receive_message: getcare is asked and the answer awaited, under GSM     *)
(* only.  net_ota has no main, so that runota ends in an exception.        *)
Poll ==
    /\ Acts
    /\ state = "SendPayload"
    /\ \/ /\ \/ (dbNet = "ethernet" \/ ppp \/ ~ session) /\ UNCHANGED tally
             \/ Fault
          /\ GoOn
          /\ UNCHANGED cmdVars
       \/ /\ dbNet = "gsm" /\ ~ ppp /\ session
          /\ care = "runota"
          /\ GoOn
          /\ UNCHANGED <<cmdVars, tally>>
       \/ /\ dbNet = "gsm" /\ ~ ppp /\ session
          /\ care # "runota"
          /\ cmd' = care
          /\ step' = IF care \in {"done", "webcall"} THEN "read" ELSE "pon"
          /\ use_modem' = (care \in {"reboot", "debug"})
          /\ UNCHANGED <<loopVars, tally>>
    /\ UNCHANGED <<lineVars, waiting, syncVars, care>>

-----------------------------------------------------------------------------
(* The commands *)

At(where) == cmd # "none" /\ step = where
Goto(where) == step' = where /\ UNCHANGED <<cmd, use_modem>>

(* handle_message returns, and receive_message.                            *)
Return == GoOn /\ cmd' = "none" /\ step' = "none" /\ use_modem' = FALSE

(* Snapshots are compared, network_type is read.                           *)
Read ==
    /\ At("read")
    /\ \/ /\ cmd = "done" /\ config = snapshot /\ ~ send_needed
          /\ Return
          /\ UNCHANGED snapshot
       \/ /\ cmd = "done" => config # snapshot \/ send_needed
          /\ snapshot' = IF cmd = "done" THEN config ELSE snapshot
          /\ use_modem' = (dbNet = "gsm")
          /\ step' = IF dbNet = "gsm" THEN "pon" ELSE "net"
          /\ UNCHANGED <<cmd, loopVars>>
    /\ UNCHANGED <<lineVars, waiting, config, payload, send_needed, cloud, forgone,
                   care, tally>>

(* "pon c16qs": its exit code is not looked at.                            *)
Pon ==
    /\ At("pon")
    /\ \/ ppp' = TRUE /\ UNCHANGED tally
       \/ ppp' = FALSE /\ Fault
    /\ Goto(IF cmd = "reboot" THEN "ack" ELSE "net")
    /\ UNCHANGED <<loopVars, orphaned, session, waiting, syncVars, care>>

(* wait_for_network, or the wait for ppp0 of net_debug.                    *)
NetUp == IF cmd = "debug" THEN ppp ELSE Reaches

(* No network: the flag is set for a later poll.                           *)
Net ==
    /\ At("net")
    /\ \/ /\ NetUp
          /\ Goto(IF cmd = "debug" THEN "ack" ELSE "work")
          /\ UNCHANGED <<send_needed, tally>>
       \/ /\ \/ ~ NetUp /\ UNCHANGED tally
             \/ Fault
          /\ send_needed' = (send_needed \/ cmd = "done")
          /\ Goto("poff")
    /\ UNCHANGED <<loopVars, lineVars, waiting, config, snapshot, payload, cloud,
                   forgone, care>>

(* send_dexter_config reads files and databases once, before its attempts. *)
ReadConfig ==
    /\ At("work") /\ cmd = "done"
    /\ payload' = config
    /\ Goto("publish")
    /\ UNCHANGED <<loopVars, lineVars, waiting, config, snapshot, send_needed, cloud,
                   forgone, care, tally>>

(* Three attempts: published and confirmed; or not confirmed, whether      *)
(* published or not.                                                       *)
Publish ==
    /\ At("publish")
    /\ \/ Reaches /\ cloud' = payload /\ send_needed' = FALSE /\ UNCHANGED tally
       \/ Reaches /\ cloud' = payload /\ send_needed' = TRUE /\ Fault
       \/ Fault /\ send_needed' = TRUE /\ UNCHANGED cloud
       \/ ~ Reaches /\ send_needed' = TRUE /\ UNCHANGED <<cloud, tally>>
    /\ payload' = 0
    /\ Goto("poff")
    /\ UNCHANGED <<loopVars, lineVars, waiting, config, snapshot, forgone, care>>

(* A broker that rejects the connection sets the same event as a           *)
(* confirmation; a locked database raises past the flag.                   *)
SendForgone ==
    /\ At("publish")
    /\ Fault
    /\ send_needed' \in {send_needed, FALSE}
    /\ forgone' = TRUE
    /\ payload' = 0
    /\ Goto("poff")
    /\ UNCHANGED <<loopVars, lineVars, waiting, config, snapshot, cloud, care>>

(* fetch_and_update_dexter_config: what it gets is written, network_type   *)
(* with it; whether it gets anything is not looked at.                     *)
Fetch ==
    /\ At("work") /\ cmd = "webcall"
    /\ \/ /\ Reaches /\ config < MaxEdits
          /\ config' = config + 1
          /\ dbNet' \in Modes
       \/ UNCHANGED <<config, dbNet>>
    /\ Goto("ack")
    /\ UNCHANGED <<loopVars, lineVars, waiting, snapshot, payload, send_needed, cloud,
                   forgone, care, tally>>

(* Mutant: the reboot is not acknowledged before it. *)
Acknowledge_NotReboot ==
    /\ At("ack")
    /\ \/ /\ Reaches
          /\ care' = IF cmd = "reboot" THEN care ELSE "done"
          /\ UNCHANGED tally
       \/ /\ ~ Reaches \/ tally.faults < MaxFaults
          /\ tally' = [tally EXCEPT !.faults = IF Reaches THEN @ + 1 ELSE @,
                                    !.lostAcks = IF cmd = "reboot" THEN @ + 1 ELSE @]
          /\ UNCHANGED care
    /\ Goto("poff")
    /\ UNCHANGED <<loopVars, lineVars, waiting, syncVars>>

(* send_webdone, net_reboot_done, net_ota_done: "care" is set to "done",   *)
(* whatever has been ordered meanwhile; the caller goes on if it fails.    *)
Acknowledge ==
    /\ At("ack")
    /\ \/ /\ Reaches
          /\ care' = "done"
          /\ UNCHANGED tally
       \/ /\ ~ Reaches \/ tally.faults < MaxFaults
          /\ tally' = [tally EXCEPT !.faults = IF Reaches THEN @ + 1 ELSE @,
                                    !.lostAcks = IF cmd = "reboot" THEN @ + 1 ELSE @]
          /\ UNCHANGED care
    /\ Goto("poff")
    /\ UNCHANGED <<loopVars, lineVars, waiting, syncVars>>

(* Mutant: network_type is read again for the poff. *)
Poff_ReadsAgain ==
    /\ At("poff")
    /\ ppp' = (ppp /\ dbNet = "ethernet")
    /\ session' \in {session, FALSE}
    /\ IF cmd = "reboot" THEN Goto("reboot") /\ UNCHANGED loopVars ELSE Return
    /\ UNCHANGED <<orphaned, waiting, syncVars, care, tally>>

(* The finally of check_and_send and of webcall, the last calls of the     *)
(* others; the modem may have dropped its session for the dial-up.         *)
Poff ==
    /\ At("poff")
    /\ ppp' = (ppp /\ ~ use_modem)
    /\ session' \in {session, FALSE}
    /\ IF cmd = "reboot" THEN Goto("reboot") /\ UNCHANGED loopVars ELSE Return
    /\ UNCHANGED <<orphaned, waiting, syncVars, care, tally>>

(* The program starts from the beginning, with what files and databases hold. *)
Restart ==
    /\ state' = "startup" /\ event' = "initialize"
    /\ cmd' = "none" /\ step' = "none" /\ use_modem' = FALSE /\ payload' = 0
    /\ send_needed' = TRUE

(* net_reboot ends with the reboot of the machine.                         *)
Reboot ==
    /\ At("reboot")
    /\ Count("reboots")
    /\ Restart
    /\ ppp' = FALSE /\ orphaned' = FALSE /\ session' = FALSE
    /\ UNCHANGED <<waiting, config, snapshot, cloud, forgone, care>>

-----------------------------------------------------------------------------
(* What happens to the program *)

(* The software watchdog, or the restart of the service after RELAY_1 has  *)
(* cut the modem's power; pppd belongs to the host.                        *)
Kill ==
    /\ state # "startup"
    /\ Fault
    /\ Restart
    /\ ppp' \in {ppp, FALSE}
    /\ orphaned' = ppp'
    /\ session' \in {session, FALSE}
    /\ UNCHANGED <<waiting, config, snapshot, cloud, forgone, care>>

PppEnds ==
    /\ ppp
    /\ IF cmd = "none" THEN UNCHANGED tally ELSE Fault
    /\ ppp' = FALSE /\ orphaned' = FALSE
    /\ UNCHANGED <<loopVars, cmdVars, session, waiting, syncVars, care>>

(* Under ethernet the publisher takes the session over: one client_id.     *)
SessionDrops ==
    /\ session
    /\ IF dbNet = "ethernet" THEN UNCHANGED tally ELSE Fault
    /\ session' = FALSE
    /\ UNCHANGED <<loopVars, cmdVars, ppp, orphaned, waiting, syncVars, care>>

Heartbeat ==
    /\ ~ waiting
    /\ waiting' = TRUE
    /\ UNCHANGED <<loopVars, cmdVars, lineVars, syncVars, care, tally>>

(* The core, its monitor, the LCD, the web page: any of them may write the *)
(* files and databases of the snapshot, network_type among them.           *)
Edit ==
    /\ config < MaxEdits
    /\ config' = config + 1
    /\ dbNet' \in Modes
    /\ UNCHANGED <<loopVars, cmdVars, lineVars, waiting, snapshot, payload, send_needed,
                   cloud, forgone, care, tally>>

Order(command) ==
    /\ tally.orders < MaxOrders
    /\ care' = command
    /\ tally' = [tally EXCEPT !.orders = @ + 1,
                     !.rebootOrders = IF command = "reboot" THEN @ + 1 ELSE @]
    /\ UNCHANGED <<loopVars, cmdVars, lineVars, waiting, syncVars>>

-----------------------------------------------------------------------------
Loop == Startup \/ Ignore \/ LeaveErrorState \/ SetUp \/ Initialize \/ CheckNetwork
            \/ Recheck \/ SendRow \/ Poll
Command == Read \/ Pon \/ Net \/ ReadConfig \/ Publish \/ SendForgone
            \/ Acknowledge \/ Poff \/ Reboot

Program == fitted /\ (Loop \/ Command) /\ UNCHANGED <<fitted, ethUp, dbNet, controlRest>>
FetchStep == fitted /\ Fetch /\ UNCHANGED <<fitted, ethUp, controlRest>>
EditStep == fitted /\ Edit /\ UNCHANGED <<fitted, ethUp, controlRest>>
Payloads == fitted /\ Heartbeat /\ UNCHANGED <<fitted, ethUp, dbNet, controlRest>>

Mishap ==
    /\ fitted
    /\ Kill \/ PppEnds \/ SessionDrops \/ \E command \in Commands : Order(command)
    /\ UNCHANGED <<fitted, ethUp, dbNet, controlRest>>

LinkStep == fitted /\ EthToggle /\ UNCHANGED modemVars
ControlStep == ~ fitted /\ Next /\ UNCHANGED modemVars

ModemNext == Program \/ FetchStep \/ EditStep \/ Payloads \/ Mishap
                \/ LinkStep \/ ControlStep

allVars == <<vars, modemVars>>

ModemSpec == ModemInit /\ [][ModemNext]_allVars

(* The loop goes round: every call it makes has a time limit.  The core    *)
(* sends heartbeats for good.  Nobody is fair who edits, orders, kills.    *)
ModemFairSpec ==
    /\ ModemSpec
    /\ WF_allVars(Program \/ FetchStep)
    /\ WF_allVars(Payloads)
-----------------------------------------------------------------------------
ModemTypeOK ==
    /\ fitted \in BOOLEAN
    /\ state \in States \cup {"startup"}
    /\ event \in Events
    /\ cmd \in {"none", "done"} \cup Commands
    /\ step \in {"none", "read", "pon", "net", "work", "publish", "ack", "poff", "reboot"}
    /\ use_modem \in BOOLEAN /\ ppp \in BOOLEAN /\ session \in BOOLEAN
    /\ waiting \in BOOLEAN /\ send_needed \in BOOLEAN
    /\ orphaned \in BOOLEAN /\ forgone \in BOOLEAN
    /\ config \in Nat /\ snapshot \in Nat /\ payload \in Nat /\ cloud \in Nat
    /\ care \in {"done"} \cup Commands
    /\ tally \in [faults : Nat, orders : Nat, rebootOrders : Nat, reboots : Nat,
                   lostAcks : Nat]

(* The serial port is lent to pppd only while a command is carried out,    *)
(* though network_type may change in the middle of it; only a program that *)
(* is killed leaves it behind ("ensure PPP is dead", "poff before reboot   *)
(* - releases /dev/ttyS0 cleanly").                                        *)
PppIsPutDown == ppp /\ cmd = "none" => orphaned

(* The machine reboots once for each order, and once more only for each    *)
(* acknowledgement that was lost: the order stands at ThingsBoard until    *)
(* the device itself takes it back, and the limiter that should stop the   *)
(* repetition ends with the process (net_reboot.py, net_reboot_done.py).   *)
RebootsPaidFor == tally.reboots <= tally.rebootOrders + tally.lostAcks

(* Under GSM every change of the configuration reaches ThingsBoard: after  *)
(* any exception the states meet their events again, the session is set up *)
(* again, commands are carried out and taken back, and a send that failed  *)
(* is tried again; unless a killed program has left the port to pppd, the  *)
(* send was forgone, or the order is the one that nothing carries out.     *)
EditsReachCloud ==
    <>[](dbNet = "gsm" /\ care # "runota") /\ []((~ orphaned) /\ fitted)
        => <>[](cloud = config \/ forgone)
=============================================================================
