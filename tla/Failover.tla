------------------------------ MODULE Failover ------------------------------
(***************************************************************************)
(* The control plane of the two uplinks: network_type in modem_config.db,  *)
(* the boot and the failover monitor of the core                           *)
(* (TLChronosProMAIN_391.py), the container dexter-mqtt                    *)
(* (thingsboard_mqtt_publisher.py under docker-compose.yml), and the user  *)
(* at the LCD or at the web page (webserver/seple.py).                     *)
(*                                                                         *)
(* They share one database cell and no lock: each read of it, each write   *)
(* to it and each call to the docker socket is a step.                     *)
(***************************************************************************)
EXTENDS Integers

CONSTANTS StableThreshold,  (* _ETH_STABLE_THRESHOLD, 6 in the code            *)
          InitialModes,     (* what network_type may hold at first             *)
          Users,            (* where users change the mode: "lcd", "web"       *)
          Faults,           (* whether database and docker calls may fail      *)
          EthReturns,       (* whether a link that was lost may come back      *)
          MaxCoreCrashes,   (* bounds of the model: crashes of the core,       *)
          MaxMqttCrashes    (* crashes of the publisher                        *)

Modes == {"ethernet", "gsm"}

ASSUME ConstantsAssumption ==
    /\ StableThreshold \in Nat \ {0}
    /\ InitialModes \subseteq Modes
    /\ Users \subseteq {"lcd", "web"}
    /\ Faults \in BOOLEAN /\ EthReturns \in BOOLEAN
    /\ MaxCoreCrashes \in Nat /\ MaxMqttCrashes \in Nat

VARIABLES ethUp,            (* eth0 reaches the internet                       *)
          dbNet,            (* network_type in modem_config.db                 *)
          core,             (* where the core's boot stands                    *)
          bootNet,          (* _db_network_type, read at the boot              *)
          network_type,     (* the core's global: 1 ethernet, 2 gsm            *)
          monitor,          (* where _run_failover_monitor stands              *)
          active,           (* _failover_gsm_active                            *)
          stable,           (* _eth_stable_count                               *)
          mqtt,             (* the container dexter-mqtt                       *)
          web,              (* the web handler: has it still to restart mqtt   *)
          chosen,           (* history: what the user asked for last, or none  *)
          upPolls,          (* history: polls in a row that saw eth0 up        *)
          crashes           (* of the core and of the publisher                *)

coreVars    == <<core, bootNet>>
monitorVars == <<network_type, monitor, active, stable, upPolls>>
userVars    == <<web, chosen>>
vars == <<ethUp, dbNet, core, bootNet, network_type, monitor, active, stable,
          mqtt, web, chosen, upPolls, crashes>>

Init ==
    /\ ethUp \in BOOLEAN
    /\ dbNet \in InitialModes
    /\ core = "down"
    /\ bootNet = "None"
    /\ network_type = 2
    /\ monitor = "off"
    /\ active = FALSE
    /\ stable = 0
    /\ mqtt = "starting"
    /\ web = "idle"
    /\ chosen = "none"
    /\ upPolls = 0
    /\ crashes = [core |-> 0, mqtt |-> 0]

(* update_parameter logs a sqlite error and returns as if it had written. *)
WriteNet(mode) == dbNet' = mode \/ (Faults /\ dbNet' = dbNet)

(* POST /containers/dexter-mqtt/restart: it is not tried again if it fails. *)
RestartMqtt == mqtt' = "starting" \/ (Faults /\ mqtt' = mqtt)

EthToggle ==
    /\ ethUp \/ EthReturns
    /\ ethUp' = ~ ethUp
    /\ UNCHANGED <<dbNet, coreVars, monitorVars, mqtt, userVars, crashes>>

-----------------------------------------------------------------------------
(* The boot of the core *)

CoreBootRead ==
    /\ core = "down"
    /\ bootNet' = dbNet \/ (Faults /\ bootNet' = "None")
    /\ core' = IF bootNet' = "gsm" THEN "check" ELSE "start"
    /\ UNCHANGED <<ethUp, dbNet, monitorVars, mqtt, userVars, crashes>>

CoreBootCheck ==
    /\ core = "check"
    /\ core' = IF ethUp THEN "override" ELSE "start"
    /\ UNCHANGED <<ethUp, dbNet, bootNet, monitorVars, mqtt, userVars, crashes>>

(* Mutant: the boot overrides its own copy and not the database. *)
CoreBootOverride_NoWrite ==
    /\ core = "override"
    /\ bootNet' = "ethernet"
    /\ core' = "start"
    /\ UNCHANGED <<ethUp, dbNet, monitorVars, mqtt, userVars, crashes>>

(* "overriding stale network_type='gsm'". *)
CoreBootOverride ==
    /\ core = "override"
    /\ WriteNet("ethernet")
    /\ bootNet' = "ethernet"
    /\ core' = "start"
    /\ UNCHANGED <<ethUp, monitorVars, mqtt, userVars, crashes>>

(* The monitor is started for ethernet only; a value that could not be     *)
(* read leaves the default, 2.                                             *)
CoreBootStart ==
    /\ core = "start"
    /\ network_type' = IF bootNet = "ethernet" THEN 1 ELSE 2
    /\ monitor' = IF network_type' = 1 THEN "sleep" ELSE "off"
    /\ core' = "up"
    /\ UNCHANGED <<ethUp, dbNet, bootNet, active, stable, mqtt, userVars, upPolls, crashes>>

(* The process dies, in whatever it was doing, and docker restarts it; the *)
(* flags of the monitor were in its memory.                                *)
CoreCrash ==
    /\ core # "down"
    /\ crashes.core < MaxCoreCrashes
    /\ crashes' = [crashes EXCEPT !.core = @ + 1]
    /\ core' = "down"
    /\ bootNet' = "None"
    /\ network_type' = 2
    /\ monitor' = "off"
    /\ active' = FALSE
    /\ stable' = 0
    /\ upPolls' = 0
    /\ UNCHANGED <<ethUp, dbNet, mqtt, userVars>>

-----------------------------------------------------------------------------
(* The failover monitor *)

CountPoll == upPolls' = IF ethUp THEN (IF upPolls < StableThreshold
                                       THEN upPolls + 1 ELSE upPolls)
                                 ELSE 0

(* Mutant: a flap of the link does not reset the stability count. *)
MonitorPoll_KeepsCount ==
    /\ monitor = "sleep"
    /\ CountPoll
    /\ \/ /\ ~ ethUp /\ ~ active
          /\ active' = TRUE
          /\ network_type' = 2
          /\ monitor' = "db_gsm"
          /\ UNCHANGED stable
       \/ /\ ethUp /\ active
          /\ stable + 1 < StableThreshold
          /\ stable' = stable + 1
          /\ UNCHANGED <<network_type, monitor, active>>
       \/ /\ ethUp /\ active
          /\ stable + 1 >= StableThreshold
          /\ stable' = 0
          /\ active' = FALSE
          /\ network_type' = 1
          /\ monitor' = "db_ethernet"
       \/ /\ ~ ethUp /\ active
          /\ UNCHANGED <<network_type, monitor, active, stable>>
       \/ /\ ethUp /\ ~ active
          /\ UNCHANGED <<network_type, monitor, active, stable>>
    /\ UNCHANGED <<ethUp, dbNet, coreVars, mqtt, userVars, crashes>>

(* One pass of the loop up to the database: ping, and set the flags. *)
MonitorPoll ==
    /\ monitor = "sleep"
    /\ CountPoll
    /\ \/ /\ ~ ethUp /\ ~ active                        (* eth0 lost *)
          /\ active' = TRUE
          /\ network_type' = 2
          /\ monitor' = "db_gsm"
          /\ UNCHANGED stable
       \/ /\ ethUp /\ active                            (* up, but not for long *)
          /\ stable + 1 < StableThreshold
          /\ stable' = stable + 1
          /\ UNCHANGED <<network_type, monitor, active>>
       \/ /\ ethUp /\ active                            (* up for long enough *)
          /\ stable + 1 >= StableThreshold
          /\ stable' = 0
          /\ active' = FALSE
          /\ network_type' = 1
          /\ monitor' = "db_ethernet"
       \/ /\ ~ ethUp /\ active                          (* still down *)
          /\ stable' = 0
          /\ UNCHANGED <<network_type, monitor, active>>
       \/ /\ ethUp /\ ~ active                          (* still up *)
          /\ UNCHANGED <<network_type, monitor, active, stable>>
    /\ UNCHANGED <<ethUp, dbNet, coreVars, mqtt, userVars, crashes>>

(* Mutant: the write of the failover is left out. *)
MonitorDbGsm_NoWrite ==
    /\ monitor = "db_gsm"
    /\ monitor' = "sleep"
    /\ UNCHANGED <<ethUp, dbNet, coreVars, network_type, active, stable, mqtt,
                   userVars, upPolls, crashes>>

MonitorDbGsm ==
    /\ monitor = "db_gsm"
    /\ WriteNet("gsm")
    /\ monitor' = "sleep"
    /\ UNCHANGED <<ethUp, coreVars, network_type, active, stable, mqtt, userVars,
                   upPolls, crashes>>

(* Mutant: dexter-mqtt is not restarted at the switch-back. *)
MonitorDbEthernet_NoRestart ==
    /\ monitor = "db_ethernet"
    /\ WriteNet("ethernet")
    /\ monitor' = "sleep"
    /\ UNCHANGED <<ethUp, coreVars, network_type, active, stable, mqtt, userVars,
                   upPolls, crashes>>

MonitorDbEthernet ==
    /\ monitor = "db_ethernet"
    /\ WriteNet("ethernet")
    /\ monitor' = "restart_mqtt"
    /\ UNCHANGED <<ethUp, coreVars, network_type, active, stable, mqtt, userVars,
                   upPolls, crashes>>

MonitorRestartMqtt ==
    /\ monitor = "restart_mqtt"
    /\ RestartMqtt
    /\ monitor' = "sleep"
    /\ UNCHANGED <<ethUp, dbNet, coreVars, network_type, active, stable, userVars,
                   upPolls, crashes>>

-----------------------------------------------------------------------------
(* The publisher: network_type is read once, at its start. *)

MqttStart ==
    /\ mqtt = "starting"
    /\ \/ mqtt' = IF dbNet = "ethernet" THEN "running" ELSE "exited"
       \/ Faults /\ mqtt' = "exited"      (* get_parameter returned None *)
    /\ UNCHANGED <<ethUp, dbNet, coreVars, monitorVars, userVars, crashes>>

(* "restart: on-failure": only a crash starts it again. *)
MqttCrash ==
    /\ mqtt = "running"
    /\ crashes.mqtt < MaxMqttCrashes
    /\ crashes' = [crashes EXCEPT !.mqtt = @ + 1]
    /\ mqtt' = "starting"
    /\ UNCHANGED <<ethUp, dbNet, coreVars, monitorVars, userVars>>

-----------------------------------------------------------------------------
(* The user *)

(* The menu of the LCD toggles the database and restarts nothing. *)
LcdToggle ==
    /\ core = "up"
    /\ chosen' = IF dbNet = "ethernet" THEN "gsm" ELSE "ethernet"
    /\ WriteNet(chosen')
    /\ UNCHANGED <<ethUp, coreVars, monitorVars, mqtt, web, crashes>>

(* Mutant: the web page does not ask for the restart of the publisher. *)
WebSet_NoRestart(mode) ==
    /\ web = "idle"
    /\ chosen' = mode
    /\ WriteNet(mode)
    /\ UNCHANGED <<ethUp, coreVars, monitorVars, mqtt, web, crashes>>

(* The page of the web server writes the mode ...                          *)
WebSet(mode) ==
    /\ web = "idle"
    /\ chosen' = mode
    /\ WriteNet(mode)
    /\ web' = "restart"
    /\ UNCHANGED <<ethUp, coreVars, monitorVars, mqtt, crashes>>

(* ... and then restarts the publisher. *)
WebRestart ==
    /\ web = "restart"
    /\ RestartMqtt
    /\ web' = "idle"
    /\ UNCHANGED <<ethUp, dbNet, coreVars, monitorVars, chosen, crashes>>

UserActs(user) == IF user = "lcd" THEN LcdToggle ELSE \E mode \in Modes : WebSet(mode)

-----------------------------------------------------------------------------
Boot    == CoreBootRead \/ CoreBootCheck \/ CoreBootOverride \/ CoreBootStart
Monitor == MonitorPoll \/ MonitorDbGsm \/ MonitorDbEthernet \/ MonitorRestartMqtt

Next ==
    \/ EthToggle
    \/ Boot
    \/ CoreCrash
    \/ Monitor
    \/ MqttStart
    \/ MqttCrash
    \/ \E user \in Users : UserActs(user)
    \/ WebRestart

(* Every program runs on: the boot is a straight line, the monitor polls   *)
(* every 30 s, docker starts a container it has to start, and a request to *)
(* the web server ends.  Nothing makes the link come or go, or the user    *)
(* act, or a program crash.                                                *)
Fairness ==
    /\ WF_vars(Boot)
    /\ WF_vars(Monitor)
    /\ WF_vars(MqttStart)
    /\ WF_vars(WebRestart)

Spec == Init /\ [][Next]_vars
FairSpec == Spec /\ Fairness
-----------------------------------------------------------------------------
TypeOK ==
    /\ ethUp \in BOOLEAN
    /\ dbNet \in Modes
    /\ core \in {"down", "check", "override", "start", "up"}
    /\ bootNet \in Modes \cup {"None"}
    /\ network_type \in {1, 2}
    /\ monitor \in {"off", "sleep", "db_gsm", "db_ethernet", "restart_mqtt"}
    /\ active \in BOOLEAN
    /\ stable \in 0 .. StableThreshold - 1
    /\ mqtt \in {"starting", "running", "exited"}
    /\ web \in {"idle", "restart"}
    /\ chosen \in Modes \cup {"none"}
    /\ upPolls \in 0 .. StableThreshold
    /\ crashes \in [core : 0 .. MaxCoreCrashes, mqtt : 0 .. MaxMqttCrashes]

(* Whenever the monitor sleeps, its flag, the core's network_type and the  *)
(* database tell the same, as long as no user has interfered, whatever     *)
(* step a crash interrupted: the flags die with the process and the boot   *)
(* rebuilds them from the database (_run_failover_monitor, the boot).      *)
MonitorAgrees ==
    chosen = "none" /\ monitor = "sleep" =>
        (active <=> dbNet = "gsm") /\ (active <=> network_type = 2)

(* The core goes back to ethernet only after StableThreshold polls in a    *)
(* row that saw eth0 up, whatever flapped, crashed or was switched before  *)
(* ("to prevent flip-flopping on a flapping link").                        *)
SwitchBackNeedsStability ==
    [][monitor # "db_ethernet" /\ monitor' = "db_ethernet"
          => upPolls' = StableThreshold]_vars

(* "Mode B - Ethernet Primary (network_type = 'ethernet' in DB)":           *)
(* "dexter-mqtt | Running. Sends telemetry via paho-mqtt over eth0"         *)
(* (network_architecture.md).  While the database says ethernet the modem  *)
(* program sends nothing, so with no step under way the publisher must be  *)
(* running, or about to.                                                   *)
SomeoneSends ==
    core = "up" /\ monitor \in {"off", "sleep"} /\ web = "idle" =>
        (dbNet = "ethernet" => mqtt # "exited")

(* As long as the core has not been restarted and the user has not asked   *)
(* for GSM, no order of the writes of the monitor and the web page, the    *)
(* restarts they ask for and the one read of the publisher leaves both     *)
(* senders silent.                                                         *)
SomeoneSendsInModeB == crashes.core = 0 /\ chosen # "gsm" => SomeoneSends

(* A link that stays up is used again: "restores to ethernet when ping     *)
(* succeeds" (network_architecture.md, behaviour matrix), if no restart of *)
(* the core has forgotten that it had failed over.                         *)
EventuallyRestored ==
    [](crashes.core = 0 /\ chosen = "none") /\ <>[]ethUp
        => <>[](dbNet = "ethernet" /\ mqtt = "running")

(* A link that stays down is left, over any restart: "Monitor detects ->   *)
(* GSM" (network_architecture.md, behaviour matrix).                       *)
EventuallyOverGsm ==
    [](chosen = "none") /\ <>[](~ ethUp) => <>[](dbNet = "gsm")

(* A user who asks for ethernet, and leaves it so, gets it when the link   *)
(* is there, whatever the monitor was doing, in a core that is not         *)
(* restarted ("Two Network Modes (user-controlled via LCD/webserver)").    *)
UserEthernetTakesEffect ==
    [](crashes.core = 0) /\ <>[](ethUp /\ chosen = "ethernet")
        => []<>(dbNet = "ethernet" /\ mqtt = "running")

(* All three: the network in use is in the end the one that the link       *)
(* allows (_run_failover_monitor), or the ethernet the user asks for.      *)
NetworkFollowsLink == EventuallyRestored /\ EventuallyOverGsm /\ UserEthernetTakesEffect

(* What makes MonitorAgrees inductive: between its flags and its write the *)
(* monitor knows what it is about to write, and a boot that has read the   *)
(* database finds it unchanged, for nobody else has written.               *)
MonitorWrites ==
    /\ monitor = "db_gsm" => active /\ network_type = 2 /\ dbNet = "ethernet"
    /\ monitor = "db_ethernet" => ~ active /\ network_type = 1 /\ dbNet = "gsm"
    /\ monitor = "restart_mqtt" => ~ active /\ network_type = 1 /\ dbNet = "ethernet"
    /\ monitor = "off" => ~ active

BootReads ==
    /\ core # "up" => monitor = "off" /\ ~ active
    /\ core \in {"check", "start"} => bootNet = dbNet

AgreeInv == chosen = "none" => MonitorAgrees /\ MonitorWrites /\ BootReads

(* stable never runs ahead of the polls that saw eth0 up.                  *)
StableInv ==
    /\ stable <= upPolls
    /\ ~ active => stable = 0
=============================================================================
