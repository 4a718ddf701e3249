------------------------------ MODULE ZonePanel ------------------------------
(***************************************************************************)
(* One wired input of the panel, from its terminal to all that is told of  *)
(* it, in TLChronosProMAIN_391.py: which zone it belongs to, which cells   *)
(* of the settings that zone has, what its screens at the LCD write there, *)
(* what the settings files keep, which report generateReportMsg makes of a *)
(* change, which lamps and relays outputShiftRegLEDDisplay sets, and when  *)
(* the buzzer sounds.                                                      *)
(*                                                                         *)
(* In the code each of these is a long list of cases, one for each input   *)
(* or zone and some of them twice, that must fit one another.  They are    *)
(* the tables below.  ZoneSupervision has the order of the stages, the     *)
(* reset and the crashes for any tables.                                    *)
(***************************************************************************)
EXTENDS Integers, Sequences

CONSTANTS Followed,    (* the inputs to follow, one of them in a behaviour     *)
          NearZones,   (* the zones, counted from that of the input, that are  *)
                       (* edited: those far from it cannot matter to it        *)
          BuzzSeconds, (* how long the buzzer sounds, 60 in the code           *)
          MaxActs,     (* bound of the model: what a technician does           *)
          MaxRestarts  (* bound of the model: crashes and reboots              *)

Nothing == "nothing"
Entries == 0 .. 47
Lines   == ({1, 2, 3} \X (0 .. 15)) \ {<<3, 15>>}

ASSUME ZonePanelAssumption ==
    /\ Followed \subseteq Lines
    /\ NearZones \subseteq -15 .. 15
    /\ BuzzSeconds \in Nat \ {0}
    /\ MaxActs \in Nat
    /\ MaxRestarts \in Nat

VARIABLES line,       (* the input that is followed: multiplexer and position  *)
          hist,       (* what it was when last read, -1 for unseen: mux1_x0... *)
          settings,   (* zoneSettings and powerZoneSettings                    *)
          files,      (* zoneSettings.txt and powerZoneSettings.txt, by rows   *)
          raised,     (* zoneIsActive, zoneIsFault, ..., with their types      *)
          request,    (* zoneFaultBuzzerOn                                     *)
          sounding,   (* buzzerOnTime3Sec1                                     *)
          tick,       (* tick1Sec3                                             *)
          seconds,    (* counterTimer1Sec3                                     *)
          lit,        (* the lamps and relays that are on, and the buzzer      *)
          menu,       (* the settings menu that the LCD is in, if any          *)
          stage,      (* before, after the initial scan, or in the main loop   *)
          setupMode,  (* setup_mode of the settings database                   *)
          acts, restarts,
          chosen,     (* history: what the screens of the input's zone say,    *)
          kept,       (* and what they said when it was last saved             *)
          seen,       (* history: the last change of the input since the boot, *)
                      (* while its zone was on, with what was chosen then      *)
          told,       (* history: what was reported at that change             *)
          called      (* history: the last alarm of a zone with its buzzer on: *)
                      (* the seconds since, whether it was heard, and whether  *)
                      (* something may have kept it silent                     *)

settingVars == <<settings, files, menu, chosen, kept>>
buzzerVars  == <<request, sounding, tick, seconds, called>>
vars == <<line, hist, settingVars, raised, buzzerVars, lit, stage, setupMode,
              acts, restarts, seen, told>>

Groups == {"zones", "power"}

-----------------------------------------------------------------------------
(* The types of the zones: the code that a cell of the settings may hold,  *)
(* and the names that both scanners give to it.  A code that is not named  *)
(* leaves the type 0.                                                      *)

TypeNames == <<"BAS", "FAS", "TIME_LOCK", "BACS", "CCTV", "IAS">>
ZoneCodes == {1, 2, 3, 4, 6}

(* Z1, Z2, ...: their cell, and the codes that are named.                  *)
InitScanTypes ==
    << <<2, ZoneCodes>>, <<5, ZoneCodes>>, <<8, ZoneCodes>>, <<11, ZoneCodes>>,
       <<14, ZoneCodes>>, <<17, ZoneCodes>>, <<20, ZoneCodes>>, <<23, ZoneCodes>>,
       <<26, ZoneCodes>>, <<29, ZoneCodes>>, <<32, ZoneCodes>>, <<35, ZoneCodes>>,
       <<38, ZoneCodes \ {6}>>, <<41, ZoneCodes>> >>

ScanTypes ==
    << <<2, ZoneCodes>>, <<5, ZoneCodes>>, <<8, ZoneCodes>>, <<11, ZoneCodes>>,
       <<14, ZoneCodes>>, <<17, ZoneCodes>>, <<20, ZoneCodes>>, <<23, ZoneCodes>>,
       <<26, ZoneCodes>>, <<29, ZoneCodes>>, <<32, ZoneCodes>>, <<35, ZoneCodes>>,
       <<38, ZoneCodes \ {6}>>, <<41, ZoneCodes>> >>

(* PZ1, PZ2, ...: all codes are named.                                     *)
InitScanPowerTypes == <<2, 5, 8, 11, 14, 17, 20, 23>>
ScanPowerTypes     == <<2, 5, 8, 11, 14, 17, 20, 23>>

-----------------------------------------------------------------------------
(* What is wired to the inputs *)

(* The flags of a kind of alarm, and the reports of its beginning and end. *)
Alarm(kind, group, cell, zone, begin, end) ==
    [kind |-> kind, group |-> group, cell |-> cell, zone |-> zone, quiet |-> FALSE,
     begin |-> begin, end |-> end]

Active(cell, zone) ==
    Alarm("active", "zones", cell, zone, "system_activate", "system_activation_restored")
Fault(cell, zone) ==
    Alarm("fault", "zones", cell, zone, "alarm_system_fault", "system_fault_condition_restored")
Tamper(cell, zone) ==
    Alarm("tamper", "zones", cell, zone, "tamper", "tamper_restored")
Disconnected(cell, zone) ==
    Alarm("disconnected", "zones", cell, zone, "camera_disconnect", "connection_established")
HddError(cell, zone) ==
    Alarm("hdd", "zones", cell, zone, "hdd_error", "error_restored")
Off(cell, zone) ==
    Alarm("off", "power", cell, zone, "alarm_system_off", "alarm_system_on")

(* The beginning is reported only if the buzzer of the zone is on.         *)
Quiet(alarm) == [alarm EXCEPT !.quiet = TRUE]

(* Inputs that belong to no zone.                                          *)
Other(kind) == Alarm(kind, Nothing, 0, 0, Nothing, Nothing)
ShutDown == Other("shutdown")
Mains    == Other("mains")
Battery  == Other("battery")
Unused   == Other("unused")

(* The initial scan: the three multiplexers at each position.              *)
InitScan0 == <<Active(0, 1), Disconnected(21, 8), Active(39, 14)>>
InitScan1 == <<Fault(0, 1), HddError(21, 8), Fault(39, 14)>>
InitScan2 == <<Active(3, 2), Off(0, 1), Tamper(42, 15)>>
InitScan3 == <<Fault(3, 2), Off(3, 2), Disconnected(42, 15)>>
InitScan4 == <<Active(6, 3), Off(6, 3), HddError(42, 15)>>
InitScan5 == <<Fault(6, 3), Off(9, 4), Tamper(45, 16)>>
InitScan6 == <<Active(9, 4), Active(24, 9), Quiet(Disconnected(45, 16))>>
InitScan7 == <<Quiet(Fault(9, 4)), Quiet(Fault(24, 9)), Quiet(HddError(45, 16))>>
InitScan8 == <<Active(12, 5), Active(27, 10), Off(12, 5)>>
InitScan9 == <<Fault(12, 5), Fault(27, 10), Off(15, 6)>>
InitScan10 == <<Active(15, 6), Active(30, 11), Off(18, 7)>>
InitScan11 == <<Fault(15, 6), Fault(30, 11), Off(21, 8)>>
InitScan12 == <<Tamper(18, 7), Active(33, 12), ShutDown>>
InitScan13 == <<Disconnected(18, 7), Fault(33, 12), Mains>>
InitScan14 == <<HddError(18, 7), Active(36, 13), Battery>>
InitScan15 == <<Tamper(21, 8), Fault(36, 13), Unused>>

InitScan ==
    <<InitScan0, InitScan1, InitScan2, InitScan3, InitScan4, InitScan5, InitScan6, InitScan7,
      InitScan8, InitScan9, InitScan10, InitScan11, InitScan12, InitScan13, InitScan14,
      InitScan15>>

(* The scan of the main loop has a table of its own.                       *)
Scan0 == <<Active(0, 1), Disconnected(21, 8), Active(39, 14)>>
Scan1 == <<Fault(0, 1), HddError(21, 8), Fault(39, 14)>>
Scan2 == <<Active(3, 2), Off(0, 1), Tamper(42, 15)>>
Scan3 == <<Fault(3, 2), Off(3, 2), Disconnected(42, 15)>>
Scan4 == <<Active(6, 3), Off(6, 3), HddError(42, 15)>>
Scan5 == <<Fault(6, 3), Off(9, 4), Tamper(45, 16)>>
Scan6 == <<Active(9, 4), Active(24, 9), Quiet(Disconnected(45, 16))>>
Scan7 == <<Quiet(Fault(9, 4)), Quiet(Fault(24, 9)), Quiet(HddError(45, 16))>>
Scan8 == <<Active(12, 5), Active(27, 10), Off(12, 5)>>
(* Mutant: the second input looks at the cells of the zone before its own. *)
Scan9_ZoneBefore == <<Fault(12, 5), Fault(24, 10), Off(15, 6)>>
Scan9 == <<Fault(12, 5), Fault(27, 10), Off(15, 6)>>
Scan10 == <<Active(15, 6), Active(30, 11), Off(18, 7)>>
Scan11 == <<Fault(15, 6), Fault(30, 11), Off(21, 8)>>
Scan12 == <<Tamper(18, 7), Active(33, 12), ShutDown>>
Scan13 == <<Disconnected(18, 7), Fault(33, 12), Mains>>
Scan14 == <<HddError(18, 7), Active(36, 13), Battery>>
Scan15 == <<Tamper(21, 8), Fault(36, 13), Unused>>
Scan ==
    <<Scan0, Scan1, Scan2, Scan3, Scan4, Scan5, Scan6, Scan7, Scan8, Scan9, Scan10, Scan11,
      Scan12, Scan13, Scan14, Scan15>>

(* What the followed input is, in one of the two tables.                   *)
WiredIn(table) == table[line[2] + 1][line[1]]

-----------------------------------------------------------------------------
(* generateReportMsg: the log_type that is sent for a type of device and a *)
(* kind of report.                                                         *)

SystemReports ==
    [system_activate |->
        [BAS |-> "intrusion_alarm_system_activate", FAS |-> "fire_alarm_system_activate",
         BACS |-> "access_control_door_open", TIME_LOCK |-> "time_lock_door_open",
         IAS |-> "integrated_alarm_system_activate"],
     system_activation_restored |->
        [BAS |-> "intrusion_alarm_system_activation_restored",
         FAS |-> "fire_alarm_system_activation_restored",
         BACS |-> "access_control_door_close", TIME_LOCK |-> "time_lock_door_close",
         IAS |-> "integrated_alarm_system_activation_restored"],
     alarm_system_off |->
        [BAS |-> "intrusion_alarm_system_off", FAS |-> "fire_alarm_system_off",
         TIME_LOCK |-> "time_lock_system_off", BACS |-> "access_control_system_off",
         CCTV |-> "dvr_nvr_off", IAS |-> "integrated_alarm_system_off"],
     alarm_system_on |->
        [BAS |-> "intrusion_alarm_system_on", FAS |-> "fire_alarm_system_on",
         TIME_LOCK |-> "time_lock_system_on", BACS |-> "access_control_system_on",
         CCTV |-> "dvr_nvr_on", IAS |-> "integrated_alarm_system_on"],
     alarm_system_fault |->
        [BAS |-> "intrusion_alarm_system_fault", FAS |-> "fire_alarm_system_fault",
         BACS |-> "access_control_system_tamper", TIME_LOCK |-> "time_lock_tamper",
         IAS |-> "integrated_alarm_system_fault"],
     system_fault_condition_restored |->
        [BAS |-> "intrusion_alarm_system_fault_condition_restored",
         FAS |-> "fire_alarm_system_fault_condition_restored",
         TIME_LOCK |-> "time_lock_tamper_restored",
         BACS |-> "access_control_system_tamper_restored",
         IAS |-> "integrated_alarm_system_fault_condition_restored"]]

CameraReports ==
    [tamper_restored |->
        [TIME_LOCK |-> "time_lock_tamper_restored",
         BACS |-> "access_control_system_tamper_restored",
         CCTV |-> "camera_tampered_restored"],
     hdd_error |-> [CCTV |-> "hdd_error"],
     error_restored |-> [CCTV |-> "hdd_error_restored"],
     connection_established |-> [CCTV |-> "camera_connection_established"],
     camera_disconnect |-> [CCTV |-> "camera_disconnect"],
     tamper |->
        [BACS |-> "access_control_system_tamper", TIME_LOCK |-> "time_lock_tamper",
         CCTV |-> "camera_tampered"]]

(* Nothing is sent in the setup mode, nor if the table has no such case.   *)
Report(type, kind, inSetup) ==
    LET cases == IF kind \in DOMAIN SystemReports THEN SystemReports[kind]
                 ELSE CameraReports[kind]
    IN  IF inSetup \/ type \notin DOMAIN cases THEN Nothing ELSE cases[type]

-----------------------------------------------------------------------------
(* The screens of the LCD: the zone that they name, the cells that they    *)
(* write and the codes that the third one offers.  The screen of a camera  *)
(* zone writes CCTV, whatever key is pressed.                              *)

Screens(zone, on, buzzer, type, codes) ==
    [zone |-> zone, on |-> on, buzzer |-> buzzer, type |-> type, codes |-> codes]

Zone1 == Screens(1, 0, 1, 2, ZoneCodes)
Zone2 == Screens(2, 3, 4, 5, ZoneCodes)
Zone3 == Screens(3, 6, 7, 8, ZoneCodes)
Zone4 == Screens(4, 9, 10, 11, ZoneCodes)
Zone5 == Screens(5, 12, 13, 14, ZoneCodes)
Zone6 == Screens(6, 15, 16, 17, ZoneCodes)
Zone7 == Screens(7, 18, 19, 20, {5})
Zone8 == Screens(8, 21, 22, 23, {5})
Zone9 == Screens(9, 24, 25, 26, ZoneCodes)
Zone10 == Screens(10, 27, 28, 29, ZoneCodes)
Zone11 == Screens(11, 30, 31, 32, ZoneCodes)
Zone12 == Screens(12, 33, 34, 35, ZoneCodes)
Zone13 == Screens(13, 36, 37, 38, ZoneCodes)
Zone14 == Screens(14, 39, 40, 41, ZoneCodes)
Zone15 == Screens(15, 42, 43, 44, {5})
Zone16 == Screens(16, 45, 46, 47, {5})

PowerZone1 == Screens(1, 0, 1, 2, 1 .. 6)
PowerZone2 == Screens(2, 3, 4, 5, 1 .. 6)
PowerZone3 == Screens(3, 6, 7, 8, 1 .. 6)
PowerZone4 == Screens(4, 9, 10, 11, 1 .. 6)
PowerZone5 == Screens(5, 12, 13, 14, 1 .. 6)
PowerZone6 == Screens(6, 15, 16, 17, 1 .. 6)
PowerZone7 == Screens(7, 18, 19, 20, 1 .. 6)
PowerZone8 == Screens(8, 21, 22, 23, 1 .. 6)

ScreensOf(group) ==
    IF group = "zones"
    THEN <<Zone1, Zone2, Zone3, Zone4, Zone5, Zone6, Zone7, Zone8, Zone9, Zone10, Zone11,
           Zone12, Zone13, Zone14, Zone15, Zone16>>
    ELSE <<PowerZone1, PowerZone2, PowerZone3, PowerZone4, PowerZone5, PowerZone6, PowerZone7,
           PowerZone8>>

-----------------------------------------------------------------------------
(* The settings files, of 16 rows of three numbers *)

WriteZones(cells) == [row \in 0 .. 15 |-> <<cells[3 * row], cells[3 * row + 1], cells[3 * row + 2]>>]
ReadZones(file)   == [cell \in Entries |-> file[cell \div 3][(cell % 3) + 1]]
WritePower(cells) == [row \in 0 .. 15 |-> <<cells[3 * row], cells[3 * row + 1], cells[3 * row + 2]>>]
ReadPower(file)   == [cell \in Entries |-> file[cell \div 3][(cell % 3) + 1]]

Write(group, cells) == IF group = "zones" THEN WriteZones(cells) ELSE WritePower(cells)
Read(group, file)   == IF group = "zones" THEN ReadZones(file) ELSE ReadPower(file)

(* The types after resetToDefault; all zones and buzzers are off then.     *)
DefaultTypes ==
    [zones |-> <<1, 1, 2, 2, 3, 4, 5, 5, 1, 1, 2, 2, 3, 4, 5, 5>>,
     power |-> <<1, 2, 3, 4, 5, 5, 5, 5, 0, 0, 0, 0, 0, 0, 0, 0>>]

(* What the files hold at first: the defaults, or all zones switched on.   *)
FirstFiles(on) == [g \in Groups |-> [row \in 0 .. 15 |-> <<on, on, DefaultTypes[g][row + 1]>>]]

-----------------------------------------------------------------------------
Input == WiredIn(Scan)
Zoned == Input.group # Nothing

(* The name of a type of device, for the technician at the LCD.            *)
Named(screens) == [on |-> screens[1] = 1, buzzer |-> screens[2] = 1, code |-> screens[3]]

Init ==
    /\ line \in Followed
    /\ \E on \in {0, 1} :
           /\ files = FirstFiles(on)
           /\ chosen = IF Zoned THEN Named(files[Input.group][Input.zone - 1])
                       ELSE Named(<<0, 0, 0>>)
    /\ settings = [g \in Groups |-> Read(g, files[g])]
    /\ kept = chosen
    /\ hist = -1
    /\ raised = {}
    /\ request = FALSE /\ sounding = FALSE /\ tick = FALSE /\ seconds = 0
    /\ lit = {}
    /\ menu = Nothing
    /\ stage = "boot"
    /\ setupMode = FALSE
    /\ acts = 0
    /\ restarts = 0
    /\ seen = {}
    /\ told = Nothing
    /\ called = {}

(* The type that a scanner takes the zone of an alarm for.                 *)
TypeIn(alarm, s, types, powerTypes) ==
    IF alarm.kind \in {"tamper", "disconnected", "hdd"} THEN "CCTV"
    ELSE IF alarm.group = "power" THEN TypeNames[s["power"][powerTypes[alarm.zone]]]
    ELSE LET type == types[alarm.zone]
             code == s["zones"][type[1]]
         IN  IF code \in type[2] THEN TypeNames[code] ELSE Nothing

(* What a scanner makes of a change of its input.                          *)
Outcome(alarms, asks, report) == [raised |-> alarms, asks |-> asks, told |-> report]

(* An input of a zone: nothing is done if the zone is off.                 *)
ZoneChanged(alarm, level, s, type, inSetup) ==
    LET others == {r \in raised : <<r.kind, r.zone>> # <<alarm.kind, alarm.zone>>}
        buzzer == s[alarm.group][alarm.cell + 1] = 1
    IN  IF s[alarm.group][alarm.cell] # 1 THEN Outcome(raised, FALSE, told)
        ELSE IF level = 0
        THEN Outcome(others, FALSE, Report(type, alarm.end, inSetup))
        ELSE Outcome(others \cup {[kind |-> alarm.kind, zone |-> alarm.zone, type |-> type]},
                     buzzer,
                     IF alarm.quiet /\ ~ buzzer THEN Nothing
                     ELSE Report(type, alarm.begin, inSetup))

(* An input of no zone: mains and battery are told in the setup mode too,  *)
(* and the end of a reversal only if its beginning was seen.               *)
OtherChanged(kind, level) ==
    Outcome(IF kind = "mains" /\ level = 1
            THEN {[kind |-> kind, zone |-> 0, type |-> Nothing]} ELSE {},
            FALSE,
            CASE kind = "mains" -> IF level = 1 THEN "battery_on" ELSE "mains_on"
              [] kind = "battery" /\ level = 0 -> "battery_reverse"
              [] kind = "battery" /\ level = 1 /\ hist = 0 -> "battery_reverse_restore"
              [] OTHER -> Nothing)

Change(table, level, s, types, powerTypes, inSetup) ==
    LET alarm == WiredIn(table)
    IN  IF Zoned
        THEN ZoneChanged(alarm, level, s, TypeIn(alarm, s, types, powerTypes), inSetup)
        ELSE OtherChanged(alarm.kind, level)

(* The history of a change: what the technician had chosen by then.        *)
Noted(level, choice, inSetup) ==
    IF Zoned /\ ~ choice.on THEN seen
    ELSE {[level |-> level, before |-> hist, code |-> choice.code,
           buzzer |-> choice.buzzer, inSetup |-> inSetup]}

CallsBuzzer(level, choice) == Zoned /\ choice.on /\ choice.buzzer /\ level = 1
JustCalled == {[seconds |-> 0, heard |-> FALSE, excused |-> FALSE]}

(* The boot reads the files and leaves the setup mode; then the initial    *)
(* scan takes each input for changed, at whatever level it is.             *)
Boot(level) ==
    /\ stage = "boot"
    /\ settings' = [g \in Groups |-> Read(g, files[g])]
    /\ chosen' = kept
    /\ setupMode' = FALSE
    /\ LET change == Change(InitScan, level, settings', InitScanTypes, InitScanPowerTypes, FALSE)
       IN  /\ raised' = change.raised
           /\ request' = change.asks
           /\ told' = change.told
    /\ seen' = Noted(level, kept, FALSE)
    /\ called' = IF CallsBuzzer(level, kept) THEN JustCalled ELSE called
    /\ hist' = level
    /\ stage' = "scanned"
    /\ UNCHANGED <<line, files, menu, kept, sounding, tick, seconds, lit, acts, restarts>>

-----------------------------------------------------------------------------
(* outputShiftRegLEDDisplay: a lamp is named for the type of the zone and  *)
(* the kind of the alarm.                                                  *)

RELAY_2    == <<"RELAY_2", "relay">>
RELAY_3    == <<"RELAY_3", "relay">>
BUZZER     == <<"BUZZER", "buzzer">>
BAT_ON_LED == <<"BAT_ON", "mains">>

Of(alarms, kind, types) == {r \in alarms : r.kind = kind /\ r.zone \in 1 .. 15 /\ r.type \in types}
Lamps(alarms)           == {<<r.type, r.kind>> : r \in alarms}
With(output, alarms)    == IF alarms = {} THEN {} ELSE {output}

(* Mutant: the tamper lamp of an access control system is forgotten.       *)
FaultLamps_NoAccess(alarms) ==
    LET faults == Of(alarms, "fault", {"TIME_LOCK", "BAS", "FAS"})
    IN  Lamps(faults) \cup With(RELAY_2, faults)

FaultLamps(alarms) ==
    LET faults == Of(alarms, "fault", {"TIME_LOCK", "BAS", "BACS", "FAS"})
    IN  Lamps(faults) \cup With(RELAY_2, faults)

OffLamps(alarms) == Lamps(Of(alarms, "off", {"TIME_LOCK", "BAS", "BACS", "FAS", "CCTV"}))

ActiveLamps(alarms) ==
    Lamps(Of(alarms, "active", {"BAS", "FAS"}))
      \cup With(RELAY_3, Of(alarms, "active", {"BAS", "FAS", "BACS", "TIME_LOCK"}))

CameraLamps(alarms) ==
    LET cameras == {r \in alarms : r.kind \in {"hdd", "disconnected", "tamper"}}
    IN  Lamps(cameras) \cup With(RELAY_2, cameras)

MainsLamp(alarms) == With(BAT_ON_LED, {r \in alarms : r.kind = "mains"})

(* Mutant: the seconds are not set back when the buzzer ends.              *)
Buzz_KeepsSeconds(asked, second) ==
    LET starts == sounding \/ asked
        counts == starts /\ (tick \/ second)
        ends   == counts /\ seconds + 1 > BuzzSeconds
    IN  [sounding |-> starts /\ ~ ends,
         tick |-> (tick \/ second) /\ ~ counts,
         seconds |-> IF counts THEN seconds + 1 ELSE seconds]

(* The buzzer: a request starts it, the seconds are counted while it       *)
(* sounds, and a request that comes meanwhile does not count them anew.    *)
Buzz(asked, second) ==
    LET starts == sounding \/ asked
        counts == starts /\ (tick \/ second)
        ends   == counts /\ seconds + 1 > BuzzSeconds
    IN  [sounding |-> starts /\ ~ ends,
         tick |-> (tick \/ second) /\ ~ counts,
         seconds |-> IF ends THEN 0 ELSE IF counts THEN seconds + 1 ELSE seconds]

(* A turn of the main loop: muxSelectionZone1, at the position of the      *)
(* input or at another one (-1), and the display.  Of the buzzer it has    *)
(* the share of the zones: low battery, tamper and beep sound it too.      *)
Turn(level, second) ==
    /\ stage # "boot"
    /\ LET edge   == hist = 1 - level
           change == IF edge
                     THEN Change(Scan, level, settings, ScanTypes, ScanPowerTypes, setupMode)
                     ELSE Outcome(raised, FALSE, told)
           buzz   == Buzz(request \/ change.asks, second)
           heard  == buzz.sounding /\ ~ setupMode
           calls  == IF edge /\ CallsBuzzer(level, chosen) THEN JustCalled
                     ELSE {[c EXCEPT !.seconds = IF second THEN @ + 1 ELSE @] :
                              c \in {d \in called : d.seconds <= BuzzSeconds}}
       IN  /\ hist' = IF edge THEN level ELSE hist
           /\ raised' = change.raised
           /\ told' = change.told
           /\ seen' = IF edge THEN Noted(level, chosen, setupMode) ELSE seen
           /\ request' = FALSE
           /\ sounding' = buzz.sounding
           /\ tick' = buzz.tick
           /\ seconds' = buzz.seconds
           /\ lit' = UNION {FaultLamps(raised'), OffLamps(raised'), ActiveLamps(raised'),
                            CameraLamps(raised'), MainsLamp(raised'),
                            IF heard THEN {BUZZER} ELSE {}}
           /\ called' = {[c EXCEPT !.heard = @ \/ heard,
                                   !.excused = @ \/ setupMode \/ (sounding /\ ~ buzz.sounding)] :
                             c \in calls}
    /\ stage' = "loop"
    /\ UNCHANGED <<line, settingVars, setupMode, acts, restarts>>

-----------------------------------------------------------------------------
(* What a technician does at the LCD *)

Act ==
    /\ stage = "loop"
    /\ acts < MaxActs
    /\ acts' = acts + 1
    /\ UNCHANGED <<line, hist, raised, buzzerVars, lit, stage, seen, told, restarts>>

(* A menu reads its file again, which takes back what was not saved.       *)
MenuEnter(group) ==
    /\ Act
    /\ menu = Nothing
    /\ menu' = group
    /\ settings' = [settings EXCEPT ![group] = Read(group, files[group])]
    /\ chosen' = IF Zoned /\ Input.group = group THEN kept ELSE chosen
    /\ UNCHANGED <<files, kept, setupMode>>

(* A key at one of the three screens of a zone.                            *)
Edit(cell, value, choice, screens) ==
    /\ Act
    /\ settings' = [settings EXCEPT ![menu][cell] = value]
    /\ chosen' = IF Input.group = menu /\ Input.zone = screens.zone THEN choice ELSE chosen
    /\ UNCHANGED <<files, kept, menu, setupMode>>

Toggle(cell) == IF settings[menu][cell] = 1 THEN 0 ELSE 1

EditZone(screens) ==
    \/ LET value == Toggle(screens.on)
       IN  Edit(screens.on, value, [chosen EXCEPT !.on = value = 1], screens)
    \/ LET value == Toggle(screens.buzzer)
       IN  Edit(screens.buzzer, value, [chosen EXCEPT !.buzzer = value = 1], screens)
    \/ \E code \in screens.codes :
           Edit(screens.type, code, [chosen EXCEPT !.code = code], screens)

MenuEdit ==
    /\ menu # Nothing
    /\ \E near \in NearZones :
           /\ Input.zone + near \in DOMAIN ScreensOf(menu)
           /\ EditZone(ScreensOf(menu)[Input.zone + near])

MenuExit ==
    /\ Act
    /\ menu # Nothing
    /\ files' = [files EXCEPT ![menu] = Write(menu, settings[menu])]
    /\ kept' = IF Input.group = menu THEN chosen ELSE kept
    /\ menu' = Nothing
    /\ UNCHANGED <<settings, chosen, setupMode>>

(* The key A, or ten minutes: nothing is written, and the edits stay.      *)
MenuAbandon ==
    /\ Act
    /\ menu # Nothing
    /\ menu' = Nothing
    /\ UNCHANGED <<settings, files, chosen, kept, setupMode>>

ToggleSetup ==
    /\ Act
    /\ menu = Nothing
    /\ setupMode' = ~ setupMode
    /\ UNCHANGED settingVars

(* A crash or a reboot: only the files and the databases are left.         *)
Restart ==
    /\ stage # "boot"
    /\ restarts < MaxRestarts
    /\ restarts' = restarts + 1
    /\ stage' = "boot"
    /\ hist' = -1
    /\ raised' = {}
    /\ request' = FALSE /\ sounding' = FALSE /\ tick' = FALSE /\ seconds' = 0
    /\ lit' = {}
    /\ menu' = Nothing
    /\ seen' = {} /\ told' = Nothing /\ called' = {}
    /\ UNCHANGED <<line, settings, files, chosen, kept, setupMode, acts>>

-----------------------------------------------------------------------------
Technician ==
    \/ \E group \in Groups : MenuEnter(group)
    \/ MenuEdit \/ MenuExit \/ MenuAbandon
    \/ ToggleSetup

Next ==
    \/ \E level \in {0, 1} : Boot(level)
    \/ \E level \in {-1, 0, 1}, second \in BOOLEAN : Turn(level, second)
    \/ Technician
    \/ Restart

Spec == Init /\ [][Next]_vars
-----------------------------------------------------------------------------
(* "Zone hardware event log_types — these are preserved across restarts"   *)
(* (database_handler.py): for each type of device, how each kind of alarm  *)
(* begins and ends.                                                        *)
ZONE_EVENT_LOG_TYPES ==
    [BAS |->
        [active |-> <<"intrusion_alarm_system_activate", "intrusion_alarm_system_activation_restored">>,
         off |-> <<"intrusion_alarm_system_off", "intrusion_alarm_system_on">>,
         fault |-> <<"intrusion_alarm_system_fault", "intrusion_alarm_system_fault_condition_restored">>],
     FAS |->
        [active |-> <<"fire_alarm_system_activate", "fire_alarm_system_activation_restored">>,
         off |-> <<"fire_alarm_system_off", "fire_alarm_system_on">>,
         fault |-> <<"fire_alarm_system_fault", "fire_alarm_system_fault_condition_restored">>],
     IAS |->
        [active |-> <<"integrated_alarm_system_activate", "integrated_alarm_system_activation_restored">>,
         off |-> <<"integrated_alarm_system_off", "integrated_alarm_system_on">>,
         fault |-> <<"integrated_alarm_system_fault", "integrated_alarm_system_fault_condition_restored">>],
     BACS |->
        [active |-> <<"access_control_door_open", "access_control_door_close">>,
         off |-> <<"access_control_system_off", "access_control_system_on">>,
         fault |-> <<"access_control_system_tamper", "access_control_system_tamper_restored">>],
     TIME_LOCK |->
        [active |-> <<"time_lock_door_open", "time_lock_door_close">>,
         off |-> <<"time_lock_system_off", "time_lock_system_on">>,
         fault |-> <<"time_lock_tamper", "time_lock_tamper_restored">>],
     CCTV |->
        [disconnected |-> <<"camera_disconnect", "camera_connection_established">>,
         tamper |-> <<"camera_tampered", "camera_tampered_restored">>,
         off |-> <<"dvr_nvr_off", "dvr_nvr_on">>,
         hdd |-> <<"hdd_error", "hdd_error_restored">>],
     mains |-> [mains |-> <<"battery_on", "mains_on">>],
     battery |-> [battery |-> <<"battery_reverse_restore", "battery_reverse">>]]

Cameras == {"tamper", "disconnected", "hdd"}

(* The device that the technician has wired to the input, as the LCD says. *)
Device(change) ==
    IF Input.kind \in Cameras THEN "CCTV"
    ELSE IF Zoned THEN TypeNames[change.code] ELSE Input.kind

(* The reports that are left out: of the four inputs that ask for the      *)
(* buzzer of their zone, and of an integrated alarm system in zone 13.     *)
LeftOut(change) ==
    \/ change.inSetup /\ Zoned
    \/ Input.quiet /\ change.level = 1 /\ ~ change.buzzer
    \/ Input.group = "zones" /\ Input.zone = 13 /\ Device(change) = "IAS"
    \/ Input.kind = "battery" /\ change.level = 1 /\ change.before = -1
    \/ Input.kind = "shutdown"

(* A change of an input is reported as what the screens of its zone said   *)
(* at that time, by a log_type that outlives a restart, and its end by the *)
(* one that belongs to its beginning, through edits, menus left without    *)
(* EXIT, restarts and both scanners (muxSelectionZone1,                    *)
(* muxSelectionZoneInitScan, generateReportMsg, zoneSettingsFileRW).       *)
ReportsAsChosen ==
    \A change \in seen :
        told = IF LeftOut(change) THEN Nothing
               ELSE ZONE_EVENT_LOG_TYPES[Device(change)][Input.kind][2 - change.level]

(* Every type that the screens of a zone offer is one whose alarms are     *)
(* reported (progZoneSettings, zone 13: "[IAS]").                          *)
OfferedTypesAreReported ==
    Zoned =>
        \A change \in seen :
            ~ change.inSetup /\ (Input.quiet => change.buzzer) => told # Nothing

Signs(device, kind) ==
    CASE kind \in Cameras -> {<<device, kind>>, RELAY_2}
      [] kind = "fault"   -> {<<device, kind>>, RELAY_2}
      [] kind = "off"     -> {<<device, kind>>}
      [] kind = "active"  -> {RELAY_3} \cup (IF device \in {"BAS", "FAS"} THEN {<<device, kind>>} ELSE {})
      [] kind = "mains"   -> {BAT_ON_LED}
      [] OTHER            -> {}

(* The lamps and relays show the last change that was seen while the zone  *)
(* was on, under the type that was chosen then, and nothing else; an       *)
(* integrated alarm system has neither (outputShiftRegLEDDisplay, both     *)
(* scanners).                                                              *)
LampsTell ==
    stage = "loop" =>
        \A change \in seen :
            lit \ {BUZZER} =
                IF change.level = 0 \/ (Zoned /\ Device(change) = "IAS") THEN {}
                ELSE Signs(Device(change), Input.kind)

(* An alarm of a zone whose buzzer is on is heard in the turn of the main  *)
(* loop that finds it, unless a technician is in the setup or that turn    *)
(* ends the minute of an earlier alarm, which takes the request along      *)
(* (outputShiftRegLEDDisplay); and the buzzer is not heard for longer than *)
(* its minute after the last of them.                                      *)
BuzzerAnswers ==
    stage = "loop" =>
        /\ \A call \in called : call.heard \/ call.excused
        /\ BUZZER \in lit => \E call \in called : call.seconds <= BuzzSeconds
=============================================================================
