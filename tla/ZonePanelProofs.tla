--------------------------- MODULE ZonePanelProofs ---------------------------
(***************************************************************************)
(* ZonePanel proved for any number of acts and restarts, for every zone    *)
(* that is edited and however long the buzzer sounds: what is reported,    *)
(* lit and heard of an input is what its screens say.                      *)
(***************************************************************************)
EXTENDS ZonePanel, TLAPS

(* What the tables of the code have in common: of a kind of alarm, where   *)
(* it is found, and how its beginning and end are reported.                *)
Begins == [active |-> "system_activate", fault |-> "alarm_system_fault",
           off |-> "alarm_system_off", tamper |-> "tamper",
           disconnected |-> "camera_disconnect", hdd |-> "hdd_error"]
Ends   == [active |-> "system_activation_restored", fault |-> "system_fault_condition_restored",
           off |-> "alarm_system_on", tamper |-> "tamper_restored",
           disconnected |-> "connection_established", hdd |-> "error_restored"]

ZonesOf(kind) ==
    IF kind = "off" THEN 1 .. 8
    ELSE IF kind \in Cameras THEN {7, 8, 15, 16} ELSE (1 .. 6) \cup (9 .. 14)

CodesOf(kind) == IF kind = "off" THEN 1 .. 6 ELSE IF kind \in Cameras THEN {5} ELSE ZoneCodes

ZoneAlarm(a) ==
    /\ a.kind \in {"active", "fault", "off", "tamper", "disconnected", "hdd"}
    /\ a.group = IF a.kind = "off" THEN "power" ELSE "zones"
    /\ a.zone \in ZonesOf(a.kind)
    /\ a.cell = 3 * (a.zone - 1)
    /\ a.quiet \in BOOLEAN
    /\ a.begin = Begins[a.kind] /\ a.end = Ends[a.kind]

OtherAlarm(a) ==
    /\ a.kind \in {"shutdown", "mains", "battery"}
    /\ a.group = Nothing /\ a.zone = 0 /\ a.quiet = FALSE

(* Both scanners know each input for the same alarm, at the cells of its   *)
(* zone.                                                                   *)
LEMMA SameTables == InitScan = Scan /\ InitScanTypes = ScanTypes
                      /\ InitScanPowerTypes = ScanPowerTypes
BY DEF InitScan, Scan, InitScan0, InitScan1, InitScan2, InitScan3, InitScan4, InitScan5,
       InitScan6, InitScan7, InitScan8, InitScan9, InitScan10, InitScan11, InitScan12,
       InitScan13, InitScan14, InitScan15, Scan0, Scan1, Scan2, Scan3, Scan4, Scan5, Scan6,
       Scan7, Scan8, Scan9, Scan10, Scan11, Scan12, Scan13, Scan14, Scan15,
       InitScanTypes, ScanTypes, InitScanPowerTypes, ScanPowerTypes

LEMMA Wired ==
  ASSUME line \in Lines
  PROVE  /\ WiredIn(InitScan) = Input
         /\ ZoneAlarm(Input) \/ OtherAlarm(Input)
<1> DEFINE Fits(a) == ZoneAlarm(a) \/ OtherAlarm(a)
           Fit(s) == Fits(s[1]) /\ Fits(s[2]) /\ Fits(s[3])
<1> HIDE DEF Fits
<1>0. /\ \A z \in (1 .. 6) \cup (9 .. 14), c \in Int : c = 3 * (z - 1) =>
            Fits(Active(c, z)) /\ Fits(Fault(c, z)) /\ Fits(Quiet(Fault(c, z)))
      /\ \A z \in {7, 8, 15, 16}, c \in Int : c = 3 * (z - 1) =>
            /\ Fits(Tamper(c, z)) /\ Fits(Disconnected(c, z)) /\ Fits(HddError(c, z))
            /\ Fits(Quiet(Disconnected(c, z))) /\ Fits(Quiet(HddError(c, z)))
      /\ \A z \in 1 .. 8, c \in Int : c = 3 * (z - 1) => Fits(Off(c, z))
      /\ Fits(ShutDown) /\ Fits(Mains) /\ Fits(Battery)
  <2> USE DEF Fits, ZoneAlarm, OtherAlarm, ZonesOf, Begins, Ends, Cameras, Alarm, Quiet
  <2>1. \A z \in (1 .. 6) \cup (9 .. 14), c \in Int : c = 3 * (z - 1) =>
            Fits(Active(c, z)) /\ Fits(Fault(c, z)) /\ Fits(Quiet(Fault(c, z)))
    BY DEF Active, Fault
  <2>2. \A z \in {7, 8, 15, 16}, c \in Int : c = 3 * (z - 1) =>
            /\ Fits(Tamper(c, z)) /\ Fits(Disconnected(c, z)) /\ Fits(HddError(c, z))
            /\ Fits(Quiet(Disconnected(c, z))) /\ Fits(Quiet(HddError(c, z)))
    BY DEF Tamper, Disconnected, HddError
  <2>3. \A z \in 1 .. 8, c \in Int : c = 3 * (z - 1) => Fits(Off(c, z))
    BY DEF Off
  <2>4. Fits(ShutDown) /\ Fits(Mains) /\ Fits(Battery)
    BY DEF ShutDown, Mains, Battery, Other
  <2> QED BY <2>1, <2>2, <2>3, <2>4
<1>1. Fit(Scan0) /\ Fit(Scan1) /\ Fit(Scan2) /\ Fit(Scan3)
  BY <1>0 DEF Scan0, Scan1, Scan2, Scan3
<1>2. Fit(Scan4) /\ Fit(Scan5) /\ Fit(Scan6) /\ Fit(Scan7)
  BY <1>0 DEF Scan4, Scan5, Scan6, Scan7
<1>3. Fit(Scan8) /\ Fit(Scan9) /\ Fit(Scan10) /\ Fit(Scan11)
  BY <1>0 DEF Scan8, Scan9, Scan10, Scan11
<1>4. Fit(Scan12) /\ Fit(Scan13) /\ Fit(Scan14) /\ Fits(Scan15[1]) /\ Fits(Scan15[2])
  BY <1>0 DEF Scan12, Scan13, Scan14, Scan15
<1>5. PICK m \in 1 .. 3, p \in 0 .. 15 : line = <<m, p>> /\ ~ (m = 3 /\ p = 15)
  BY DEF Lines
<1>6. Input = Scan[p + 1][m]
  BY <1>5 DEF Input, WiredIn
<1>7. Fits(Scan[p + 1][m])
  BY <1>1, <1>2, <1>3, <1>4, <1>5 DEF Scan
<1>8. Fits(Input)
  BY <1>6, <1>7
<1> QED BY <1>8, SameTables DEF Input, WiredIn, Fits

(* The type of a zone is in the third of its cells, and named for all its  *)
(* codes but one.                                                          *)
LEMMA TypeTables ==
  /\ \A z \in ZonesOf("active") :
        /\ ScanTypes[z][1] = 3 * (z - 1) + 2
        /\ ScanTypes[z][2] = IF z = 13 THEN ZoneCodes \ {6} ELSE ZoneCodes
  /\ \A z \in 1 .. 8 : ScanPowerTypes[z] = 3 * (z - 1) + 2
BY DEF ScanTypes, ScanPowerTypes, ZonesOf, Cameras

(* What is sent is what the beginning or the end of a kind of alarm is     *)
(* called of the device.                                                   *)
HasReports(device, kind) ==
    \/ kind \in {"active", "fault"} /\ device \in {"BAS", "FAS", "BACS", "TIME_LOCK", "IAS"}
    \/ kind = "off" /\ device \in {"BAS", "FAS", "BACS", "TIME_LOCK", "IAS", "CCTV"}
    \/ kind \in Cameras /\ device = "CCTV"

LEMMA ReportTables ==
  ASSUME NEW device, NEW kind, HasReports(device, kind)
  PROVE  /\ Report(device, Begins[kind], FALSE) = ZONE_EVENT_LOG_TYPES[device][kind][1]
         /\ Report(device, Ends[kind], FALSE) = ZONE_EVENT_LOG_TYPES[device][kind][2]
<1> USE DEF Report, SystemReports, CameraReports, ZONE_EVENT_LOG_TYPES, Begins, Ends, Cameras
<1>1. CASE kind = "active" /\ device \in {"BAS", "FAS", "BACS", "TIME_LOCK", "IAS"}
  BY <1>1
<1>2. CASE kind = "fault" /\ device \in {"BAS", "FAS", "BACS", "TIME_LOCK", "IAS"}
  BY <1>2
<1>3. CASE kind = "off" /\ device \in {"BAS", "FAS", "BACS", "TIME_LOCK", "IAS", "CCTV"}
  BY <1>3
<1>4. CASE kind \in Cameras /\ device = "CCTV"
  BY <1>4
<1> QED BY <1>1, <1>2, <1>3, <1>4 DEF HasReports

LEMMA NoReports ==
  ASSUME NEW type, NEW kind \in {"active", "fault", "off", "tamper", "disconnected", "hdd"}
  PROVE  /\ Report(type, Begins[kind], TRUE) = Nothing
         /\ Report(type, Ends[kind], TRUE) = Nothing
         /\ Report(Nothing, Begins[kind], FALSE) = Nothing
         /\ Report(Nothing, Ends[kind], FALSE) = Nothing
BY DEF Report, SystemReports, CameraReports, Begins, Ends, Nothing

(* The screens of a zone write its own three cells.                        *)
LEMMA ScreenTables ==
  ASSUME NEW group \in Groups, NEW z \in DOMAIN ScreensOf(group)
  PROVE  LET screens == ScreensOf(group)[z]
         IN  /\ z \in 1 .. 16 /\ screens.zone = z
             /\ screens.on = 3 * (z - 1) /\ screens.buzzer = 3 * (z - 1) + 1
             /\ screens.type = 3 * (z - 1) + 2
             /\ screens.codes \subseteq 1 .. 6
             /\ \A kind \in DOMAIN Begins :
                   (group = IF kind = "off" THEN "power" ELSE "zones") /\ z \in ZonesOf(kind)
                      => screens.codes \subseteq CodesOf(kind)
BY DEF ScreensOf, Groups, Screens, ZoneCodes, ZonesOf, CodesOf, Cameras, Begins,
       Zone1, Zone2, Zone3, Zone4, Zone5, Zone6, Zone7, Zone8, Zone9, Zone10, Zone11,
       Zone12, Zone13, Zone14, Zone15, Zone16, PowerZone1, PowerZone2, PowerZone3,
       PowerZone4, PowerZone5, PowerZone6, PowerZone7, PowerZone8

(* A file is read as it was written.                                       *)
Rows == 0 .. 15

LEMMA CellsOfRows ==
  ASSUME NEW row \in Rows
  PROVE  /\ (3 * row) \div 3 = row /\ (3 * row) % 3 = 0
         /\ (3 * row + 1) \div 3 = row /\ (3 * row + 1) % 3 = 1
         /\ (3 * row + 2) \div 3 = row /\ (3 * row + 2) % 3 = 2
         /\ {3 * row, 3 * row + 1, 3 * row + 2} \subseteq Entries
BY DEF Rows, Entries

LEMMA WrittenRow ==
  ASSUME NEW group \in Groups, NEW cells, NEW row \in Rows
  PROVE  Write(group, cells)[row] = <<cells[3 * row], cells[3 * row + 1], cells[3 * row + 2]>>
BY DEF Write, WriteZones, WritePower, Rows

LEMMA ReadRow ==
  ASSUME NEW group \in Groups, NEW file, NEW row \in Rows
  PROVE  /\ Read(group, file)[3 * row] = file[row][1]
         /\ Read(group, file)[3 * row + 1] = file[row][2]
         /\ Read(group, file)[3 * row + 2] = file[row][3]
BY CellsOfRows DEF Read, ReadZones, ReadPower
-----------------------------------------------------------------------------
(* What the three cells of a zone say is what has been chosen at the       *)
(* screens of this zone.                                                   *)
Says(choice, cells) ==
    /\ choice \in [on : BOOLEAN, buzzer : BOOLEAN, code : Int]
    /\ choice.on <=> cells[1] = 1
    /\ choice.buzzer <=> cells[2] = 1
    /\ choice.code = cells[3] /\ cells[3] \in CodesOf(Input.kind)

OwnCells(s) ==
    <<s[Input.group][Input.cell], s[Input.group][Input.cell + 1], s[Input.group][Input.cell + 2]>>

ChoiceInv ==
    /\ line \in Lines
    /\ menu \in Groups \cup {Nothing}
    /\ settings \in [Groups -> [Entries -> Int]]
    /\ files \in [Groups -> [Rows -> Int \X Int \X Int]]
    /\ Zoned => /\ Says(kept, files[Input.group][Input.zone - 1])
                /\ Says(chosen, OwnCells(settings))

LEMMA InputFacts ==
  ASSUME line \in Lines
  PROVE  /\ Zoned <=> ZoneAlarm(Input)
         /\ ~ Zoned => OtherAlarm(Input)
         /\ Zoned => /\ Input.group \in Groups /\ Input.zone \in 1 .. 16
                     /\ Input.zone - 1 \in Rows /\ Input.cell = 3 * (Input.zone - 1)
                     /\ {Input.cell, Input.cell + 1, Input.cell + 2} \subseteq Entries
                     /\ CodesOf(Input.kind) \subseteq 1 .. 6
<1>1. CASE ZoneAlarm(Input)
  <2>1. Input.group \in Groups /\ Zoned /\ ~ OtherAlarm(Input)
    BY <1>1 DEF Zoned, ZoneAlarm, OtherAlarm, Groups, Nothing
  <2>2. Input.zone \in 1 .. 16 /\ Input.cell = 3 * (Input.zone - 1)
    BY <1>1 DEF ZoneAlarm, ZonesOf
  <2>3. Input.zone - 1 \in Rows /\ {Input.cell, Input.cell + 1, Input.cell + 2} \subseteq Entries
    BY <2>2 DEF Rows, Entries
  <2>4. CodesOf(Input.kind) \subseteq 1 .. 6
    BY DEF CodesOf, ZoneCodes
  <2> QED BY <1>1, <2>1, <2>2, <2>3, <2>4
<1>2. CASE OtherAlarm(Input)
  BY <1>2 DEF Zoned, ZoneAlarm, OtherAlarm
<1> QED BY <1>1, <1>2, Wired

(* Files and settings keep their types when they are read and written.     *)
LEMMA FileTypes ==
  ASSUME NEW group \in Groups
  PROVE  /\ \A file \in [Rows -> Int \X Int \X Int] : Read(group, file) \in [Entries -> Int]
         /\ \A cells \in [Entries -> Int] : Write(group, cells) \in [Rows -> Int \X Int \X Int]
<1>1. ASSUME NEW file \in [Rows -> Int \X Int \X Int]
      PROVE  Read(group, file) \in [Entries -> Int]
  <2>1. \A cell \in Entries : cell \div 3 \in Rows /\ (cell % 3) + 1 \in 1 .. 3
    BY DEF Entries, Rows
  <2>2. \A cell \in Entries : file[cell \div 3][(cell % 3) + 1] \in Int
    <3>1. \A row \in Rows, n \in 1 .. 3 : file[row][n] \in Int
      OBVIOUS
    <3> QED BY <2>1, <3>1
  <2> QED BY <2>2 DEF Read, ReadZones, ReadPower
<1>2. ASSUME NEW cells \in [Entries -> Int]
      PROVE  Write(group, cells) \in [Rows -> Int \X Int \X Int]
  <2>1. \A row \in Rows : {3 * row, 3 * row + 1, 3 * row + 2} \subseteq Entries
    BY DEF Entries, Rows
  <2> QED BY <2>1 DEF Write, WriteZones, WritePower, Rows
<1> QED BY <1>1, <1>2

LEMMA ReadOwn ==
  ASSUME line \in Lines, Zoned, NEW s, NEW file, s[Input.group] = Read(Input.group, file),
         file \in [Rows -> Int \X Int \X Int]
  PROVE  OwnCells(s) = file[Input.zone - 1]
<1> DEFINE row == Input.zone - 1
<1>1. Input.group \in Groups /\ row \in Rows /\ Input.cell = 3 * row
  BY InputFacts
<1> HIDE DEF row
<1>2. /\ s[Input.group][Input.cell] = file[row][1]
      /\ s[Input.group][Input.cell + 1] = file[row][2]
      /\ s[Input.group][Input.cell + 2] = file[row][3]
  <2>1. /\ Read(Input.group, file)[3 * row] = file[row][1]
        /\ Read(Input.group, file)[3 * row + 1] = file[row][2]
        /\ Read(Input.group, file)[3 * row + 2] = file[row][3]
    BY <1>1, ReadRow
  <2> QED BY <1>1, <2>1
<1>3. file[row] \in Int \X Int \X Int
  BY <1>1
<1>4. file[row] = <<file[row][1], file[row][2], file[row][3]>>
  BY <1>3
<1> QED BY <1>2, <1>4 DEF OwnCells, row

(* A device of which nothing has been chosen yet.                          *)
LEMMA ChoiceInit == Init => ChoiceInv
<1> SUFFICES ASSUME Init PROVE ChoiceInv
  OBVIOUS
<1>1. line \in Lines
  BY ZonePanelAssumption DEF Init
<1>2. PICK on \in {0, 1} :
          /\ files = FirstFiles(on)
          /\ Zoned => chosen = Named(files[Input.group][Input.zone - 1])
  BY DEF Init
<1>3. /\ settings = [g \in Groups |-> Read(g, files[g])] /\ kept = chosen /\ menu = Nothing
  BY DEF Init
<1>4. \A g \in Groups, row \in Rows : DefaultTypes[g][row + 1] \in Int
  BY DEF Groups, Rows, DefaultTypes
<1>5. files \in [Groups -> [Rows -> Int \X Int \X Int]]
  BY <1>2, <1>4 DEF FirstFiles, Rows
<1>6. settings \in [Groups -> [Entries -> Int]]
  BY <1>3, <1>5, FileTypes
<1>7. ASSUME Zoned
      PROVE  /\ Says(kept, files[Input.group][Input.zone - 1])
             /\ Says(chosen, OwnCells(settings))
  <2> DEFINE row == files[Input.group][Input.zone - 1]
  <2>1. row \in Int \X Int \X Int
    BY <1>1, <1>5, <1>7, InputFacts
  <2>2. OwnCells(settings) = row
    <3>1. Input.group \in Groups
      BY <1>1, <1>7, InputFacts
    <3>2. /\ settings[Input.group] = Read(Input.group, files[Input.group])
          /\ files[Input.group] \in [Rows -> Int \X Int \X Int]
      BY <1>3, <1>5, <3>1
    <3> QED BY <1>1, <1>7, <3>2, ReadOwn
  <2>3. row[3] \in CodesOf(Input.kind)
    <3>1. row[3] = DefaultTypes[Input.group][Input.zone]
      BY <1>1, <1>2, <1>7, InputFacts DEF FirstFiles, Rows
    <3>2. DefaultTypes[Input.group][Input.zone] \in CodesOf(Input.kind)
      BY <1>1, <1>7, InputFacts DEF ZoneAlarm, ZonesOf, CodesOf, Cameras, ZoneCodes, DefaultTypes
    <3> QED BY <3>1, <3>2
  <2>4. chosen = [on |-> row[1] = 1, buzzer |-> row[2] = 1, code |-> row[3]]
    BY <1>2, <1>7 DEF Named
  <2> HIDE DEF row
  <2>5. Says(chosen, row)
    BY <2>1, <2>3, <2>4 DEF Says
  <2> QED BY <1>3, <2>2, <2>5 DEF row
<1> QED BY <1>1, <1>3, <1>5, <1>6, <1>7 DEF ChoiceInv

(* A step of a technician, a restart and a boot keep what has been chosen  *)
(* and the cells together.                                                 *)
LEMMA SaysUnchanged ==
  ASSUME ChoiceInv, line' = line, UNCHANGED settingVars
  PROVE  ChoiceInv'
BY DEF ChoiceInv, settingVars, Says, OwnCells, Zoned, Input, WiredIn

LEMMA ChoiceStep == ChoiceInv /\ [Next]_vars => ChoiceInv'
<1> SUFFICES ASSUME ChoiceInv, [Next]_vars PROVE ChoiceInv'
  OBVIOUS
<1>0. line \in Lines
  BY DEF ChoiceInv
<1>1. line' = line
  BY DEF Next, vars, Boot, Turn, Technician, MenuEnter, MenuEdit, EditZone, Edit, MenuExit,
         MenuAbandon, ToggleSetup, Act, Restart
<1>2. Input' = Input /\ (Zoned' <=> Zoned)
  BY <1>1 DEF Zoned, Input, WiredIn
<1>3. /\ Zoned => Says(kept, files[Input.group][Input.zone - 1]) /\ Says(chosen, OwnCells(settings))
      /\ settings \in [Groups -> [Entries -> Int]]
      /\ files \in [Groups -> [Rows -> Int \X Int \X Int]]
      /\ menu \in Groups \cup {Nothing}
  BY DEF ChoiceInv
<1>4. ASSUME /\ settings' \in [Groups -> [Entries -> Int]]
             /\ files' \in [Groups -> [Rows -> Int \X Int \X Int]]
             /\ menu' \in Groups \cup {Nothing},
             Zoned => Says(kept', files'[Input.group][Input.zone - 1]) /\ Says(chosen', OwnCells(settings'))
      PROVE  ChoiceInv'
  BY <1>0, <1>1, <1>2, <1>4 DEF ChoiceInv, Says, OwnCells
<1>5. CASE \E level \in {0, 1} : Boot(level)
  <2>1. /\ settings' = [g \in Groups |-> Read(g, files[g])] /\ chosen' = kept
        /\ UNCHANGED <<files, menu, kept>>
    BY <1>5 DEF Boot
  <2>2. settings' \in [Groups -> [Entries -> Int]]
    BY <1>3, <2>1, FileTypes
  <2>3. ASSUME Zoned PROVE OwnCells(settings') = files[Input.group][Input.zone - 1]
    <3>1. Input.group \in Groups
      BY <1>0, <2>3, InputFacts
    <3>2. /\ settings'[Input.group] = Read(Input.group, files[Input.group])
          /\ files[Input.group] \in [Rows -> Int \X Int \X Int]
      BY <1>3, <2>1, <3>1
    <3> QED BY <1>0, <2>3, <3>2, ReadOwn
  <2> QED BY <1>3, <1>4, <2>1, <2>2, <2>3
<1>6. CASE (\E level \in {-1, 0, 1}, second \in BOOLEAN : Turn(level, second)) \/ ToggleSetup
           \/ UNCHANGED vars
  BY <1>1, <1>6, SaysUnchanged DEF Turn, ToggleSetup, vars
<1>7. CASE Restart
  BY <1>3, <1>4, <1>7 DEF Restart
<1>8. CASE \E group \in Groups : MenuEnter(group)
  <2>1. PICK group \in Groups :
           /\ settings' = [settings EXCEPT ![group] = Read(group, files[group])]
           /\ chosen' = IF Zoned /\ Input.group = group THEN kept ELSE chosen
           /\ menu' = group /\ UNCHANGED <<files, kept>>
    BY <1>8 DEF MenuEnter
  <2>2. Read(group, files[group]) \in [Entries -> Int]
    BY <1>3, FileTypes
  <2>3. settings' \in [Groups -> [Entries -> Int]]
    BY <1>3, <2>1, <2>2
  <2>4. ASSUME Zoned PROVE Says(chosen', OwnCells(settings'))
    <3>1. Input.group \in Groups
      BY <1>0, <2>4, InputFacts
    <3>2. CASE Input.group = group
      <4>1. /\ settings'[Input.group] = Read(Input.group, files[Input.group])
            /\ files[Input.group] \in [Rows -> Int \X Int \X Int]
        BY <1>3, <2>1, <3>1, <3>2
      <4>2. OwnCells(settings') = files[Input.group][Input.zone - 1]
        BY <1>0, <2>4, <4>1, ReadOwn
      <4> QED BY <1>3, <2>1, <2>4, <3>2, <4>2
    <3>3. CASE Input.group # group
      <4>1. OwnCells(settings') = OwnCells(settings) /\ chosen' = chosen
        BY <1>3, <2>1, <3>3 DEF OwnCells
      <4> QED BY <1>3, <2>4, <4>1
    <3> QED BY <3>2, <3>3
  <2> QED BY <1>3, <1>4, <2>1, <2>3, <2>4
<1>9. CASE MenuExit
  <2>1. /\ files' = [files EXCEPT ![menu] = Write(menu, settings[menu])]
        /\ kept' = IF Input.group = menu THEN chosen ELSE kept
        /\ menu \in Groups /\ menu' = Nothing /\ UNCHANGED <<settings, chosen>>
    BY <1>3, <1>9 DEF MenuExit
  <2>2. Write(menu, settings[menu]) \in [Rows -> Int \X Int \X Int]
    BY <1>3, <2>1, FileTypes
  <2>3. files' \in [Groups -> [Rows -> Int \X Int \X Int]]
    BY <1>3, <2>1, <2>2
  <2>4. ASSUME Zoned PROVE Says(kept', files'[Input.group][Input.zone - 1])
    <3>1. CASE Input.group = menu
      <4>1. files'[menu][Input.zone - 1] = Write(menu, settings[menu])[Input.zone - 1]
        BY <1>3, <2>1
      <4>2. files'[Input.group][Input.zone - 1] = OwnCells(settings)
        <5>1. Input.zone - 1 \in Rows /\ Input.cell = 3 * (Input.zone - 1)
          BY <1>0, <2>4, InputFacts
        <5> QED BY <2>1, <3>1, <4>1, <5>1, WrittenRow DEF OwnCells
      <4> QED BY <1>3, <2>1, <2>4, <3>1, <4>2
    <3>2. CASE Input.group # menu
      BY <1>3, <2>1, <2>4, <3>2
    <3> QED BY <3>1, <3>2
  <2> QED BY <1>3, <1>4, <2>1, <2>3, <2>4
<1>10. CASE MenuAbandon
  BY <1>3, <1>4, <1>10 DEF MenuAbandon
<1>11. CASE MenuEdit
  <2>1. PICK z \in DOMAIN ScreensOf(menu) : EditZone(ScreensOf(menu)[z])
    BY <1>11 DEF MenuEdit
  <2> DEFINE screens == ScreensOf(menu)[z]
  <2>2. menu \in Groups
    BY <1>3, <1>11 DEF MenuEdit
  <2>3. /\ z \in 1 .. 16 /\ screens.zone = z
        /\ screens.on = 3 * (z - 1) /\ screens.buzzer = 3 * (z - 1) + 1
        /\ screens.type = 3 * (z - 1) + 2 /\ screens.codes \subseteq 1 .. 6
        /\ \A kind \in DOMAIN Begins :
              (menu = IF kind = "off" THEN "power" ELSE "zones") /\ z \in ZonesOf(kind)
                 => screens.codes \subseteq CodesOf(kind)
    BY <2>1, <2>2, ScreenTables
  <2> HIDE DEF screens
  <2>3a. PICK cell \in Entries, value \in Int : \E choice :
           /\ settings' = [settings EXCEPT ![menu][cell] = value]
           /\ chosen' = IF Input.group = menu /\ Input.zone = z THEN choice ELSE chosen
           /\ UNCHANGED <<files, kept, menu>>
           /\ \/ /\ cell = 3 * (z - 1)
                 /\ choice = [chosen EXCEPT !.on = value = 1]
              \/ /\ cell = 3 * (z - 1) + 1
                 /\ choice = [chosen EXCEPT !.buzzer = value = 1]
              \/ /\ cell = 3 * (z - 1) + 2 /\ value \in screens.codes
                 /\ choice = [chosen EXCEPT !.code = value]
    <3>1. {3 * (z - 1), 3 * (z - 1) + 1, 3 * (z - 1) + 2} \subseteq Entries
      BY <2>3 DEF Entries
    <3>2. \A cell : Toggle(cell) \in Int
      BY DEF Toggle
    <3>3. CASE Edit(screens.on, Toggle(screens.on), [chosen EXCEPT !.on = Toggle(screens.on) = 1], screens)
      BY <2>3, <3>1, <3>2, <3>3 DEF Edit
    <3>4. CASE Edit(screens.buzzer, Toggle(screens.buzzer),
                    [chosen EXCEPT !.buzzer = Toggle(screens.buzzer) = 1], screens)
      BY <2>3, <3>1, <3>2, <3>4 DEF Edit
    <3>5. ASSUME NEW code \in screens.codes, Edit(screens.type, code, [chosen EXCEPT !.code = code], screens)
          PROVE  /\ settings' = [settings EXCEPT ![menu][3 * (z - 1) + 2] = code]
                 /\ chosen' = IF Input.group = menu /\ Input.zone = z
                              THEN [chosen EXCEPT !.code = code] ELSE chosen
                 /\ UNCHANGED <<files, kept, menu>>
      BY <2>3, <3>5 DEF Edit
    <3>6. \/ Edit(screens.on, Toggle(screens.on), [chosen EXCEPT !.on = Toggle(screens.on) = 1], screens)
          \/ Edit(screens.buzzer, Toggle(screens.buzzer),
                  [chosen EXCEPT !.buzzer = Toggle(screens.buzzer) = 1], screens)
          \/ \E code \in screens.codes :
                Edit(screens.type, code, [chosen EXCEPT !.code = code], screens)
      BY <2>1 DEF EditZone, screens
    <3>7. CASE \E code \in screens.codes :
                Edit(screens.type, code, [chosen EXCEPT !.code = code], screens)
      BY <2>3, <3>1, <3>5, <3>7
    <3> QED BY <3>3, <3>4, <3>6, <3>7
  <2>4. PICK choice :
           /\ settings' = [settings EXCEPT ![menu][cell] = value]
           /\ chosen' = IF Input.group = menu /\ Input.zone = z THEN choice ELSE chosen
           /\ UNCHANGED <<files, kept, menu>>
           /\ \/ /\ cell = 3 * (z - 1)
                 /\ choice = [chosen EXCEPT !.on = value = 1]
              \/ /\ cell = 3 * (z - 1) + 1
                 /\ choice = [chosen EXCEPT !.buzzer = value = 1]
              \/ /\ cell = 3 * (z - 1) + 2 /\ value \in screens.codes
                 /\ choice = [chosen EXCEPT !.code = value]
    BY <2>3a
  <2>5. settings' \in [Groups -> [Entries -> Int]]
    BY <1>3, <2>2, <2>4
  <2>6. ASSUME Zoned PROVE Says(chosen', OwnCells(settings'))
    <3>1. /\ Input.group \in Groups /\ Input.zone \in 1 .. 16
          /\ Input.cell = 3 * (Input.zone - 1)
          /\ {Input.cell, Input.cell + 1, Input.cell + 2} \subseteq Entries
      BY <1>0, <2>6, InputFacts
    <3>2. CASE ~ (Input.group = menu /\ Input.zone = z)
      <4>1. OwnCells(settings') = OwnCells(settings)
        BY <1>3, <2>2, <2>3, <2>4, <3>1, <3>2 DEF OwnCells
      <4> QED BY <1>3, <2>4, <2>6, <3>2, <4>1
    <3>3. CASE Input.group = menu /\ Input.zone = z
      <4>1. /\ chosen \in [on : BOOLEAN, buzzer : BOOLEAN, code : Int]
            /\ chosen.on <=> settings[menu][Input.cell] = 1
            /\ chosen.buzzer <=> settings[menu][Input.cell + 1] = 1
            /\ chosen.code = settings[menu][Input.cell + 2]
            /\ settings[menu][Input.cell + 2] \in CodesOf(Input.kind)
        BY <1>3, <2>6, <3>3 DEF Says, OwnCells
      <4>2. CASE cell = Input.cell /\ choice = [chosen EXCEPT !.on = value = 1]
        <5>1. /\ settings'[menu][Input.cell] = value
              /\ settings'[menu][Input.cell + 1] = settings[menu][Input.cell + 1]
              /\ settings'[menu][Input.cell + 2] = settings[menu][Input.cell + 2]
          BY <1>3, <2>2, <2>4, <3>1, <4>2
        <5>2. /\ chosen' \in [on : BOOLEAN, buzzer : BOOLEAN, code : Int]
              /\ chosen'.on <=> value = 1
              /\ chosen'.buzzer <=> chosen.buzzer
              /\ chosen'.code = chosen.code
          BY <2>4, <3>3, <4>1, <4>2
        <5> QED BY <3>3, <4>1, <5>1, <5>2 DEF Says, OwnCells
      <4>3. CASE cell = Input.cell + 1 /\ choice = [chosen EXCEPT !.buzzer = value = 1]
        <5>1. /\ settings'[menu][Input.cell] = settings[menu][Input.cell]
              /\ settings'[menu][Input.cell + 1] = value
              /\ settings'[menu][Input.cell + 2] = settings[menu][Input.cell + 2]
          BY <1>3, <2>2, <2>4, <3>1, <4>3
        <5>2. /\ chosen' \in [on : BOOLEAN, buzzer : BOOLEAN, code : Int]
              /\ chosen'.on <=> chosen.on
              /\ chosen'.buzzer <=> value = 1
              /\ chosen'.code = chosen.code
          BY <2>4, <3>3, <4>1, <4>3
        <5> QED BY <3>3, <4>1, <5>1, <5>2 DEF Says, OwnCells
      <4>4. CASE cell = Input.cell + 2 /\ value \in screens.codes /\ choice = [chosen EXCEPT !.code = value]
        <5>1. /\ settings'[menu][Input.cell] = settings[menu][Input.cell]
              /\ settings'[menu][Input.cell + 1] = settings[menu][Input.cell + 1]
              /\ settings'[menu][Input.cell + 2] = value
          BY <1>3, <2>2, <2>4, <3>1, <4>4
        <5>2. /\ chosen' \in [on : BOOLEAN, buzzer : BOOLEAN, code : Int]
              /\ chosen'.on <=> chosen.on
              /\ chosen'.buzzer <=> chosen.buzzer
              /\ chosen'.code = value
          BY <2>4, <3>3, <4>1, <4>4
        <5>3. value \in CodesOf(Input.kind)
          BY <1>0, <2>3, <2>6, <3>3, <4>4, InputFacts DEF ZoneAlarm, Begins
        <5> QED BY <3>3, <4>1, <5>1, <5>2, <5>3 DEF Says, OwnCells
      <4> QED BY <2>4, <3>1, <3>3, <4>2, <4>3, <4>4
    <3> QED BY <3>2, <3>3
  <2> QED BY <1>3, <1>4, <2>4, <2>5, <2>6
<1> QED BY <1>5, <1>6, <1>7, <1>8, <1>9, <1>10, <1>11 DEF Next, Technician
-----------------------------------------------------------------------------
(* What a change of the input raises and reports, as the screens of its    *)
(* zone say.                                                               *)
TypeOf(code) ==
    IF Input.kind \in Cameras THEN "CCTV"
    ELSE IF Input.group = "zones" /\ Input.zone = 13 /\ code = 6 THEN Nothing
    ELSE TypeNames[code]

RaisedBy(change) ==
    IF change.level = 0 \/ Input.kind \in {"battery", "shutdown"} THEN {}
    ELSE {[kind |-> Input.kind, zone |-> Input.zone,
           type |-> IF Zoned THEN TypeOf(change.code) ELSE Nothing]}

ReportOf(change) ==
    IF LeftOut(change) THEN Nothing
    ELSE ZONE_EVENT_LOG_TYPES[Device(change)][Input.kind][2 - change.level]

(* A scanner that finds the codes of a zone in its cells takes it for what *)
(* it is.                                                                  *)
LEMMA TypeFound ==
  ASSUME line \in Lines, Zoned, NEW s, NEW choice, Says(choice, OwnCells(s))
  PROVE  TypeIn(Input, s, ScanTypes, ScanPowerTypes) = TypeOf(choice.code)
<1> DEFINE z == Input.zone
<1>1. /\ ZoneAlarm(Input) /\ Input.cell = 3 * (z - 1) /\ choice.code \in CodesOf(Input.kind)
      /\ choice.code = s[Input.group][Input.cell + 2]
  BY InputFacts DEF Says, OwnCells
<1> USE DEF TypeIn, TypeOf
<1>2. CASE Input.kind \in Cameras
  BY <1>1, <1>2 DEF Cameras
<1>3. CASE Input.kind = "off"
  <2>1. Input.group = "power" /\ z \in 1 .. 8
    BY <1>1, <1>3 DEF ZoneAlarm, ZonesOf
  <2>2. ScanPowerTypes[z] = Input.cell + 2
    BY <1>1, <2>1, TypeTables
  <2> QED BY <1>1, <1>3, <2>1, <2>2 DEF Cameras
<1>4. CASE Input.kind \in {"active", "fault"}
  <2>1. Input.group = "zones" /\ z \in ZonesOf("active")
    BY <1>1, <1>4 DEF ZoneAlarm, ZonesOf, Cameras
  <2>2. /\ ScanTypes[z][1] = Input.cell + 2
        /\ ScanTypes[z][2] = IF z = 13 THEN ZoneCodes \ {6} ELSE ZoneCodes
    BY <1>1, <2>1, TypeTables
  <2>3. choice.code \in ZoneCodes
    BY <1>1, <1>4 DEF CodesOf, Cameras
  <2>4. choice.code \in ScanTypes[z][2] <=> ~ (z = 13 /\ choice.code = 6)
    BY <2>2, <2>3 DEF ZoneCodes
  <2> QED BY <1>1, <1>4, <2>1, <2>2, <2>4 DEF Cameras
<1> QED BY <1>1, <1>2, <1>3, <1>4 DEF ZoneAlarm, Cameras

(* The reports that a type of device has are those of a device that can be *)
(* chosen for the zone.                                                    *)
LEMMA Reported ==
  ASSUME line \in Lines, Zoned, NEW code \in CodesOf(Input.kind)
  PROVE  TypeOf(code) # Nothing => HasReports(TypeOf(code), Input.kind)
<1>1. ZoneAlarm(Input)
  BY InputFacts
<1> USE DEF TypeOf, HasReports, TypeNames
<1>2. CASE Input.kind \in Cameras
  BY <1>2
<1>3. CASE Input.kind = "off"
  <2>1. code \in 1 .. 6 /\ Input.group = "power"
    BY <1>1, <1>3 DEF CodesOf, ZoneAlarm
  <2> QED BY <1>3, <2>1 DEF Cameras
<1>4. CASE Input.kind \in {"active", "fault"}
  <2>1. code \in ZoneCodes
    BY <1>4 DEF CodesOf, Cameras
  <2> QED BY <1>4, <2>1 DEF ZoneCodes, Cameras
<1> QED BY <1>1, <1>2, <1>3, <1>4 DEF ZoneAlarm, Cameras

Changed(level, choice, inSetup) ==
    [level |-> level, before |-> hist, code |-> choice.code,
     buzzer |-> choice.buzzer, inSetup |-> inSetup]

(* The alarms of the input that are raised are its own.                    *)
OwnRaised == \A r \in raised : r.kind = Input.kind /\ r.zone = Input.zone

(* What a scanner makes of a change of the input of a zone, and of others. *)
LEMMA ZonedChange ==
  ASSUME line \in Lines, Zoned, OwnRaised,
         NEW s, NEW choice, Says(choice, OwnCells(s)),
         NEW level \in {0, 1}, NEW inSetup \in BOOLEAN,
         NEW table, WiredIn(table) = Input
  PROVE  LET change == Change(table, level, s, ScanTypes, ScanPowerTypes, inSetup)
         IN  /\ ~ choice.on => change.raised = raised /\ change.told = told
             /\ choice.on =>
                   /\ change.raised = RaisedBy(Changed(level, choice, inSetup))
                   /\ change.told = ReportOf(Changed(level, choice, inSetup))
             /\ change.asks <=> CallsBuzzer(level, choice)
<1> DEFINE type == TypeIn(Input, s, ScanTypes, ScanPowerTypes)
           change == Change(table, level, s, ScanTypes, ScanPowerTypes, inSetup)
           noted == Changed(level, choice, inSetup)
<1>1. type = TypeOf(choice.code)
  BY TypeFound
<1>2. /\ choice.on <=> s[Input.group][Input.cell] = 1
      /\ choice.buzzer <=> s[Input.group][Input.cell + 1] = 1
      /\ choice.code \in CodesOf(Input.kind)
  BY DEF Says, OwnCells
<1>3. change = ZoneChanged(Input, level, s, type, inSetup)
  BY DEF Change
<1> HIDE DEF change, type
<1>4. CASE ~ choice.on
  <2>1. change = Outcome(raised, FALSE, told)
    BY <1>2, <1>3, <1>4 DEF ZoneChanged
  <2> QED BY <1>4, <2>1 DEF Outcome, CallsBuzzer, change
<1>5. CASE choice.on
  <2>1. {r \in raised : <<r.kind, r.zone>> # <<Input.kind, Input.zone>>} = {}
    BY DEF OwnRaised
  <2>2. ZoneAlarm(Input)
    BY InputFacts
  <2>3. noted.level = level /\ noted.code = choice.code /\ noted.inSetup = inSetup
        /\ noted.buzzer = choice.buzzer /\ noted.before = hist
    BY DEF Changed
  <2> HIDE DEF noted
  <2>4. Input.kind \notin {"battery", "shutdown", "mains"}
    BY <2>2 DEF ZoneAlarm
  <2>5. Device(noted) = IF TypeOf(choice.code) = Nothing THEN "IAS" ELSE TypeOf(choice.code)
    BY <1>2, <2>3, InputFacts DEF Device, TypeOf, TypeNames, Nothing
  <2>6. TypeOf(choice.code) = Nothing <=>
           Input.group = "zones" /\ Input.zone = 13 /\ Device(noted) = "IAS"
    BY <1>2, <2>2, <2>3, InputFacts DEF Device, TypeOf, TypeNames, Nothing, ZoneAlarm, ZonesOf, Cameras
  <2>7. CASE level = 0
    <3>1. change = Outcome({}, FALSE, Report(type, Input.end, inSetup))
      BY <1>2, <1>3, <1>5, <2>1, <2>7 DEF ZoneChanged
    <3>2. RaisedBy(noted) = {}
      BY <2>3, <2>7 DEF RaisedBy
    <3>3. Report(type, Input.end, inSetup) = ReportOf(noted)
      <4>1. CASE inSetup
        BY <1>1, <2>2, <2>3, <4>1, NoReports DEF ReportOf, LeftOut, ZoneAlarm
      <4>2. CASE ~ inSetup /\ TypeOf(choice.code) = Nothing
        BY <1>1, <2>2, <2>3, <2>6, <4>2, NoReports DEF ReportOf, LeftOut, ZoneAlarm
      <4>3. CASE ~ inSetup /\ TypeOf(choice.code) # Nothing
        <5>1. ~ LeftOut(noted)
          BY <2>3, <2>4, <2>6, <2>7, <4>3 DEF LeftOut
        <5>2. Report(type, Input.end, FALSE) = ZONE_EVENT_LOG_TYPES[Device(noted)][Input.kind][2]
          <6>1. HasReports(TypeOf(choice.code), Input.kind)
            BY <1>2, <4>3, Reported
          <6>2. /\ Input.end = Ends[Input.kind] /\ type = TypeOf(choice.code)
                /\ Device(noted) = TypeOf(choice.code)
            BY <1>1, <2>2, <2>5, <4>3 DEF ZoneAlarm
          <6>3. Report(TypeOf(choice.code), Ends[Input.kind], FALSE)
                  = ZONE_EVENT_LOG_TYPES[TypeOf(choice.code)][Input.kind][2]
            BY <6>1, ReportTables
          <6> QED BY <6>2, <6>3
        <5>3. inSetup = FALSE
          BY <4>3
        <5>4. ReportOf(noted) = ZONE_EVENT_LOG_TYPES[Device(noted)][Input.kind][2 - noted.level]
          BY <5>1 DEF ReportOf
        <5>5. 2 - noted.level = 2
          BY <2>3, <2>7
        <5> QED BY <5>2, <5>3, <5>4, <5>5, Zenon
      <4> QED BY <4>1, <4>2, <4>3
    <3> QED BY <1>5, <2>7, <3>1, <3>2, <3>3 DEF Outcome, CallsBuzzer, change, noted
  <2>8. CASE level = 1
    <3> DEFINE buzzer == s[Input.group][Input.cell + 1] = 1
               said == IF Input.quiet /\ ~ buzzer THEN Nothing ELSE Report(type, Input.begin, inSetup)
    <3>1. change = Outcome({[kind |-> Input.kind, zone |-> Input.zone, type |-> type]}, buzzer, said)
      <4>1. s[Input.group][Input.cell] = 1 /\ level # 0
        BY <1>2, <1>5, <2>8
      <4>2. change = Outcome({r \in raised : <<r.kind, r.zone>> # <<Input.kind, Input.zone>>}
                               \cup {[kind |-> Input.kind, zone |-> Input.zone, type |-> type]},
                             s[Input.group][Input.cell + 1] = 1, said)
        BY <1>3, <4>1, Zenon DEF ZoneChanged
      <4>3. {r \in raised : <<r.kind, r.zone>> # <<Input.kind, Input.zone>>}
              \cup {[kind |-> Input.kind, zone |-> Input.zone, type |-> type]}
            = {[kind |-> Input.kind, zone |-> Input.zone, type |-> type]}
        BY <2>1
      <4> QED BY <4>2, <4>3, Zenon
    <3>2. RaisedBy(noted) = {[kind |-> Input.kind, zone |-> Input.zone, type |-> type]}
      BY <1>1, <2>3, <2>4, <2>8 DEF RaisedBy
    <3>3. said = ReportOf(noted)
      <4>1. CASE Input.quiet /\ ~ choice.buzzer
        BY <1>2, <2>3, <2>8, <4>1 DEF ReportOf, LeftOut
      <4>2. CASE ~ (Input.quiet /\ ~ choice.buzzer) /\ inSetup
        BY <1>1, <1>2, <2>2, <2>3, <4>2, NoReports DEF ReportOf, LeftOut, ZoneAlarm
      <4>3. CASE ~ (Input.quiet /\ ~ choice.buzzer) /\ ~ inSetup /\ TypeOf(choice.code) = Nothing
        BY <1>1, <1>2, <2>2, <2>3, <2>6, <4>3, NoReports DEF ReportOf, LeftOut, ZoneAlarm
      <4>4. CASE ~ (Input.quiet /\ ~ choice.buzzer) /\ ~ inSetup /\ TypeOf(choice.code) # Nothing
        <5>1. ~ LeftOut(noted)
          BY <2>3, <2>4, <2>6, <2>8, <4>4 DEF LeftOut
        <5>2. Report(type, Input.begin, FALSE) = ZONE_EVENT_LOG_TYPES[Device(noted)][Input.kind][1]
          <6>1. HasReports(TypeOf(choice.code), Input.kind)
            BY <1>2, <4>4, Reported
          <6>2. /\ Input.begin = Begins[Input.kind] /\ type = TypeOf(choice.code)
                /\ Device(noted) = TypeOf(choice.code)
            BY <1>1, <2>2, <2>5, <4>4 DEF ZoneAlarm
          <6>3. Report(TypeOf(choice.code), Begins[Input.kind], FALSE)
                  = ZONE_EVENT_LOG_TYPES[TypeOf(choice.code)][Input.kind][1]
            BY <6>1, ReportTables
          <6> QED BY <6>2, <6>3
        <5>3. inSetup = FALSE
          BY <4>4
        <5>4. said = Report(type, Input.begin, FALSE)
          BY <1>2, <4>4, <5>3
        <5>5. ReportOf(noted) = ZONE_EVENT_LOG_TYPES[Device(noted)][Input.kind][2 - noted.level]
          BY <5>1 DEF ReportOf
        <5>6. 2 - noted.level = 1
          BY <2>3, <2>8
        <5> QED BY <5>2, <5>4, <5>5, <5>6, Zenon
      <4> QED BY <4>1, <4>2, <4>3, <4>4
    <3>4. change.asks <=> choice.buzzer
      BY <1>2, <3>1 DEF Outcome
    <3>5. CallsBuzzer(level, choice) <=> choice.buzzer
      BY <1>5, <2>8 DEF CallsBuzzer
    <3>6. change.raised = RaisedBy(noted) /\ change.told = ReportOf(noted)
      BY <3>1, <3>2, <3>3 DEF Outcome
    <3> QED BY <1>5, <3>4, <3>5, <3>6 DEF change, noted
  <2> QED BY <2>7, <2>8
<1> QED BY <1>4, <1>5

LEMMA OtherChange ==
  ASSUME line \in Lines, ~ Zoned,
         NEW s, NEW choice, NEW level \in {0, 1}, NEW inSetup \in BOOLEAN,
         NEW table, WiredIn(table) = Input, hist \in {-1, 0, 1}, hist # level
  PROVE  LET change == Change(table, level, s, ScanTypes, ScanPowerTypes, inSetup)
         IN  /\ change.raised = RaisedBy(Changed(level, choice, inSetup))
             /\ change.told = ReportOf(Changed(level, choice, inSetup))
             /\ ~ change.asks
<1> DEFINE change == Change(table, level, s, ScanTypes, ScanPowerTypes, inSetup)
           noted == Changed(level, choice, inSetup)
<1>1. /\ OtherAlarm(Input) /\ change = OtherChanged(Input.kind, level)
  BY InputFacts DEF Change
<1>2. noted.level = level /\ noted.inSetup = inSetup /\ noted.before = hist
  BY DEF Changed
<1> HIDE DEF change, noted
<1>3. Device(noted) = Input.kind /\ ~ Input.quiet /\ Input.group = Nothing /\ Input.zone = 0
  BY <1>1 DEF OtherAlarm, Device, Cameras
<1> USE DEF OtherChanged, Outcome, RaisedBy, ReportOf, LeftOut, ZONE_EVENT_LOG_TYPES, Nothing
<1>4. CASE Input.kind = "shutdown"
  BY <1>1, <1>2, <1>3, <1>4 DEF change, noted
<1>5. CASE Input.kind = "mains"
  BY <1>1, <1>2, <1>3, <1>5 DEF change, noted
<1>6. CASE Input.kind = "battery"
  BY <1>1, <1>2, <1>3, <1>6 DEF change, noted
<1> QED BY <1>1, <1>4, <1>5, <1>6 DEF OtherAlarm

(* What is raised and told after the changes that were seen.               *)
Agree(changes, alarms, report) ==
    /\ changes = {} => alarms = {}
    /\ \A change \in changes :
          /\ change.level \in {0, 1}
          /\ Zoned => change.code \in CodesOf(Input.kind)
          /\ alarms = RaisedBy(change)
          /\ report = ReportOf(change)

SeenInv ==
    /\ hist \in {-1, 0, 1}
    /\ stage = "boot" => hist = -1
    /\ setupMode \in BOOLEAN
    /\ Agree(seen, raised, told)

LEMMA OwnAgreed ==
  ASSUME Agree(seen, raised, told) PROVE OwnRaised
BY DEF Agree, RaisedBy, OwnRaised

LEMMA AgreeUnchanged ==
  ASSUME line' = line, Agree(seen', raised', told') PROVE Agree(seen, raised, told)'
BY DEF Agree, Zoned, Input, WiredIn, CodesOf, RaisedBy, TypeOf, ReportOf, LeftOut, Device

(* Whatever a scanner makes of a change agrees with it.                    *)
LEMMA ChangeAgrees ==
  ASSUME line \in Lines, SeenInv,
         NEW s, NEW choice, Zoned => Says(choice, OwnCells(s)),
         NEW level \in {0, 1}, hist # level, NEW inSetup \in BOOLEAN,
         NEW table, WiredIn(table) = Input
  PROVE  LET change == Change(table, level, s, ScanTypes, ScanPowerTypes, inSetup)
         IN  /\ Agree(Noted(level, choice, inSetup), change.raised, change.told)
             /\ change.asks <=> CallsBuzzer(level, choice)
<1> DEFINE change == Change(table, level, s, ScanTypes, ScanPowerTypes, inSetup)
           noted == Changed(level, choice, inSetup)
<1>1. hist \in {-1, 0, 1} /\ Agree(seen, raised, told) /\ OwnRaised
  BY OwnAgreed DEF SeenInv
<1>2. noted.level = level /\ noted.code = choice.code
  BY DEF Changed
<1>3. CASE Zoned
  <2>1. /\ ~ choice.on => change.raised = raised /\ change.told = told
        /\ choice.on => change.raised = RaisedBy(noted) /\ change.told = ReportOf(noted)
        /\ change.asks <=> CallsBuzzer(level, choice)
    BY <1>1, <1>3, ZonedChange
  <2>2. CASE choice.on
    <3>1. Noted(level, choice, inSetup) = {noted}
      BY <1>3, <2>2 DEF Noted, Changed
    <3>2. noted.code \in CodesOf(Input.kind)
      BY <1>2, <1>3 DEF Says
    <3> HIDE DEF noted, change
    <3>3. Agree({noted}, change.raised, change.told)
      BY <1>2, <2>1, <2>2, <3>2 DEF Agree
    <3> QED BY <2>1, <3>1, <3>3 DEF change
  <2>3. CASE ~ choice.on
    <3>1. Noted(level, choice, inSetup) = seen
      BY <1>3, <2>3 DEF Noted
    <3> QED BY <1>1, <2>1, <2>3, <3>1
  <2> QED BY <2>2, <2>3
<1>4. CASE ~ Zoned
  <2>1. /\ change.raised = RaisedBy(noted) /\ change.told = ReportOf(noted)
        /\ ~ change.asks
    BY <1>1, <1>4, OtherChange
  <2>2. Noted(level, choice, inSetup) = {noted}
    BY <1>4 DEF Noted, Changed
  <2> HIDE DEF noted, change
  <2>3. Agree({noted}, change.raised, change.told)
    BY <1>2, <1>4, <2>1 DEF Agree
  <2>4. ~ CallsBuzzer(level, choice)
    BY <1>4 DEF CallsBuzzer
  <2> QED BY <2>1, <2>2, <2>3, <2>4 DEF change
<1> QED BY <1>3, <1>4

(* A boot and a turn of the main loop, as what they make of a change.      *)
LEMMA BootChange ==
  ASSUME ChoiceInv, SeenInv, NEW level \in {0, 1}, Boot(level)
  PROVE  /\ Agree(seen', raised', told')
         /\ request' <=> CallsBuzzer(level, kept)
<1> DEFINE change == Change(InitScan, level, settings', ScanTypes, ScanPowerTypes, FALSE)
<1>1. /\ raised' = change.raised /\ request' = change.asks /\ told' = change.told
      /\ seen' = Noted(level, kept, FALSE)
      /\ settings' = [g \in Groups |-> Read(g, files[g])]
  BY SameTables DEF Boot
<1>2. line \in Lines /\ hist # level /\ WiredIn(InitScan) = Input
  BY Wired DEF ChoiceInv, SeenInv, Boot
<1>3. Zoned => Says(kept, OwnCells(settings'))
  <2> SUFFICES ASSUME Zoned PROVE Says(kept, OwnCells(settings'))
    OBVIOUS
  <2>1. Input.group \in Groups /\ files \in [Groups -> [Rows -> Int \X Int \X Int]]
    BY <1>2, InputFacts DEF ChoiceInv
  <2>2. settings'[Input.group] = Read(Input.group, files[Input.group])
    BY <1>1, <2>1
  <2>3. OwnCells(settings') = files[Input.group][Input.zone - 1]
    BY <1>2, <2>1, <2>2, ReadOwn
  <2> QED BY <2>3 DEF ChoiceInv
<1>4. /\ Agree(Noted(level, kept, FALSE), change.raised, change.told)
      /\ change.asks <=> CallsBuzzer(level, kept)
  BY <1>2, <1>3, ChangeAgrees
<1> QED BY <1>1, <1>4

LEMMA TurnChange ==
  ASSUME ChoiceInv, SeenInv, NEW level \in {0, 1}, hist = 1 - level
  PROVE  LET change == Change(Scan, level, settings, ScanTypes, ScanPowerTypes, setupMode)
         IN  /\ Agree(Noted(level, chosen, setupMode), change.raised, change.told)
             /\ change.asks <=> CallsBuzzer(level, chosen)
<1>1. line \in Lines /\ WiredIn(Scan) = Input /\ hist # level /\ setupMode \in BOOLEAN
  BY DEF ChoiceInv, SeenInv, Input
<1>2. Zoned => Says(chosen, OwnCells(settings))
  BY DEF ChoiceInv
<1> QED BY <1>1, <1>2, ChangeAgrees

(* The lamps and relays that the display sets for the alarms.              *)
LampsOf(alarms) ==
    UNION {FaultLamps(alarms), OffLamps(alarms), ActiveLamps(alarms), CameraLamps(alarms),
           MainsLamp(alarms)}

LitInv == stage = "loop" => lit \ {BUZZER} = LampsOf(raised)

(* A turn of the main loop that finds a change of the input, or none.      *)
LEMMA TurnSteps ==
  ASSUME ChoiceInv, SeenInv, NEW level \in {-1, 0, 1}, NEW second \in BOOLEAN,
         Turn(level, second)
  PROVE  /\ Agree(seen', raised', told')
         /\ hist' \in {-1, 0, 1}
         /\ lit' \ {BUZZER} = LampsOf(raised')
<1> DEFINE change == Change(Scan, level, settings, ScanTypes, ScanPowerTypes, setupMode)
           heard == Buzz(request \/ (IF hist = 1 - level THEN change
                                     ELSE Outcome(raised, FALSE, told)).asks, second).sounding
                      /\ ~ setupMode
<1>1. /\ hist' = IF hist = 1 - level THEN level ELSE hist
      /\ raised' = (IF hist = 1 - level THEN change ELSE Outcome(raised, FALSE, told)).raised
      /\ told' = (IF hist = 1 - level THEN change ELSE Outcome(raised, FALSE, told)).told
      /\ seen' = IF hist = 1 - level THEN Noted(level, chosen, setupMode) ELSE seen
      /\ lit' = UNION {FaultLamps(raised'), OffLamps(raised'), ActiveLamps(raised'),
                       CameraLamps(raised'), MainsLamp(raised'),
                       IF heard THEN {BUZZER} ELSE {}}
  BY DEF Turn
<1> HIDE DEF heard, change
<1>2. lit' \ {BUZZER} = LampsOf(raised')
  <2>1. BUZZER \notin LampsOf(raised')
    BY DEF LampsOf, FaultLamps, OffLamps, ActiveLamps, CameraLamps, MainsLamp, With, Lamps, Of,
           BUZZER, RELAY_2, RELAY_3, BAT_ON_LED
  <2>2. (IF heard THEN {BUZZER} ELSE {}) \subseteq {BUZZER}
    OBVIOUS
  <2>3. lit' = LampsOf(raised') \cup (IF heard THEN {BUZZER} ELSE {})
    BY <1>1 DEF LampsOf
  <2> QED BY <2>1, <2>2, <2>3
<1>3. CASE hist = 1 - level
  <2>1. level \in {0, 1}
    BY <1>3 DEF SeenInv
  <2>2. Agree(Noted(level, chosen, setupMode), change.raised, change.told)
    BY <1>3, <2>1, TurnChange DEF change
  <2> QED BY <1>1, <1>2, <1>3, <2>2
<1>4. CASE hist # 1 - level
  <2>1. raised' = raised /\ told' = told /\ seen' = seen /\ hist' = hist
    BY <1>1, <1>4 DEF Outcome
  <2> QED BY <1>2, <2>1 DEF SeenInv
<1> QED BY <1>3, <1>4

LEMMA SeenStep == ChoiceInv /\ SeenInv /\ LitInv /\ [Next]_vars => SeenInv' /\ LitInv'
<1> SUFFICES ASSUME ChoiceInv, SeenInv, LitInv, [Next]_vars PROVE SeenInv' /\ LitInv'
  OBVIOUS
<1>1. line' = line
  BY DEF Next, vars, Boot, Turn, Technician, MenuEnter, MenuEdit, EditZone, Edit, MenuExit,
         MenuAbandon, ToggleSetup, Act, Restart
<1>2. ASSUME NEW level \in {0, 1}, Boot(level) PROVE SeenInv' /\ LitInv'
  <2>1. hist' = level /\ stage' = "scanned" /\ setupMode' = FALSE
    BY <1>2 DEF Boot
  <2>2. Agree(seen, raised, told)'
    BY <1>1, <1>2, BootChange, AgreeUnchanged
  <2> QED BY <2>1, <2>2 DEF SeenInv, LitInv
<1>3. ASSUME NEW level \in {-1, 0, 1}, NEW second \in BOOLEAN, Turn(level, second)
      PROVE  SeenInv' /\ LitInv'
  <2>1. /\ Agree(seen', raised', told') /\ hist' \in {-1, 0, 1}
        /\ lit' \ {BUZZER} = LampsOf(raised')
    BY <1>3, TurnSteps
  <2>2. Agree(seen, raised, told)'
    BY <1>1, <2>1, AgreeUnchanged
  <2>3. stage' = "loop" /\ setupMode' = setupMode
    BY <1>3 DEF Turn
  <2>4. SeenInv'
    BY <2>1, <2>2, <2>3 DEF SeenInv
  <2>5. LitInv'
    BY <2>1 DEF LitInv, LampsOf, FaultLamps, OffLamps, ActiveLamps, CameraLamps, MainsLamp
  <2> QED BY <2>4, <2>5
<1>4. ASSUME \/ Technician \/ UNCHANGED vars
      PROVE  SeenInv' /\ LitInv'
  <2>1. /\ UNCHANGED <<hist, raised, told, seen, stage, lit>> /\ setupMode' \in BOOLEAN
    BY <1>4 DEF vars, Technician, MenuEnter, MenuEdit, EditZone, Edit, MenuExit, MenuAbandon,
         ToggleSetup, Act, SeenInv
  <2>2. Agree(seen', raised', told')
    BY <2>1 DEF SeenInv
  <2>3. Agree(seen, raised, told)'
    BY <1>1, <2>2, AgreeUnchanged
  <2>4. SeenInv'
    BY <2>1, <2>3 DEF SeenInv
  <2>5. LitInv'
    BY <2>1 DEF LitInv, LampsOf, FaultLamps, OffLamps, ActiveLamps, CameraLamps, MainsLamp
  <2> QED BY <2>4, <2>5
<1>5. CASE Restart
  <2>1. hist' = -1 /\ raised' = {} /\ seen' = {} /\ stage' = "boot" /\ setupMode' = setupMode
    BY <1>5 DEF Restart
  <2>2. Agree(seen', raised', told')
    BY <2>1 DEF Agree
  <2>3. Agree(seen, raised, told)'
    BY <1>1, <2>2, AgreeUnchanged
  <2> QED BY <2>1, <2>3 DEF SeenInv, LitInv
<1> QED BY <1>2, <1>3, <1>4, <1>5 DEF Next

(* The lamps of the alarm that a change raises are its own.                *)
LEMMA LampsOfChange ==
  ASSUME line \in Lines, NEW change, change.level \in {0, 1},
         Zoned => change.code \in CodesOf(Input.kind)
  PROVE  LampsOf(RaisedBy(change)) =
            IF change.level = 0 \/ (Zoned /\ Device(change) = "IAS") THEN {}
            ELSE Signs(Device(change), Input.kind)
<1> USE DEF LampsOf, FaultLamps, OffLamps, ActiveLamps, CameraLamps, MainsLamp, With, Lamps, Of
<1>1. CASE RaisedBy(change) = {}
  <2>1. LampsOf({}) = {}
    OBVIOUS
  <2>2. change.level = 0 \/ Input.kind \in {"battery", "shutdown"}
    BY <1>1 DEF RaisedBy
  <2>3. Input.kind \in {"battery", "shutdown"} => Signs(Device(change), Input.kind) = {}
    BY DEF Signs, Cameras
  <2> QED BY <1>1, <2>1, <2>2, <2>3
<1>2. CASE RaisedBy(change) # {}
  <2> DEFINE type == IF Zoned THEN TypeOf(change.code) ELSE Nothing
             r == [kind |-> Input.kind, zone |-> Input.zone, type |-> type]
  <2>1. RaisedBy(change) = {r} /\ change.level # 0
    BY <1>2 DEF RaisedBy
  <2> HIDE DEF type
  <2>2. r.kind = Input.kind /\ r.zone = Input.zone /\ r.type = type
    OBVIOUS
  <2> HIDE DEF r
  <2>3. CASE ~ Zoned
    <3>1. Input.kind = "mains" /\ Device(change) = "mains"
      BY <1>2, <2>3, InputFacts DEF OtherAlarm, RaisedBy, Device, Cameras
    <3>2. LampsOf({r}) = {BAT_ON_LED}
      BY <2>2, <3>1
    <3> QED BY <2>1, <2>3, <3>1, <3>2 DEF Signs, Cameras
  <2>4. CASE Zoned
    <3>1. ZoneAlarm(Input) /\ type = TypeOf(change.code) /\ change.code \in CodesOf(Input.kind)
      BY <2>4, InputFacts DEF type
    <3>2. CASE Input.kind \in Cameras
      <4>1. Device(change) = "CCTV" /\ type = "CCTV"
        BY <3>1, <3>2 DEF Device, TypeOf
      <4>2. LampsOf({r}) = {<<"CCTV", Input.kind>>, RELAY_2}
        BY <2>2, <3>2, <4>1 DEF Cameras
      <4>3. Signs(Device(change), Input.kind) = {<<"CCTV", Input.kind>>, RELAY_2}
        BY <3>2, <4>1 DEF Signs, Cameras
      <4>4. Device(change) # "IAS"
        BY <4>1
      <4> QED BY <2>1, <4>2, <4>3, <4>4
    <3>3. CASE Input.kind = "off"
      <4>1. /\ type \in {"BAS", "FAS", "TIME_LOCK", "BACS", "CCTV", "IAS"} /\ Device(change) = type
            /\ Input.zone \in 1 .. 15
        BY <2>4, <3>1, <3>3
           DEF Device, TypeOf, Cameras, TypeNames, CodesOf, ZoneAlarm, ZonesOf
      <4>2. LampsOf({r}) = IF type = "IAS" THEN {} ELSE {<<type, "off">>}
        BY <2>2, <3>3, <4>1
      <4> QED BY <2>1, <2>4, <3>3, <4>1, <4>2 DEF Signs, Cameras
    <3>4. CASE Input.kind \in {"active", "fault"}
      <4>1. /\ type \in {"BAS", "FAS", "TIME_LOCK", "BACS", "IAS", Nothing}
            /\ Device(change) = IF type = Nothing THEN "IAS" ELSE type
            /\ Input.zone \in 1 .. 15
        BY <2>4, <3>1, <3>4
           DEF Device, TypeOf, Cameras, TypeNames, CodesOf, ZoneCodes, ZoneAlarm, ZonesOf, Nothing
      <4>2. CASE Input.kind = "active"
        <5>1. LampsOf({r}) = IF type \in {"IAS", Nothing} THEN {}
                             ELSE {RELAY_3} \cup (IF type \in {"BAS", "FAS"} THEN {<<type, "active">>} ELSE {})
          BY <2>2, <4>1, <4>2 DEF Nothing
        <5> QED BY <2>1, <2>4, <4>1, <4>2, <5>1 DEF Signs, Cameras, Nothing
      <4>3. CASE Input.kind = "fault"
        <5>1. LampsOf({r}) = IF type \in {"IAS", Nothing} THEN {} ELSE {<<type, "fault">>, RELAY_2}
          BY <2>2, <4>1, <4>3 DEF Nothing
        <5>2. CASE type \in {"IAS", Nothing}
          BY <2>1, <2>4, <4>1, <5>1, <5>2
        <5>3. CASE type \notin {"IAS", Nothing}
          <6>1. Device(change) = type /\ type # "IAS"
            BY <4>1, <5>3
          <6>2. Signs(type, "fault") = {<<type, "fault">>, RELAY_2}
            BY DEF Signs, Cameras
          <6> QED BY <2>1, <4>3, <5>1, <5>3, <6>1, <6>2
        <5> QED BY <5>2, <5>3
      <4> QED BY <3>4, <4>2, <4>3
    <3> QED BY <3>1, <3>2, <3>3, <3>4 DEF ZoneAlarm, Cameras
  <2> QED BY <2>3, <2>4
<1> QED BY <1>1, <1>2

ToldInv == ChoiceInv /\ SeenInv /\ LitInv

LEMMA ToldAlways == Spec => []ToldInv
<1>1. Init => ToldInv
  <2>1. Init => SeenInv /\ LitInv
    BY DEF Init, SeenInv, LitInv, Agree
  <2> QED BY <2>1, ChoiceInit DEF ToldInv
<1>2. ToldInv /\ [Next]_vars => ToldInv'
  BY ChoiceStep, SeenStep DEF ToldInv
<1> QED BY <1>1, <1>2, PTL DEF Spec

(* A change of an input is reported as what the screens of its zone said   *)
(* at that time, whatever was edited, saved and restarted before           *)
(* (muxSelectionZone1, muxSelectionZoneInitScan, generateReportMsg).       *)
THEOREM ReportsAlwaysAsChosen == Spec => []ReportsAsChosen
<1>1. ToldInv => ReportsAsChosen
  BY DEF ToldInv, SeenInv, Agree, ReportsAsChosen, ReportOf
<1> QED BY <1>1, ToldAlways, PTL

(* In the main loop the lamps and relays show the last change that was     *)
(* seen while the zone was on, and nothing else                            *)
(* (outputShiftRegLEDDisplay).                                             *)
THEOREM LampsAlwaysTell == Spec => []LampsTell
<1>1. ToldInv => LampsTell
  <2> SUFFICES ASSUME ToldInv, stage = "loop", NEW change \in seen
               PROVE  lit \ {BUZZER} =
                        IF change.level = 0 \/ (Zoned /\ Device(change) = "IAS") THEN {}
                        ELSE Signs(Device(change), Input.kind)
    BY DEF LampsTell
  <2>1. /\ line \in Lines /\ lit \ {BUZZER} = LampsOf(raised)
        /\ change.level \in {0, 1} /\ raised = RaisedBy(change)
        /\ Zoned => change.code \in CodesOf(Input.kind)
    BY DEF ToldInv, ChoiceInv, SeenInv, LitInv, Agree
  <2> QED BY <2>1, LampsOfChange
<1> QED BY <1>1, ToldAlways, PTL
-----------------------------------------------------------------------------
(* The buzzer sounds for a call that is no older than the seconds that it  *)
(* has counted; a call that the initial scan makes is pending until the    *)
(* first turn of the main loop, and each call is heard or excused in the   *)
(* turn that takes it.                                                     *)
Calls == [seconds : Nat, heard : BOOLEAN, excused : BOOLEAN]

BuzzInv ==
    /\ stage \in {"boot", "scanned", "loop"}
    /\ seconds \in 0 .. BuzzSeconds
    /\ sounding \in BOOLEAN /\ tick \in BOOLEAN
    /\ called \subseteq Calls
    /\ ~ sounding => seconds = 0
    /\ sounding => stage = "loop" /\ ~ tick /\ \E call \in called : call.seconds <= seconds
    /\ request => stage = "scanned" /\ \E call \in called : call.seconds = 0
    /\ stage = "boot" => called = {}
    /\ stage = "scanned" /\ called # {} => request
    /\ stage = "loop" => /\ \A call \in called : call.heard \/ call.excused
                         /\ BUZZER \in lit => sounding

LEMMA TurnBuzz ==
  ASSUME ChoiceInv, SeenInv, BuzzInv, NEW level \in {-1, 0, 1}, NEW second \in BOOLEAN,
         Turn(level, second)
  PROVE  BuzzInv'
<1> DEFINE change == IF hist = 1 - level
                     THEN Change(Scan, level, settings, ScanTypes, ScanPowerTypes, setupMode)
                     ELSE Outcome(raised, FALSE, told)
           calling == hist = 1 - level /\ CallsBuzzer(level, chosen)
           asked == request \/ change.asks
           starts == sounding \/ asked
           counts == starts /\ (tick \/ second)
           ends == counts /\ seconds + 1 > BuzzSeconds
           sounds == starts /\ ~ ends
           older == {[c EXCEPT !.seconds = IF second THEN @ + 1 ELSE @] :
                        c \in {d \in called : d.seconds <= BuzzSeconds}}
           calls == IF calling THEN JustCalled ELSE older
           after(c) == [c EXCEPT !.heard = @ \/ (sounds /\ ~ setupMode),
                                 !.excused = @ \/ setupMode \/ (sounding /\ ~ sounds)]
<1>1. /\ Buzz(asked, second).sounding = sounds
      /\ Buzz(asked, second).tick = ((tick \/ second) /\ ~ counts)
      /\ Buzz(asked, second).seconds = IF ends THEN 0 ELSE IF counts THEN seconds + 1 ELSE seconds
  <2> HIDE DEF asked
  <2> QED BY DEF Buzz
<1>2. change.asks <=> calling
  <2>1. CASE hist = 1 - level
    <3>1. level \in {0, 1}
      BY <2>1 DEF SeenInv
    <3> QED BY <2>1, <3>1, TurnChange
  <2>2. CASE hist # 1 - level
    BY <2>2 DEF Outcome
  <2> QED BY <2>1, <2>2
<1>3. /\ sounding' = Buzz(asked, second).sounding
      /\ tick' = Buzz(asked, second).tick
      /\ seconds' = Buzz(asked, second).seconds
      /\ request' = FALSE /\ stage' = "loop"
      /\ BUZZER \in (IF Buzz(asked, second).sounding /\ ~ setupMode THEN {BUZZER} ELSE {})
            => Buzz(asked, second).sounding
  BY DEF Turn
<1>4. BUZZER \in lit' => sounding'
  <2> DEFINE buzzing == IF Buzz(asked, second).sounding /\ ~ setupMode THEN {BUZZER} ELSE {}
  <2>1. lit' = UNION {FaultLamps(raised'), OffLamps(raised'), ActiveLamps(raised'),
                      CameraLamps(raised'), MainsLamp(raised'), buzzing}
    BY DEF Turn
  <2>2. BUZZER \notin LampsOf(raised')
    BY DEF LampsOf, FaultLamps, OffLamps, ActiveLamps, CameraLamps, MainsLamp, With, Lamps, Of,
           BUZZER, RELAY_2, RELAY_3, BAT_ON_LED
  <2> HIDE DEF buzzing
  <2>3. BUZZER \in lit' => BUZZER \in buzzing
    BY <2>1, <2>2 DEF LampsOf
  <2> QED BY <1>3, <2>3 DEF buzzing
<1>5. called' = {after(c) : c \in calls}
  BY <1>1 DEF Turn
<1>6. stage \in {"scanned", "loop"} /\ setupMode \in BOOLEAN /\ BuzzSeconds \in Nat \ {0}
  BY ZonePanelAssumption DEF Turn, BuzzInv, SeenInv
<1>7. asked <=> request \/ calling
  BY <1>2
<1>8. /\ sounding' <=> sounds
      /\ tick' <=> (tick \/ second) /\ ~ counts
      /\ seconds' = IF ends THEN 0 ELSE IF counts THEN seconds + 1 ELSE seconds
  BY <1>1, <1>3
<1>9. sounding' \in BOOLEAN /\ tick' \in BOOLEAN
  BY <1>1, <1>3
<1> HIDE DEF change, calling, asked
<1>10. \A c \in Calls :
          /\ after(c) \in Calls
          /\ after(c).seconds = c.seconds
          /\ after(c).heard <=> c.heard \/ (sounds /\ ~ setupMode)
          /\ after(c).excused <=> c.excused \/ setupMode \/ (sounding /\ ~ sounds)
  <2> TAKE c \in Calls
  <2> DEFINE h == c.heard \/ (sounds /\ ~ setupMode)
             e == c.excused \/ setupMode \/ (sounding /\ ~ sounds)
  <2>1. h \in BOOLEAN /\ e \in BOOLEAN
    OBVIOUS
  <2>2. after(c) = [c EXCEPT !.heard = h, !.excused = e]
    OBVIOUS
  <2> HIDE DEF h, e
  <2>3. /\ after(c) \in Calls /\ after(c).seconds = c.seconds
        /\ after(c).heard = h /\ after(c).excused = e
    BY <2>1, <2>2 DEF Calls
  <2> QED BY <2>3 DEF h, e
<1>11. \A d \in Calls :
          LET c == [d EXCEPT !.seconds = IF second THEN @ + 1 ELSE @]
          IN  /\ c \in Calls /\ c.heard = d.heard /\ c.excused = d.excused
              /\ c.seconds = IF second THEN d.seconds + 1 ELSE d.seconds
  BY DEF Calls
<1>12. JustCalled \subseteq Calls /\ older \subseteq Calls
  <2>1. JustCalled \subseteq Calls
    BY DEF JustCalled, Calls
  <2>2. called \subseteq Calls
    BY DEF BuzzInv
  <2> QED BY <1>11, <2>1, <2>2
<1>12a. calls \subseteq Calls
  BY <1>12
<1> HIDE DEF after
<1>13. called' \subseteq Calls
  <2> HIDE DEF calls
  <2> QED BY <1>5, <1>10, <1>12a
<1>14. /\ seconds' \in 0 .. BuzzSeconds
       /\ ~ sounding' => seconds' = 0
       /\ sounding' => ~ tick'
  BY <1>6, <1>8 DEF BuzzInv
<1>15. ASSUME sounding' PROVE \E call \in called' : call.seconds <= seconds'
  <2>1. CASE calling
    <3>1. PICK c \in calls : c.seconds = 0
      BY <2>1 DEF JustCalled
    <3> HIDE DEF calls
    <3>2. after(c) \in called' /\ after(c).seconds = 0
      BY <1>5, <1>10, <1>12a, <3>1
    <3>3. 0 <= seconds'
      BY <1>14
    <3> QED BY <3>2, <3>3
  <2>2. CASE ~ calling
    <3>1. PICK d \in called : d.seconds <= seconds
      BY <1>7, <1>8, <1>15, <2>2 DEF BuzzInv
    <3>2. d \in Calls /\ d.seconds \in Nat /\ d.seconds <= BuzzSeconds
      BY <1>6, <3>1 DEF BuzzInv, Calls
    <3> DEFINE c == [d EXCEPT !.seconds = IF second THEN @ + 1 ELSE @]
    <3>3. c \in older
      BY <3>1, <3>2
    <3>4. c \in Calls /\ c.seconds = IF second THEN d.seconds + 1 ELSE d.seconds
      BY <1>11, <3>2
    <3> HIDE DEF c, older
    <3>5. after(c) \in called' /\ after(c).seconds = c.seconds
      <4>1. c \in calls
        BY <2>2, <3>3
      <4> HIDE DEF calls
      <4> QED BY <1>5, <1>10, <3>4, <4>1
    <3>6. ~ ends /\ starts
      BY <1>8, <1>15
    <3>7. seconds' = IF counts THEN seconds + 1 ELSE seconds
      BY <1>8, <3>6
    <3>8. second => counts
      BY <3>6
    <3>9. c.seconds <= seconds'
      BY <3>1, <3>2, <3>4, <3>7, <3>8 DEF BuzzInv
    <3> QED BY <3>5, <3>9
  <2> QED BY <2>1, <2>2
<1>16. ASSUME NEW call \in called' PROVE call.heard \/ call.excused
  <2>1. PICK c \in calls : call = after(c)
    BY <1>5
  <2>2. /\ c \in Calls
        /\ call.heard <=> c.heard \/ (sounds /\ ~ setupMode)
        /\ call.excused <=> c.excused \/ setupMode \/ (sounding /\ ~ sounds)
    BY <1>10, <1>12, <2>1
  <2>3. CASE asked
    <3>1. CASE sounding
      BY <2>2, <3>1
    <3>2. CASE ~ sounding
      <4>1. seconds = 0 /\ BuzzSeconds >= 1
        BY <1>6, <3>2 DEF BuzzInv
      <4>2. ~ (seconds + 1 > BuzzSeconds)
        BY <1>6, <4>1
      <4>3. sounds
        BY <2>3, <4>2
      <4> QED BY <2>2, <4>3
    <3> QED BY <3>1, <3>2
  <2>4. CASE ~ asked
    <3>1. ~ request /\ ~ calling
      BY <1>7, <2>4
    <3>2. PICK d \in called : c = [d EXCEPT !.seconds = IF second THEN @ + 1 ELSE @]
      BY <3>1
    <3>3. stage = "loop"
      BY <1>6, <3>1, <3>2 DEF BuzzInv
    <3>4. d \in Calls /\ (d.heard \/ d.excused)
      BY <3>2, <3>3 DEF BuzzInv
    <3>5. c.heard = d.heard /\ c.excused = d.excused
      BY <1>11, <3>2, <3>4
    <3> QED BY <2>2, <3>4, <3>5
  <2> QED BY <2>3, <2>4
<1> HIDE DEF sounds, counts, ends, starts, calls, after
<1> QED BY <1>3, <1>4, <1>9, <1>13, <1>14, <1>15, <1>16 DEF BuzzInv

LEMMA BuzzStep == ChoiceInv /\ SeenInv /\ BuzzInv /\ [Next]_vars => BuzzInv'
<1> SUFFICES ASSUME ChoiceInv, SeenInv, BuzzInv, [Next]_vars PROVE BuzzInv'
  OBVIOUS
<1>1. ASSUME NEW level \in {0, 1}, Boot(level) PROVE BuzzInv'
  <2>1. /\ stage = "boot" /\ stage' = "scanned"
        /\ called' = IF CallsBuzzer(level, kept) THEN JustCalled ELSE called
        /\ UNCHANGED <<sounding, tick, seconds>>
    BY <1>1 DEF Boot
  <2>2. request' <=> CallsBuzzer(level, kept)
    BY <1>1, BootChange
  <2>4. called = {} /\ ~ sounding
    BY <2>1 DEF BuzzInv
  <2>5. JustCalled \subseteq Calls /\ \E call \in JustCalled : call.seconds = 0
    BY DEF JustCalled, Calls
  <2>6. CASE CallsBuzzer(level, kept)
    BY <2>1, <2>2, <2>4, <2>5, <2>6 DEF BuzzInv
  <2>7. CASE ~ CallsBuzzer(level, kept)
    BY <2>1, <2>2, <2>4, <2>7 DEF BuzzInv
  <2> QED BY <2>6, <2>7
<1>2. ASSUME NEW level \in {-1, 0, 1}, NEW second \in BOOLEAN, Turn(level, second)
      PROVE  BuzzInv'
  BY <1>2, TurnBuzz
<1>3. ASSUME \/ Technician \/ UNCHANGED vars
      PROVE  BuzzInv'
  <2>1. UNCHANGED <<buzzerVars, stage, lit>>
    BY <1>3 DEF vars, Technician, MenuEnter, MenuEdit, EditZone, Edit, MenuExit, MenuAbandon,
         ToggleSetup, Act
  <2> QED BY <2>1 DEF BuzzInv, buzzerVars
<1>4. CASE Restart
  <2>1. /\ stage' = "boot" /\ request' = FALSE /\ sounding' = FALSE /\ tick' = FALSE
        /\ seconds' = 0 /\ called' = {}
    BY <1>4 DEF Restart
  <2>2. 0 \in 0 .. BuzzSeconds
    BY ZonePanelAssumption
  <2> QED BY <2>1, <2>2 DEF BuzzInv
<1> QED BY <1>1, <1>2, <1>3, <1>4 DEF Next

(* An alarm of a zone whose buzzer is on is heard, or excused, in the turn *)
(* of the main loop that finds it, and the buzzer is not heard for longer  *)
(* than its time after the last of them, however long that is              *)
(* (outputShiftRegLEDDisplay).                                             *)
THEOREM BuzzerAlwaysAnswers == Spec => []BuzzerAnswers
<1>1. Init => BuzzInv
  <2>1. 0 \in 0 .. BuzzSeconds
    BY ZonePanelAssumption
  <2> QED BY <2>1 DEF Init, BuzzInv
<1>2. ToldInv /\ BuzzInv /\ [Next]_vars => BuzzInv'
  BY BuzzStep DEF ToldInv
<1>3. BuzzInv => BuzzerAnswers
  <2> SUFFICES ASSUME BuzzInv, stage = "loop" PROVE BuzzerAnswers
    BY DEF BuzzerAnswers
  <2>1. \A call \in called : call.heard \/ call.excused
    BY DEF BuzzInv
  <2>2. ASSUME BUZZER \in lit PROVE \E call \in called : call.seconds <= BuzzSeconds
    <3>1. PICK call \in called : call.seconds <= seconds
      BY <2>2 DEF BuzzInv
    <3>2. call.seconds \in Nat /\ seconds \in Int /\ seconds <= BuzzSeconds /\ BuzzSeconds \in Nat
      BY <3>1, ZonePanelAssumption DEF BuzzInv, Calls
    <3> QED BY <3>1, <3>2
  <2> QED BY <2>1, <2>2 DEF BuzzerAnswers
<1> QED BY <1>1, <1>2, <1>3, ToldAlways, PTL DEF Spec
=============================================================================
