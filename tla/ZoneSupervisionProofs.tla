----------------------- MODULE ZoneSupervisionProofs -----------------------
(***************************************************************************)
(* ZoneSupervision proved for every wiring of the zones, any settings,     *)
(* any number of keys and of restarts: the types, the alarms that follow   *)
(* the inputs, the reset that a crash cannot leave half done, and the      *)
(* counter of the devices that are on, from which the bursts are made.     *)
(***************************************************************************)
EXTENDS ZoneSupervision, FiniteSetTheorems, TLAPS

(* The number of devices of a type that are on is a natural number.        *)
LEMMA PoweredCount ==
  ASSUME NEW T \in Types
  PROVE  IsFiniteSet(Powered(T)) /\ Cardinality(Powered(T)) \in Nat
<1>1. Powered(T) \subseteq Lines
  BY DEF Powered, PowerLines
<1> QED BY <1>1, ConstantsAssumption, FS_Subset, FS_CardinalityType

(* Settings of one group laid over the others are settings.                *)
LEMMA OverlayType ==
  ASSUME NEW s \in [Zones -> Setting], NEW t \in [Zones -> Setting], NEW g
  PROVE  Overlay(s, g, t) \in [Zones -> Setting]
BY DEF Overlay

(* So are those of resetToDefault.                                         *)
LEMMA DefaultIsSetting == Default \in [Zones -> Setting]
BY ConstantsAssumption DEF Default, Setting

(* The reaction to any set of changed lines keeps their types.             *)
LEMMA ReactType ==
  ASSUME TypeOK, NEW C, React(C)
  PROVE  /\ hist' \in [Lines -> {-1, 0, 1}] /\ told' \in [Lines -> {-1, 0, 1}]
         /\ alarm' \in [Lines -> Types \cup {None}]
<1>1. \A l \in Lines : settings[ZoneOf[l]].type \in Types
  BY ConstantsAssumption DEF TypeOK, Setting
<1>2. hist' \in [Lines -> {-1, 0, 1}] /\ told' \in [Lines -> {-1, 0, 1}]
  BY DEF TypeOK, React
<1>3. alarm' \in [Lines -> Types \cup {None}]
  BY <1>1 DEF TypeOK, React, TypeOf
<1> QED BY <1>2, <1>3

(* The panel starts with the right types, whatever its files hold.         *)
LEMMA TypeInit == Init => TypeOK
<1> SUFFICES ASSUME Init PROVE TypeOK
  OBVIOUS
<1>1. saved \in [Zones -> Setting] /\ settings = saved
  BY ConstantsAssumption DEF Init, Setting
<1>2. pos \in 0 .. Positions - 1 /\ keys \in 0 .. MaxKeys /\ restarts \in 0 .. MaxRestarts
  BY ConstantsAssumption DEF Init
<1>3. counter \in [Types -> Nat] /\ atBoot \in [Types -> Nat]
  BY DEF Init
<1>4. alarm \in [Lines -> Types \cup {None}]
  BY DEF Init
<1>5. hist \in [Lines -> {-1, 0, 1}] /\ told \in [Lines -> {-1, 0, 1}]
  BY DEF Init
<1> QED BY <1>1, <1>2, <1>3, <1>4, <1>5 DEF Init, TypeOK, Resets, Groups

(* Every step of the core, the technician, the inputs and the crashes      *)
(* keeps the types.                                                        *)
LEMMA TypeStep == TypeOK /\ [Next]_vars => TypeOK'
<1> SUFFICES ASSUME TypeOK, [Next]_vars PROVE TypeOK'
  OBVIOUS
<1> USE ConstantsAssumption DEF TypeOK, lineVars, fileVars, menuVars, counterVars, Resets,
        Groups
<1>1. CASE Boot
  BY <1>1 DEF Boot
<1>2. ASSUME NEW g \in Groups, ResetZones(g) PROVE TypeOK'
  <2>1. settings' \in [Zones -> Setting]
    BY <1>2, OverlayType, DefaultIsSetting DEF ResetZones
  <2> QED BY <1>2, <2>1 DEF ResetZones
<1>3. ASSUME NEW g \in Groups, ResetWritten(g) PROVE TypeOK'
  <2>1. saved' \in [Zones -> Setting]
    BY <1>3, OverlayType DEF ResetWritten
  <2> QED BY <1>3, <2>1 DEF ResetWritten
<1>4. CASE ResetMode \/ ResetFlag
  BY <1>4 DEF ResetMode, ResetFlag
<1>5. CASE InitScan
  <2>1. /\ hist' \in [Lines -> {-1, 0, 1}] /\ told' \in [Lines -> {-1, 0, 1}]
        /\ alarm' \in [Lines -> Types \cup {None}]
    BY <1>5, ReactType DEF InitScan
  <2>2. pos' \in 0 .. Positions - 1 /\ pc' \in {"init", "start"}
    BY <1>5 DEF InitScan
  <2> QED BY <1>5, <2>1, <2>2 DEF InitScan
<1>6. CASE Start
  <2>1. atBoot' \in [Types -> Nat]
    BY <1>6, PoweredCount DEF Start
  <2>2. counter' \in [Types -> Nat]
    BY <1>6 DEF Start
  <2> QED BY <1>6, <2>1, <2>2 DEF Start
<1>7. CASE NoKey
  BY <1>7 DEF NoKey
<1>8. CASE SaveSettings
  <2>1. saved' \in [Zones -> Setting]
    BY <1>8, OverlayType DEF SaveSettings
  <2> QED BY <1>8, <2>1 DEF SaveSettings
<1>9. CASE Scan
  <2>1. /\ hist' \in [Lines -> {-1, 0, 1}] /\ told' \in [Lines -> {-1, 0, 1}]
        /\ alarm' \in [Lines -> Types \cup {None}]
    BY <1>9, ReactType DEF Scan
  <2>2. counter' \in [Types -> Nat]
    BY <1>9 DEF Scan, CountDevices
  <2>3. pos' \in 0 .. Positions - 1
    BY <1>9 DEF Scan
  <2> QED BY <1>9, <2>1, <2>2, <2>3 DEF Scan
<1>10. CASE Display
  <2>1. relays' \subseteq {"RELAY_2", "RELAY_3"}
    BY <1>10 DEF Display
  <2> QED BY <1>10, <2>1 DEF Display
<1>11. CASE ToggleSetup \/ ToggleReset
  <2>1. setupMode' \in BOOLEAN /\ resetFlag' \in BOOLEAN
    BY <1>11, Zenon DEF ToggleSetup, ToggleReset
  <2>2. keys' \in 0 .. MaxKeys
    BY <1>11 DEF ToggleSetup, ToggleReset, Key
  <2>3. /\ UNCHANGED <<lineVars, settings, touched, saved, torn, resetting, menu,
                       counterVars, relays, pos, restarts>>
        /\ pc' = "scan"
    BY <1>11 DEF ToggleSetup, ToggleReset, Key
  <2> QED BY <2>1, <2>2, <2>3
<1>12. ASSUME NEW g \in Groups, MenuEnter(g) PROVE TypeOK'
  <2>1. settings' \in [Zones -> Setting]
    BY <1>12, OverlayType DEF MenuEnter
  <2>2. touched' \subseteq Zones
    BY <1>12 DEF MenuEnter
  <2>3. keys' \in 0 .. MaxKeys
    BY <1>12 DEF MenuEnter, Key
  <2> QED BY <1>12, <2>1, <2>2, <2>3 DEF MenuEnter, Key
<1>13. ASSUME NEW z \in Zones, MenuEdit(z) PROVE TypeOK'
  <2>1. settings' \in [Zones -> Setting]
    BY <1>13 DEF MenuEdit
  <2>2. keys' \in 0 .. MaxKeys
    BY <1>13 DEF MenuEdit, Key
  <2>3. touched' = touched \cup {z} /\ pc' = "scan"
    BY <1>13, Zenon DEF MenuEdit, Key
  <2>4. UNCHANGED <<lineVars, fileVars, setupMode, menu, counterVars, relays, pos,
                    restarts>>
    BY <1>13, Zenon DEF MenuEdit, Key
  <2> QED BY <2>1, <2>2, <2>3, <2>4
<1>14. CASE MenuExit \/ MenuAbandon
  <2>1. keys' \in 0 .. MaxKeys
    BY <1>14 DEF MenuExit, MenuAbandon, Key
  <2>2. torn' \in Groups \cup {None} /\ menu' = None
    BY <1>14 DEF MenuExit, MenuAbandon
  <2>3. /\ pc' \in {"save", "scan"}
        /\ UNCHANGED <<lineVars, settings, touched, saved, resetFlag, resetting, setupMode,
                       counterVars, relays, pos, restarts>>
    BY <1>14 DEF MenuExit, MenuAbandon, Key
  <2> QED BY <2>1, <2>2, <2>3
<1>15. ASSUME NEW l \in Lines, InputChange(l) PROVE TypeOK'
  BY <1>15 DEF InputChange
<1>16. CASE Restart
  <2>1. /\ hist' \in [Lines -> {-1, 0, 1}]
        /\ alarm' \in [Lines -> Types \cup {None}]
        /\ counter' \in [Types -> Nat] /\ atBoot' \in [Types -> Nat]
        /\ pos' \in 0 .. Positions - 1 /\ restarts' \in 0 .. MaxRestarts
    BY <1>16 DEF Restart
  <2> QED BY <1>16, <2>1 DEF Restart
<1>17. CASE UNCHANGED vars
  BY <1>17 DEF vars
<1> QED
  BY <1>1, <1>2, <1>3, <1>4, <1>5, <1>6, <1>7, <1>8, <1>9, <1>10, <1>11, <1>12, <1>13,
     <1>14, <1>15, <1>16, <1>17 DEF Next, Loop, Reset, Technician

(* Lines, settings, flags and counters keep to their types                 *)
(* (TLChronosProMAIN_391.py).                                              *)
THEOREM TypeCorrect == Spec => []TypeOK
BY TypeInit, TypeStep, PTL DEF Spec
-----------------------------------------------------------------------------
(* AlarmsFollowInputs with what makes it inductive: nothing is raised for  *)
(* a line that has not been seen, and none has until the boot has settled  *)
(* the settings.                                                           *)
Unseen == pc \in {"boot"} \cup Resets => \A l \in Lines : hist[l] = -1

AlarmInv ==
    /\ AlarmsFollowInputs
    /\ \A l \in Lines : hist[l] = -1 => alarm[l] = None
    /\ Unseen

(* The reaction of either scanner keeps it, whichever lines changed.       *)
LEMMA ReactKeepsAlarms ==
  ASSUME TypeOK, AlarmInv, NEW C \in SUBSET Lines, React(C), UNCHANGED <<settings, touched>>,
         pc \notin {"boot"} \cup Resets, pc' \notin {"boot"} \cup Resets
  PROVE  AlarmInv'
<1> USE DEF TypeOK
<1>1. \A l \in Lines : On(l)' = On(l)
  BY DEF On
<1>2. \A l \in Lines : TypeOf(l) # None /\ input[l] \in {0, 1}
  BY ConstantsAssumption DEF TypeOf, Setting
<1>3. ASSUME NEW l \in Lines, hist'[l] # -1, ZoneOf[l] \notin touched'
      PROVE  /\ alarm'[l] # None <=> On(l) /\ hist'[l] = 1
             /\ On(l) => told'[l] \in {-1, hist'[l]}
  <2>1. CASE l \in C
    BY <1>2, <1>3, <2>1 DEF React, AlarmInv, AlarmsFollowInputs
  <2>2. CASE l \notin C
    BY <1>3, <2>2 DEF React, AlarmInv, AlarmsFollowInputs
  <2> QED BY <2>1, <2>2
<1>4. \A l \in Lines : hist'[l] = -1 => alarm'[l] = None
  BY <1>2 DEF React, AlarmInv
<1> QED BY <1>1, <1>3, <1>4 DEF AlarmInv, AlarmsFollowInputs, Unseen

(* What touches neither the lines nor the settings of untouched zones      *)
(* keeps it as well.                                                       *)
LEMMA OthersKeepAlarms ==
  ASSUME TypeOK, AlarmInv, UNCHANGED <<hist, alarm, told>>, touched \subseteq touched',
         \A z \in Zones \ touched' : settings'[z] = settings[z],
         pc' \in {"boot"} \cup Resets => pc \in {"boot"} \cup Resets
  PROVE  AlarmInv'
<1>1. \A l \in Lines : ZoneOf[l] \notin touched' => On(l)' = On(l)
  BY ConstantsAssumption DEF On
<1> QED BY <1>1, ConstantsAssumption DEF AlarmInv, AlarmsFollowInputs, Unseen

(* No scan, edit, boot or crash parts the alarms from the inputs.          *)
LEMMA AlarmStep == TypeOK /\ AlarmInv /\ [Next]_vars => AlarmInv'
<1> SUFFICES ASSUME TypeOK, AlarmInv, [Next]_vars PROVE AlarmInv'
  OBVIOUS
<1> USE DEF lineVars, fileVars, menuVars, counterVars
<1>1. ASSUME UNCHANGED <<alarm, told>>, \A l \in Lines : hist'[l] = -1,
             alarm = [l \in Lines |-> None] \/ \A l \in Lines : hist[l] = -1
      PROVE  AlarmInv'
  BY <1>1 DEF AlarmInv, AlarmsFollowInputs, Unseen
<1>2. CASE Boot
  BY <1>1, <1>2 DEF Boot, AlarmInv, Unseen
<1>3. ASSUME NEW g \in Groups, ResetZones(g) \/ ResetWritten(g) PROVE AlarmInv'
  <2>1. pc \in {"boot"} \cup Resets
    BY <1>3 DEF ResetZones, ResetWritten, ResetStage, Groups, Resets
  <2> QED BY <1>1, <1>3, <2>1 DEF ResetZones, ResetWritten, AlarmInv, Unseen
<1>4. CASE ResetMode \/ ResetFlag
  BY <1>4, OthersKeepAlarms DEF ResetMode, ResetFlag, Resets
<1>5. CASE InitScan
  <2>1. {l \in LinesAt(pos) : hist[l] # input[l]} \in SUBSET Lines
    BY DEF LinesAt
  <2> QED BY <1>5, <2>1, ReactKeepsAlarms DEF InitScan, Resets
<1>6. CASE Scan
  <2>1. Changed \in SUBSET Lines
    BY DEF Changed, LinesAt
  <2> QED BY <1>6, <2>1, ReactKeepsAlarms DEF Scan, Resets
<1>7. CASE Start \/ NoKey \/ SaveSettings \/ Display
  BY <1>7, OthersKeepAlarms DEF Start, NoKey, SaveSettings, Display, Resets
<1>8. CASE ToggleSetup \/ ToggleReset \/ MenuExit \/ MenuAbandon
  BY <1>8, OthersKeepAlarms DEF ToggleSetup, ToggleReset, MenuExit, MenuAbandon, Key, Resets
<1>9. ASSUME NEW g \in Groups, MenuEnter(g) PROVE AlarmInv'
  <2>1. /\ touched \subseteq touched'
        /\ \A z \in Zones \ touched' : settings'[z] = settings[z]
    BY <1>9 DEF MenuEnter
  <2> QED BY <1>9, <2>1, OthersKeepAlarms DEF MenuEnter, Key, Resets
<1>10. ASSUME NEW z \in Zones, MenuEdit(z) PROVE AlarmInv'
  <2>1. /\ touched \subseteq touched'
        /\ \A y \in Zones \ touched' : settings'[y] = settings[y]
    BY <1>10 DEF MenuEdit, TypeOK
  <2> QED BY <1>10, <2>1, OthersKeepAlarms DEF MenuEdit, Key, Resets
<1>11. ASSUME NEW l \in Lines, InputChange(l) PROVE AlarmInv'
  BY <1>11, OthersKeepAlarms DEF InputChange
<1>12. CASE Restart
  BY <1>12 DEF Restart, AlarmInv, AlarmsFollowInputs, Unseen
<1>13. CASE UNCHANGED vars
  BY <1>13, OthersKeepAlarms DEF vars
<1> QED
  BY <1>2, <1>3, <1>4, <1>5, <1>6, <1>7, <1>8, <1>9, <1>10, <1>11, <1>12, <1>13
  DEF Next, Loop, Reset, Technician

(* Over any sequence of edits, resets, crashes and scans, what is raised   *)
(* and what was reported of an unedited zone is what its line said when it *)
(* was last read (muxSelectionZoneInitScan, muxSelectionZone1).            *)
THEOREM AlarmsAlwaysFollowInputs == Spec => []AlarmsFollowInputs
<1>1. Init => AlarmInv
  BY DEF Init, AlarmInv, AlarmsFollowInputs, Unseen
<1>2. AlarmInv => AlarmsFollowInputs
  BY DEF AlarmInv
<1> QED BY <1>1, <1>2, AlarmStep, TypeCorrect, PTL DEF Spec
-----------------------------------------------------------------------------
(* ResetIsWhole with what makes it inductive: the flag stays until the     *)
(* files of both groups hold the defaults, so a crash repeats the reset.   *)
ResetInv ==
    /\ resetting => saved = Default \/ (resetFlag /\ pc \in {"boot"} \cup Resets)
    /\ pc \in Resets => resetFlag
    /\ pc \in Resets /\ torn # None =>
          \A z \in Zones : Group(z) = torn => settings[z] = Default[z]
    /\ pc = "reset_power" =>
          \A z \in Zones : Group(z) = "normal" => saved[z] = Default[z]
    /\ pc \in {"reset_mode", "reset_flag"} => saved = Default

(* What leaves the flags and the files alone, outside a reset, keeps it.   *)
LEMMA OthersKeepReset ==
  ASSUME ResetInv, UNCHANGED <<saved, resetFlag, resetting>>,
         pc \notin {"boot"} \cup Resets, pc' \notin Resets
  PROVE  ResetInv'
BY DEF ResetInv, Resets, Default

(* Each step of a reset, and each crash in one, keeps the flag's promise.  *)
LEMMA ResetStep == TypeOK /\ ResetInv /\ [Next]_vars => ResetInv'
<1> SUFFICES ASSUME TypeOK, ResetInv, [Next]_vars PROVE ResetInv'
  OBVIOUS
<1> USE DEF lineVars, fileVars, menuVars, counterVars, Resets
<1>1. CASE Boot
  BY <1>1 DEF Boot, ResetInv, Default
<1>2. ASSUME NEW g \in Groups, ResetZones(g) PROVE ResetInv'
  <2>1. \A z \in Zones : Group(z) = g => settings'[z] = Default[z]
    BY <1>2 DEF ResetZones, Overlay
  <2> QED BY <1>2, <2>1 DEF ResetZones, ResetInv, ResetStage, Groups, Group, Default
<1>3. ASSUME NEW g \in Groups, ResetWritten(g) PROVE ResetInv'
  <2>1. \A z \in Zones : saved'[z] = IF Group(z) = g THEN settings[z] ELSE saved[z]
    BY <1>3 DEF ResetWritten, Overlay
  <2>2. \A z \in Zones : Group(z) = g => settings[z] = Default[z]
    BY <1>3 DEF ResetWritten, ResetInv, ResetStage, Groups, None
  <2>3. CASE g = "normal"
    <3>1. pc = "reset_zones" /\ pc' = "reset_power" /\ torn' = None
      BY <1>3, <2>3 DEF ResetWritten, ResetStage, Groups
    <3>2. \A z \in Zones : (Group(z) = "normal")' => saved'[z] = Default[z]
      BY <2>1, <2>2, <2>3 DEF Group
    <3> QED BY <1>3, <3>1, <3>2 DEF ResetWritten, ResetInv, Default, Group
  <2>4. CASE g = "power"
    <3>1. pc = "reset_power" /\ pc' = "reset_mode" /\ torn' = None
      BY <1>3, <2>4 DEF ResetWritten, ResetStage, Groups
    <3>2. \A z \in Zones : saved'[z] = Default[z]
      BY <2>1, <2>2, <2>4, <3>1 DEF Group, ResetInv
    <3>3. saved' \in [Zones -> Setting]
      BY <1>3, OverlayType DEF ResetWritten, TypeOK
    <3>4. saved' = Default
      BY <3>2, <3>3, DefaultIsSetting
    <3> QED BY <1>3, <3>1, <3>4 DEF ResetWritten, ResetInv, Default
  <2> QED BY <2>3, <2>4 DEF Groups
<1>4. CASE ResetMode \/ ResetFlag
  BY <1>4 DEF ResetMode, ResetFlag, ResetInv, Default
<1>5. CASE InitScan \/ Start \/ NoKey \/ Scan \/ Display
  BY <1>5, OthersKeepReset DEF InitScan, Start, NoKey, Scan, Display
<1>6. CASE SaveSettings
  BY <1>6 DEF SaveSettings, ResetInv
<1>7. CASE ToggleReset
  BY <1>7 DEF ToggleReset, Key, ResetInv, Default
<1>8. CASE ToggleSetup \/ MenuExit \/ MenuAbandon
  BY <1>8, OthersKeepReset DEF ToggleSetup, MenuExit, MenuAbandon, Key
<1>9. ASSUME NEW g \in Groups, MenuEnter(g) PROVE ResetInv'
  BY <1>9, OthersKeepReset DEF MenuEnter, Key
<1>10. ASSUME NEW z \in Zones, MenuEdit(z) PROVE ResetInv'
  BY <1>10, OthersKeepReset DEF MenuEdit, Key
<1>11. ASSUME NEW l \in Lines, InputChange(l) PROVE ResetInv'
  BY <1>11 DEF InputChange, ResetInv, Default, Group
<1>12. CASE Restart
  BY <1>12 DEF Restart, ResetInv, Default
<1>13. CASE UNCHANGED vars
  BY <1>13 DEF vars, ResetInv, Default, Group
<1> QED
  BY <1>1, <1>2, <1>3, <1>4, <1>5, <1>6, <1>7, <1>8, <1>9, <1>10, <1>11, <1>12, <1>13
  DEF Next, Loop, Reset, Technician

(* However often a crash cuts off a reset to the defaults, the panel never *)
(* goes on to supervise zones with only a part of it done                  *)
(* (resetToDefault).                                                       *)
THEOREM ResetIsAlwaysWhole == Spec => []ResetIsWhole
<1>1. Init => ResetInv
  BY DEF Init, ResetInv, Resets
<1>2. ResetInv => ResetIsWhole
  BY DEF ResetInv, ResetIsWhole
<1> QED BY <1>1, <1>2, ResetStep, TypeCorrect, PTL DEF Spec
-----------------------------------------------------------------------------
(* At most one watched device changes in one scan.                         *)
LEMMA OneDevice ==
  ASSUME NEW l \in Changed \cap PowerLines, NEW m \in Changed \cap PowerLines
  PROVE  l = m
BY WiringAssumption DEF Changed, LinesAt

(* What leaves the counter, and the lines and settings of the power zones, *)
(* keeps the bounds, and so does every step out of the main loop.          *)
LEMMA OthersKeepCounter ==
  ASSUME TypeOK, CounterBounds, UNCHANGED <<hist, counter, atBoot>>,
         touched \subseteq touched',
         \A z \in Zones \ touched' : settings'[z] = settings[z],
         MainLoop' => MainLoop
  PROVE  CounterBounds'
<1> SUFFICES ASSUME MainLoop', touched' \cap PowerZones = {}
             PROVE  CounterBounds'
  BY DEF CounterBounds
<1>1. \A l \in PowerLines : ZoneOf[l] \in Zones \ touched'
  BY ConstantsAssumption, WiringAssumption DEF PowerLines
<1>2. \A T : Powered(T)' = Powered(T)
  BY <1>1 DEF Powered, On, TypeOf
<1>3. touched \cap PowerZones = {}
  OBVIOUS
<1> QED BY <1>2, <1>3 DEF CounterBounds

(* One scan moves the counter of a type and the number of its devices that *)
(* are on alike, except at the floor of the counter.                       *)
LEMMA ScanKeepsCounter ==
  ASSUME TypeOK, CounterBounds, Scan
  PROVE  CounterBounds'
<1> SUFFICES ASSUME touched \cap PowerZones = {}, NEW T \in Types
             PROVE  /\ counter'[T] - Cardinality(Powered(T)') >= 1 - atBoot[T]
                    /\ counter'[T] - Cardinality(Powered(T)')
                          <= IF atBoot[T] = 0 THEN 1 ELSE 0
  <2>1. UNCHANGED <<touched, atBoot>>
    BY DEF Scan, counterVars, menuVars, fileVars
  <2> QED BY <2>1 DEF CounterBounds
<1> DEFINE heard == {l \in Changed \cap PowerLines : On(l)}
           mine  == {l \in heard : TypeOf(l) = T}
           on    == Cardinality(Powered(T))
<1> USE DEF TypeOK
<1>1. /\ on \in Nat /\ counter[T] \in Nat /\ atBoot[T] \in Nat /\ IsFiniteSet(Powered(T))
  BY PoweredCount
<1>2. /\ counter[T] - on >= 1 - atBoot[T]
      /\ counter[T] - on <= IF atBoot[T] = 0 THEN 1 ELSE 0
  BY DEF CounterBounds, Scan, MainLoop
<1>3. UNCHANGED settings
  BY DEF Scan
<1>4. \A l \in Lines : hist'[l] = IF l \in Changed THEN input[l] ELSE hist[l]
  BY DEF Scan, React
<1>5. counter'[T] = IF \E l \in mine : input[l] = 0 THEN counter[T] + 1
                    ELSE IF (\E l \in mine : input[l] = 1) /\ counter[T] > 0
                         THEN counter[T] - 1 ELSE counter[T]
  BY DEF Scan, CountDevices
<1>6. CASE mine = {}
  <2>1. Powered(T)' = Powered(T)
    <3>1. \A l \in PowerLines : On(l) /\ TypeOf(l) = T => l \notin Changed
      BY <1>6
    <3> QED BY <1>3, <1>4, <3>1 DEF Powered, On, TypeOf, PowerLines
  <2> QED BY <1>1, <1>2, <1>5, <1>6, <2>1
<1>7. CASE mine # {}
  <2>1. PICK l \in mine : TRUE
    BY <1>7
  <2>2. l \in Lines /\ l \in PowerLines /\ On(l) /\ TypeOf(l) = T /\ hist[l] = 1 - input[l]
        /\ input[l] \in {0, 1}
    BY DEF Changed, LinesAt, PowerLines
  <2>3. \A m \in mine : m = l
    BY OneDevice
  <2>4. \A m \in PowerLines \ {l} : On(m) /\ TypeOf(m) = T => hist'[m] = hist[m]
    BY <1>4, <2>3 DEF PowerLines
  <2>5. CASE input[l] = 0
    <3>1. Powered(T)' = Powered(T) \cup {l} /\ l \notin Powered(T)
      BY <1>3, <1>4, <2>2, <2>4, <2>5 DEF Powered, On, TypeOf, Changed, PowerLines
    <3>2. Cardinality(Powered(T)') = on + 1
      BY <1>1, <3>1, FS_AddElement
    <3>3. counter'[T] = counter[T] + 1
      BY <1>5, <2>5
    <3> QED BY <1>1, <1>2, <3>2, <3>3
  <2>6. CASE input[l] = 1
    <3>1. Powered(T)' = Powered(T) \ {l} /\ l \in Powered(T)
      BY <1>3, <1>4, <2>2, <2>4, <2>6 DEF Powered, On, TypeOf, Changed, PowerLines
    <3>2. Cardinality(Powered(T)') = on - 1 /\ on >= 1
      <4>1. Cardinality(Powered(T)') = on - 1
        BY <1>1, <3>1, FS_RemoveElement
      <4>2. on # 0
        BY <1>1, <3>1, FS_EmptySet
      <4> QED BY <1>1, <4>1, <4>2
    <3>3. counter'[T] = IF counter[T] > 0 THEN counter[T] - 1 ELSE counter[T]
      BY <1>5, <2>3, <2>6
    <3> QED BY <1>1, <1>2, <3>2, <3>3
  <2> QED BY <2>2, <2>5, <2>6
<1> QED BY <1>6, <1>7

(* No power failure, edit of another zone, reset or crash breaks the       *)
(* bounds of the counter.                                                  *)
LEMMA CounterStep == TypeOK /\ CounterBounds /\ [Next]_vars => CounterBounds'
<1> SUFFICES ASSUME TypeOK, CounterBounds, [Next]_vars PROVE CounterBounds'
  OBVIOUS
<1> USE DEF lineVars, fileVars, menuVars, counterVars
<1>1. CASE ~ MainLoop'
  BY <1>1 DEF CounterBounds
<1>2. CASE Boot \/ Reset \/ InitScan \/ Restart
  <2>1. ~ MainLoop'
    BY <1>2 DEF Boot, Reset, ResetZones, ResetWritten, ResetMode, ResetFlag, ResetStage,
                Groups, InitScan, Restart, MainLoop
  <2> QED BY <1>1, <2>1
<1>3. CASE Start
  <2> SUFFICES ASSUME NEW T \in Types
               PROVE  /\ counter'[T] - Cardinality(Powered(T)') >= 1 - atBoot'[T]
                      /\ counter'[T] - Cardinality(Powered(T)')
                            <= IF atBoot'[T] = 0 THEN 1 ELSE 0
    BY DEF CounterBounds
  <2>1. Powered(T)' = Powered(T)
    BY <1>3 DEF Start, Powered, On, TypeOf
  <2>2. counter'[T] = 1 /\ atBoot'[T] = Cardinality(Powered(T))
    BY <1>3 DEF Start
  <2> QED BY <2>1, <2>2, PoweredCount
<1>4. CASE NoKey \/ SaveSettings \/ Display
  BY <1>4, OthersKeepCounter DEF NoKey, SaveSettings, Display, MainLoop
<1>5. CASE Scan
  BY <1>5, ScanKeepsCounter
<1>6. CASE ToggleSetup \/ ToggleReset \/ MenuExit \/ MenuAbandon
  BY <1>6, OthersKeepCounter
  DEF ToggleSetup, ToggleReset, MenuExit, MenuAbandon, Key, MainLoop
<1>7. ASSUME NEW g \in Groups, MenuEnter(g) PROVE CounterBounds'
  <2>1. /\ touched \subseteq touched'
        /\ \A z \in Zones \ touched' : settings'[z] = settings[z]
    BY <1>7 DEF MenuEnter
  <2> QED BY <1>7, <2>1, OthersKeepCounter DEF MenuEnter, Key, MainLoop
<1>8. ASSUME NEW z \in Zones, MenuEdit(z) PROVE CounterBounds'
  <2>1. /\ touched \subseteq touched'
        /\ \A y \in Zones \ touched' : settings'[y] = settings[y]
    BY <1>8 DEF MenuEdit, TypeOK
  <2> QED BY <1>8, <2>1, OthersKeepCounter DEF MenuEdit, Key, MainLoop
<1>9. ASSUME NEW l \in Lines, InputChange(l) PROVE CounterBounds'
  BY <1>9, OthersKeepCounter DEF InputChange, MainLoop
<1>10. CASE UNCHANGED vars
  BY <1>10, OthersKeepCounter DEF vars, MainLoop
<1> QED
  BY <1>2, <1>3, <1>4, <1>5, <1>6, <1>7, <1>8, <1>9, <1>10 DEF Next, Loop, Technician

(* The counter of a type never drifts from the number of its devices that  *)
(* are on by more than it was off at the boot, over any number of power    *)
(* failures (PowerZoneActiveDeviceCounter, muxSelectionZone1).             *)
THEOREM CounterAlwaysBounded == Spec => []CounterBounds
<1>1. Init => CounterBounds
  BY DEF Init, CounterBounds, MainLoop
<1> QED BY <1>1, CounterStep, TypeCorrect, PTL DEF Spec

(* The bursts tell the truth of every type of which a device was on at the *)
(* boot (_is_connected, _send_periodic_heartbeats).                        *)
THEOREM BurstsAlwaysTruthful == Spec => []BurstTruthful
<1>1. TypeOK /\ CounterBounds => BurstTruthful
  <2> SUFFICES ASSUME TypeOK, CounterBounds, MainLoop, touched \cap PowerZones = {},
                      NEW answers \in SUBSET Probed, NEW T \in Types \ Probed
               PROVE  /\ T \in Connected(answers) /\ atBoot[T] > 0 => Powered(T) # {}
                      /\ atBoot[T] = 1 /\ Powered(T) # {} => T \in Connected(answers)
    BY DEF BurstTruthful
  <2> DEFINE on == Cardinality(Powered(T))
  <2>1. /\ counter[T] - on >= 1 - atBoot[T]
        /\ counter[T] - on <= IF atBoot[T] = 0 THEN 1 ELSE 0
    BY DEF CounterBounds
  <2>2. on \in Nat /\ counter[T] \in Nat /\ atBoot[T] \in Nat /\ IsFiniteSet(Powered(T))
    BY PoweredCount DEF TypeOK
  <2>3. on = 0 <=> Powered(T) = {}
    BY <2>2, FS_EmptySet
  <2>4. ASSUME T \in Connected(answers), atBoot[T] > 0 PROVE Powered(T) # {}
    <3>1. counter[T] > 0
      BY <2>4 DEF Connected
    <3> QED BY <2>1, <2>2, <2>3, <2>4, <3>1
  <2>5. ASSUME atBoot[T] = 1, Powered(T) # {} PROVE T \in Connected(answers)
    <3>1. counter[T] > 0
      BY <2>1, <2>2, <2>3, <2>5
    <3>2. \E z \in PowerZones : settings[z].on /\ settings[z].type = T
      BY <2>5, WiringAssumption DEF Powered, On, TypeOf
    <3> QED BY <3>1, <3>2 DEF Connected
  <2> QED BY <2>4, <2>5
<1> QED BY <1>1, CounterAlwaysBounded, TypeCorrect, PTL
=============================================================================
