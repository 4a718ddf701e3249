--------------------------- MODULE ZoneSupervision ---------------------------
(***************************************************************************)
(* The supervision of the wired zones by the core                          *)
(* (TLChronosProMAIN_391.py): the initial scan of the multiplexed inputs,  *)
(* the scan of one position in each turn of the main loop, the reports,    *)
(* the relays, the settings that a technician edits at the LCD meanwhile,  *)
(* and what the heartbeat bursts (heartbeat_manager.py) say of the devices *)
(* whose power the panel watches.                                          *)
(*                                                                         *)
(* The core does all of this in one thread; the inputs, the technician and *)
(* a crash come between any two stages of it.                              *)
(***************************************************************************)
EXTENDS Integers, FiniteSets

CONSTANTS Zones, PowerZones,  (* all zones, and those that watch a device      *)
          Lines,              (* the inputs of the multiplexers                *)
          ZoneOf, KindOf,     (* what each of them is wired to                 *)
          Positions,          (* selections of the multiplexers, 16 in code    *)
          PositionOf,         (* the selection at which a line is read         *)
          Types,              (* BAS, FAS, ...: what a zone may be of          *)
          Silent,             (* the types that close no relay: IAS, CCTV      *)
          Probed,             (* the types whose device an integration probes  *)
          DefaultType,        (* type of each zone after resetToDefault        *)
          FirstSettings,      (* what the settings files may hold at first     *)
          MaxKeys,            (* bounds of the model: keys pressed at the LCD  *)
          MaxRestarts         (* and restarts of the core                      *)

Kinds  == {"active", "fault", "camera", "power"}
Groups == {"normal", "power"}
None   == "none"
Setting == [on : BOOLEAN, type : Types]

ASSUME ConstantsAssumption ==
    /\ PowerZones \subseteq Zones /\ IsFiniteSet(Lines)
    /\ ZoneOf \in [Lines -> Zones] /\ KindOf \in [Lines -> Kinds]
    /\ Positions \in Nat \ {0} /\ PositionOf \in [Lines -> 0 .. Positions - 1]
    /\ None \notin Types
    /\ DefaultType \in [Zones -> Types]
    /\ FirstSettings \subseteq [Zones -> Setting]
    /\ MaxKeys \in Nat /\ MaxRestarts \in Nat

PowerLines == {l \in Lines : KindOf[l] = "power"}

(* No two power lines are read at the same position.                       *)
ASSUME WiringAssumption ==
    \A l, m \in PowerLines :
        ZoneOf[l] \in PowerZones /\ (PositionOf[l] = PositionOf[m] => l = m)

VARIABLES input,     (* the lines as they are                                  *)
          hist,      (* the lines as last read, -1 for unseen: mux1_x0, ...    *)
          alarm,     (* zoneIsActive, zoneIsFault, ..., and their types        *)
          told,      (* history: the last report of each line, or -1 if the    *)
                     (* report of its last change was dropped                  *)
          settings,  (* zoneSettings and powerZoneSettings                     *)
          saved,     (* the two settings files                                 *)
          torn,      (* the file that is being written, if any                 *)
          resetFlag, (* reset_to_default is "true"                             *)
          setupMode, (* setup_mode is "enabled"                                *)
          menu,      (* the settings menu that the LCD is in, if any           *)
          touched,   (* history: zones whose settings changed since the boot   *)
          resetting, (* history: a reset was begun, and nothing saved since    *)
          counter,   (* power_zone_active_device_counter                       *)
          atBoot,    (* history: devices on when the counter was created       *)
          relays,    (* the relays that are closed                             *)
          pc,        (* the stage of the boot or of the main loop              *)
          pos,       (* the position to be read next                           *)
          keys, restarts

lineVars    == <<input, hist, alarm, told>>
fileVars    == <<saved, torn, resetFlag, resetting>>
menuVars    == <<setupMode, menu, keys>>
counterVars == <<counter, atBoot>>
vars == <<lineVars, settings, touched, fileVars, menuVars, counterVars, relays, pc, pos,
          restarts>>

Group(z)   == IF z \in PowerZones THEN "power" ELSE "normal"
On(l)      == settings[ZoneOf[l]].on
TypeOf(l)  == settings[ZoneOf[l]].type
LinesAt(p) == {l \in Lines : PositionOf[l] = p}

Default == [z \in Zones |-> [on |-> FALSE, type |-> DefaultType[z]]]

(* The stages of resetToDefault that reset one group of zones.             *)
ResetStage == [g \in Groups |-> IF g = "normal" THEN "reset_zones" ELSE "reset_power"]

(* The settings s with those of group g taken from t.                      *)
Overlay(s, g, t) == [z \in Zones |-> IF Group(z) = g THEN t[z] ELSE s[z]]

(* The devices of type T that are on; a power line is 1 while its is off.  *)
Powered(T) == {l \in PowerLines : On(l) /\ TypeOf(l) = T /\ hist[l] = 0}

Init ==
    /\ input \in [Lines -> {0, 1}]
    /\ hist = [l \in Lines |-> -1]
    /\ alarm = [l \in Lines |-> None]
    /\ told = [l \in Lines |-> 0]
    /\ saved \in FirstSettings
    /\ settings = saved
    /\ torn = None
    /\ resetFlag \in BOOLEAN
    /\ setupMode = FALSE
    /\ menu = None
    /\ touched = {}
    /\ resetting = FALSE
    /\ counter = [T \in Types |-> 0]
    /\ atBoot = [T \in Types |-> 0]
    /\ relays = {}
    /\ pc = "boot"
    /\ pos = Positions - 1
    /\ keys = 0 /\ restarts = 0

InputChange(l) ==
    /\ input' = [input EXCEPT ![l] = 1 - @]
    /\ UNCHANGED <<hist, alarm, told, settings, touched, fileVars, menuVars, counterVars,
                   relays, pc, pos, restarts>>

-----------------------------------------------------------------------------
(* The boot *)

(* setup_mode is forced to "disabled", and the files are read; a file that *)
(* a crash has left half written ends the boot with an exception, each     *)
(* time that docker tries it again.                                        *)
Boot ==
    /\ pc = "boot"
    /\ torn = None
    /\ settings' = saved
    /\ setupMode' = FALSE
    /\ resetting' = (resetting \/ resetFlag)
    /\ pc' = IF resetFlag THEN "reset_zones" ELSE "init"
    /\ UNCHANGED <<lineVars, touched, saved, torn, resetFlag, menu, keys, counterVars,
                   relays, pos, restarts>>

(* Mutant: the flag is cleared first and not last.                         *)
ResetZones_ClearsFlag(g) ==
    /\ pc = ResetStage[g]
    /\ torn = None
    /\ settings' = Overlay(settings, g, Default)
    /\ torn' = g
    /\ resetFlag' = FALSE
    /\ UNCHANGED <<lineVars, touched, saved, resetting, menuVars, counterVars, relays, pc,
                   pos, restarts>>

(* resetToDefault: the defaults of the normal zones, then those of the     *)
(* power zones, each followed by the write of their file, which            *)
(* open(..., "w") empties first ...                                        *)
ResetZones(g) ==
    /\ pc = ResetStage[g]
    /\ torn = None
    /\ settings' = Overlay(settings, g, Default)
    /\ torn' = g
    /\ UNCHANGED <<lineVars, touched, saved, resetFlag, resetting, menuVars, counterVars,
                   relays, pc, pos, restarts>>

ResetWritten(g) ==
    /\ pc = ResetStage[g]
    /\ torn = g
    /\ saved' = Overlay(saved, g, settings)
    /\ torn' = None
    /\ pc' = IF g = "normal" THEN "reset_power" ELSE "reset_mode"
    /\ UNCHANGED <<lineVars, settings, touched, resetFlag, resetting, menuVars, counterVars,
                   relays, pos, restarts>>

(* ... setup_mode ...                                                      *)
ResetMode ==
    /\ pc = "reset_mode"
    /\ setupMode' = TRUE
    /\ pc' = "reset_flag"
    /\ UNCHANGED <<lineVars, settings, touched, fileVars, menu, keys, counterVars, relays,
                   pos, restarts>>

(* ... and, last of all, the flag.                                         *)
ResetFlag ==
    /\ pc = "reset_flag"
    /\ resetFlag' = FALSE
    /\ pc' = "init"
    /\ UNCHANGED <<lineVars, settings, touched, saved, torn, resetting, menuVars,
                   counterVars, relays, pos, restarts>>

(* Mutant: an alarm is raised but not cleared.                             *)
React_NoClear(changed) ==
    LET heard == {l \in changed : On(l)}
    IN  /\ hist'  = [l \in Lines |-> IF l \in changed THEN input[l] ELSE hist[l]]
        /\ alarm' = [l \in Lines |-> IF l \in heard /\ input[l] = 1 THEN TypeOf(l)
                                     ELSE alarm[l]]
        /\ told'  = [l \in Lines |-> IF l \notin heard THEN told[l]
                                     ELSE IF setupMode THEN -1 ELSE input[l]]

(* What both scanners do with the lines that changed: if the zone is       *)
(* active, its alarm is raised or cleared and generateReportMsg called,    *)
(* which drops the report while setup_mode is enabled.                     *)
React(changed) ==
    LET heard == {l \in changed : On(l)}
    IN  /\ hist'  = [l \in Lines |-> IF l \in changed THEN input[l] ELSE hist[l]]
        /\ alarm' = [l \in Lines |-> IF l \notin heard THEN alarm[l]
                                     ELSE IF input[l] = 1 THEN TypeOf(l) ELSE None]
        /\ told'  = [l \in Lines |-> IF l \notin heard THEN told[l]
                                     ELSE IF setupMode THEN -1 ELSE input[l]]

(* Mutant: the initial scan looks for edges, as the scan of the main loop. *)
InitScan_EdgesOnly ==
    /\ pc = "init"
    /\ React({l \in LinesAt(pos) : hist[l] = 1 - input[l]})
    /\ relays' = {}
    /\ IF pos = 0 THEN pc' = "start" /\ UNCHANGED pos
                  ELSE pos' = pos - 1 /\ UNCHANGED pc
    /\ UNCHANGED <<input, settings, touched, fileVars, menuVars, counterVars, restarts>>

(* zoneScanInit: muxSelectionZoneInitScan, at one position after the other,*)
(* the last one first; the first write to the shift registers opens all    *)
(* relays.                                                                 *)
InitScan ==
    /\ pc = "init"
    /\ React({l \in LinesAt(pos) : hist[l] # input[l]})
    /\ relays' = {}
    /\ IF pos = 0 THEN pc' = "start" /\ UNCHANGED pos
                  ELSE pos' = pos - 1 /\ UNCHANGED pc
    /\ UNCHANGED <<input, settings, touched, fileVars, menuVars, counterVars, restarts>>

(* The counter is created, with 1 for every type.                          *)
Start ==
    /\ pc = "start"
    /\ counter' = [T \in Types |-> 1]
    /\ atBoot' = [T \in Types |-> Cardinality(Powered(T))]
    /\ pc' = "menu"
    /\ UNCHANGED <<lineVars, settings, touched, fileVars, menuVars, relays, pos, restarts>>

-----------------------------------------------------------------------------
(* mainStateMachine: the effect of at most one key per turn *)

NoKey ==
    /\ pc = "menu"
    /\ pc' = "scan"
    /\ UNCHANGED <<lineVars, settings, touched, fileVars, menuVars, counterVars, relays,
                   pos, restarts>>

Key(stage) ==
    /\ pc = "menu"
    /\ keys < MaxKeys
    /\ keys' = keys + 1
    /\ pc' = stage
    /\ UNCHANGED <<lineVars, counterVars, relays, pos, restarts>>

ToggleSetup ==
    /\ Key("scan")
    /\ menu = None
    /\ setupMode' = ~ setupMode
    /\ UNCHANGED <<settings, touched, fileVars, menu>>

(* "RESET DEFAULT", which reboots the panel, or takes it back until then.  *)
ToggleReset ==
    /\ Key("scan")
    /\ menu = None
    /\ resetFlag' = ~ resetFlag
    /\ UNCHANGED <<settings, touched, saved, torn, resetting, setupMode, menu>>

(* A settings menu reads its file again when it is entered.                *)
MenuEnter(g) ==
    /\ Key("scan")
    /\ menu = None
    /\ menu' = g
    /\ settings' = Overlay(settings, g, saved)
    /\ touched' = touched \cup {z \in Zones : settings'[z] # settings[z]}
    /\ UNCHANGED <<fileVars, setupMode>>

(* Each edit holds at once, under the scanners.                            *)
MenuEdit(z) ==
    /\ Key("scan")
    /\ menu = Group(z)
    /\ \E s \in Setting \ {settings[z]} :
           /\ s.on = settings[z].on \/ s.type = settings[z].type
           /\ settings' = [settings EXCEPT ![z] = s]
    /\ touched' = touched \cup {z}
    /\ UNCHANGED <<fileVars, setupMode, menu>>

(* Only EXIT writes the file, which is empty at first ...                  *)
MenuExit ==
    /\ Key("save")
    /\ menu # None
    /\ torn' = menu
    /\ menu' = None
    /\ UNCHANGED <<settings, touched, saved, resetFlag, resetting, setupMode>>

(* ... until it is written.                                                *)
SaveSettings ==
    /\ pc = "save"
    /\ saved' = Overlay(saved, torn, settings)
    /\ torn' = None
    /\ resetting' = FALSE
    /\ pc' = "scan"
    /\ UNCHANGED <<lineVars, settings, touched, resetFlag, menuVars, counterVars, relays,
                   pos, restarts>>

(* returnToDisplayScan, by the key A, or ten minutes without a key.        *)
MenuAbandon ==
    /\ Key("scan")
    /\ menu # None
    /\ menu' = None
    /\ UNCHANGED <<settings, touched, fileVars, setupMode>>

-----------------------------------------------------------------------------
(* The rest of a turn of the main loop *)

Changed == {l \in LinesAt(pos) : hist[l] = 1 - input[l]}

(* Mutant: the restoration of power is not counted.                        *)
CountDevices_OffOnly(changed) ==
    LET heard == {l \in changed \cap PowerLines : On(l)}
        off(T) == \E l \in heard : TypeOf(l) = T /\ input[l] = 1
    IN  counter' = [T \in Types |->
                       IF off(T) /\ counter[T] > 0 THEN counter[T] - 1 ELSE counter[T]]

(* update_device, for the power line that changed, if there is one.        *)
CountDevices(changed) ==
    LET heard == {l \in changed \cap PowerLines : On(l)}
        off(T) == \E l \in heard : TypeOf(l) = T /\ input[l] = 1
        on(T)  == \E l \in heard : TypeOf(l) = T /\ input[l] = 0
    IN  counter' = [T \in Types |->
                       IF on(T) THEN counter[T] + 1
                       ELSE IF off(T) /\ counter[T] > 0 THEN counter[T] - 1
                       ELSE counter[T]]

(* zoneScan and muxSelectionZone1.                                         *)
Scan ==
    /\ pc = "scan"
    /\ React(Changed)
    /\ CountDevices(Changed)
    /\ pos' = (pos + 1) % Positions
    /\ pc' = "display"
    /\ UNCHANGED <<input, settings, touched, fileVars, menuVars, atBoot, relays, restarts>>

(* An alarm of a zone of a silent type closes no relay.                    *)
Raised(kinds) ==
    \E l \in Lines :
        /\ KindOf[l] \in kinds
        /\ alarm[l] # None
        /\ KindOf[l] = "camera" \/ alarm[l] \notin Silent

(* outputShiftRegLEDDisplay.                                               *)
Display ==
    /\ pc = "display"
    /\ relays' = {r \in {"RELAY_2", "RELAY_3"} :
                     Raised(IF r = "RELAY_3" THEN {"active"} ELSE {"fault", "camera"})}
    /\ pc' = "menu"
    /\ UNCHANGED <<lineVars, settings, touched, fileVars, menuVars, counterVars, pos,
                   restarts>>

(* _is_connected: the types that a burst names, after Start and, every 600 *)
(* ticks, after Display; answers are the integrated devices that respond.  *)
Connected(answers) ==
    {T \in Types :
        /\ \E z \in PowerZones : settings[z].on /\ settings[z].type = T
        /\ IF T \in Probed THEN T \in answers ELSE counter[T] > 0}

(* A crash, a reboot or the watchdog: all that was in memory is gone.      *)
Restart ==
    /\ restarts < MaxRestarts
    /\ restarts' = restarts + 1
    /\ pc' = "boot"
    /\ pos' = Positions - 1
    /\ hist' = [l \in Lines |-> -1]
    /\ alarm' = [l \in Lines |-> None]
    /\ settings' = saved
    /\ touched' = {}
    /\ menu' = None
    /\ counter' = [T \in Types |-> 0]
    /\ atBoot' = [T \in Types |-> 0]
    /\ UNCHANGED <<input, told, fileVars, setupMode, keys, relays>>

-----------------------------------------------------------------------------
Reset ==
    \/ \E g \in Groups : ResetZones(g) \/ ResetWritten(g)
    \/ ResetMode \/ ResetFlag

Loop == Boot \/ Reset \/ InitScan \/ Start \/ NoKey \/ SaveSettings \/ Scan \/ Display

Technician ==
    \/ ToggleSetup \/ ToggleReset
    \/ \E g \in Groups : MenuEnter(g)
    \/ \E z \in Zones : MenuEdit(z)
    \/ MenuExit \/ MenuAbandon

Next ==
    \/ Loop
    \/ Technician
    \/ \E l \in Lines : InputChange(l)
    \/ Restart

Spec == Init /\ [][Next]_vars

(* The boot is a straight line and the main loop goes round; it waits for  *)
(* nobody at the keypad.                                                   *)
FairSpec == Spec /\ WF_vars(Loop)
-----------------------------------------------------------------------------
MainLoop == pc \in {"menu", "save", "scan", "display"}
Resets   == {"reset_zones", "reset_power", "reset_mode", "reset_flag"}

TypeOK ==
    /\ input \in [Lines -> {0, 1}]
    /\ hist \in [Lines -> {-1, 0, 1}] /\ told \in [Lines -> {-1, 0, 1}]
    /\ alarm \in [Lines -> Types \cup {None}]
    /\ settings \in [Zones -> Setting] /\ saved \in [Zones -> Setting]
    /\ torn \in Groups \cup {None} /\ menu \in Groups \cup {None}
    /\ resetFlag \in BOOLEAN /\ setupMode \in BOOLEAN /\ resetting \in BOOLEAN
    /\ touched \subseteq Zones
    /\ counter \in [Types -> Nat] /\ atBoot \in [Types -> Nat]
    /\ relays \subseteq {"RELAY_2", "RELAY_3"}
    /\ pc \in {"boot", "init", "start", "menu", "save", "scan", "display"} \cup Resets
    /\ pos \in 0 .. Positions - 1
    /\ keys \in 0 .. MaxKeys /\ restarts \in 0 .. MaxRestarts

(* The counter does not drift: as long as no power zone is edited, it      *)
(* stays as near to the number of devices that are on as it was when it    *)
(* was created with 1 for each type, over any sequence of power failures   *)
(* and the floor at 0 (PowerZoneActiveDeviceCounter.update_device).        *)
CounterBounds ==
    MainLoop /\ touched \cap PowerZones = {} =>
        \A T \in Types :
            LET on == Cardinality(Powered(T))
            IN  /\ counter[T] - on >= 1 - atBoot[T]
                /\ counter[T] - on <= IF atBoot[T] = 0 THEN 1 ELSE 0

(* "Devices that are offline (counter == 0 ...) are omitted"               *)
(* (heartbeat_manager.py): a burst names a type only if one of its devices *)
(* was on when last read, and it names it then if only one was on at the   *)
(* boot; provided that one was, and that no power zone has been edited.    *)
BurstTruthful ==
    MainLoop /\ touched \cap PowerZones = {} =>
        \A answers \in SUBSET Probed : \A T \in Types \ Probed :
            /\ T \in Connected(answers) /\ atBoot[T] > 0 => Powered(T) # {}
            /\ atBoot[T] = 1 /\ Powered(T) # {} => T \in Connected(answers)

(* What is raised, and what ThingsBoard was told, is what the last scan    *)
(* saw, unless the technician has edited the zone or, for the report, was  *)
(* in the setup mode when the line last changed (muxSelectionZone1,        *)
(* generateReportMsg), over restarts and resets.                           *)
AlarmsFollowInputs ==
    \A l \in Lines :
        hist[l] # -1 /\ ZoneOf[l] \notin touched =>
            /\ alarm[l] # None <=> On(l) /\ hist[l] = 1
            /\ On(l) => told[l] \in {-1, hist[l]}

(* A reset to the defaults that was begun is finished, by the next boot if *)
(* a crash has cut it off, before the panel supervises anything            *)
(* (resetToDefault clears its flag last).                                  *)
ResetIsWhole ==
    resetting /\ pc \notin {"boot"} \cup Resets => saved = Default

(* The zone z is supervised, the technician works elsewhere, and no crash  *)
(* falls into the writing of a settings file.                              *)
Watched(z) ==
    /\ saved[z].on /\ saved[z].type \notin Silent
    /\ MainLoop => settings[z].on /\ settings[z].type \notin Silent /\ ~ setupMode
    /\ ~ resetFlag
    /\ torn # None => pc = "save"

(* An alarm that stays is reported and closes its relay for good, and the  *)
(* end of one is reported, whatever changes, is edited or restarts         *)
(* meanwhile (the main loop, muxSelectionZone1,                            *)
(* outputShiftRegLEDDisplay).                                              *)
AlarmTakesEffect ==
    \A l \in {m \in Lines : KindOf[m] = "active"} :
        []Watched(ZoneOf[l]) =>
            /\ <>[](input[l] = 1) => <>[](told[l] = 1 /\ "RELAY_3" \in relays)
            /\ <>[](input[l] = 0) => <>[](told[l] = 0)
=============================================================================
