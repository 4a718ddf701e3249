-------------------------------- MODULE Panel --------------------------------
(***************************************************************************)
(* The keypad and LCD of the panel (Test3/TLChronosProMAIN_391.py): one    *)
(* pass of the main loop calls mainStateMachine(), which hands the key to  *)
(* the display, to the menus, to the lamp test or to the reboot button.    *)
(* A menu is a function that branches on one global; a value above its     *)
(* EXIT is the number of a menu opened from it.  All menus share the       *)
(* globals: the cursor menuCurrentPos, one "state" variable per depth, the *)
(* text buffer and clearKey.  What the screens print, the values stored by *)
(* plain toggles, and the digits of passwords are left out.                *)
(***************************************************************************)
EXTENDS Integers, Sequences, FiniteSets

CONSTANTS
  ZoneScreens,       \* MAX_POS of progZoneSettings (48)
  PowerZoneScreens,  \* MAX_POS of progPowerZoneSettings (24)
  TextLen,           \* cells a text entry empties (16)
  DeviceLen,         \* cells a device menu clears, its maxRANGE (14)
  FirstDhcp,         \* what hostDhcp may be when the panel is installed
  TypeScreens,       \* the screens the technician types on, as <<menu, screen>>
  Plans              \* bound: a technician's visits to the menus before the
                     \* next restart, as the sets of menus opened in each

ASSUME PanelAssumption ==
  /\ {ZoneScreens, PowerZoneScreens, TextLen, DeviceLen} \subseteq Nat \ {0}
  /\ DeviceLen < TextLen
  /\ FirstDhcp \subseteq BOOLEAN
  /\ TypeScreens \subseteq STRING \X Nat
  /\ \A p \in Plans : p \in Seq(SUBSET STRING)

VARIABLES
  st,                \* the navigation globals, by slot (see Slots)
  tick10Min,         \* the ten-minute timer fired and no pass has seen it
  clearKey,
  text,              \* the setting each cell of the three buffers was typed for
  keyPos,            \* the cell the next digit goes to
  dhcp_enabled, netwoek_setting_configuration,
  hostDhcp,          \* eth0 of the board takes its address by DHCP
  chnageInProgramParam, reboot_in_progress, reset_to_default,
  shown,             \* history: the menu opened by the keys pressed; Unknown
                     \* after a time-out inside the menus or a scroll past
                     \* an EXIT, until returnToDisplayScan has run
  asked,             \* history: screen of networkSettings confirmed once by
                     \* the latest key
  changed,           \* history: SIM or network type changed, no reboot asked
  mixed,             \* history: settings stored with another setting's text,
                     \* and whether the menu on the LCD was known (see shown)
  plan,              \* the visits this technician makes
  visits             \* logins to the menus so far

nav   == <<st, tick10Min>>
entry == <<clearKey, text, keyPos>>
lan   == <<dhcp_enabled, netwoek_setting_configuration, hostDhcp, mixed>>
boot  == <<chnageInProgramParam, reboot_in_progress, reset_to_default, changed>>
vars  == <<nav, entry, lan, boot, shown, asked, plan, visits>>

-----------------------------------------------------------------------------
(* The globals and the tables of the menus.                                *)

\* GmainStateState, menuCodeSelectState, GuserSetState, menuCurrentPos,
\* menuMainState, menuSubState, menuSubSubState, menuSubSubSubState,
\* menuSubSubSubSubState, zoneProgSetMenu, rtcProgSetMenu, maintenanceState
Slots == {"main", "code", "user", "pos", "top", "sub", "ssub", "sssub",
          "ssssub", "zone", "rtc", "test"}

\* s with the slots of the record r assigned
Assign(s, r) == [x \in Slots |-> IF x \in DOMAIN r THEN r[x] ELSE s[x]]

\* B on screen v opens the menu in state `at` and resets the slots of `sets`
Opens(v, menu, at, sets) == [v |-> v, menu |-> menu, at |-> at, sets |-> sets]

\* A menu: its slot, its EXIT screen, the last screen the cursor reaches, the
\* menus it opens, and what EXIT assigns.
Menu(slot, last, opens, exit) ==
  [slot |-> slot, exit |-> last, last |-> last, opens |-> opens, leaves |-> exit]

progStateMachineSubState ==
  Menu("top", 10,
    { Opens(0, "DEVICE_CONFIGURATION", 11, [rtc |-> 0]),
      Opens(1, "EVENT_LOG_MANAGEMENT", 12, [rtc |-> 0, sub |-> 0]),
      Opens(2, "NETWORK_COMMUNICATION", 13, [sub |-> 0]),
      Opens(3, "SECURITY_DEVICE_INTEGRATION", 14, <<>>),
      Opens(4, "POWER_MANAGEMENT", 15, <<>>),
      Opens(5, "SYSTEM_SETTINGS", 16, <<>>),
      Opens(6, "SYSTEM_TEST", 17, [sub |-> 0]),
      Opens(7, "PROTOCOL_CONFIGURATION", 18, [sub |-> 0]),
      Opens(8, "DEVICE_PROVISIONING", 19, [sub |-> 0]),
      Opens(9, "OTA_UPDATE", 20, [sub |-> 0]) },
    [main |-> 0, pos |-> 0, user |-> 0, code |-> 0])

DEVICE_CONFIGURATION ==
  Menu("sub", 3,
    { Opens(0, "NORMAL_ZONE", 4, [rtc |-> 0, zone |-> 0, ssub |-> 0]),
      Opens(1, "POWER_ZONE", 5, [rtc |-> 0, zone |-> 0, ssub |-> 0]),
      Opens(2, "OUTPUT_MANAGEMENT", 6, [rtc |-> 0, zone |-> 0]) },
    [pos |-> 0, top |-> 0, sub |-> 0])

EVENT_LOG_MANAGEMENT ==
  Menu("sub", 3,
    { Opens(0, "LOGS", 4, [rtc |-> 0, ssub |-> 0]),
      Opens(1, "EVENT_REPORTS", 5, [rtc |-> 0, ssub |-> 0]),
      Opens(2, "CLEAR_REPORTS", 6, [rtc |-> 0, ssub |-> 0]) },
    [pos |-> 1, top |-> 1, sub |-> 0])

NETWORK_COMMUNICATION_SETTINGS ==
  Menu("sub", 5,
    { Opens(0, "eSIM_SETTINGS", 6, [rtc |-> 0, ssub |-> 0]),
      Opens(1, "GNSS_SETTINGS", 7, [rtc |-> 0, ssub |-> 0]),
      Opens(2, "DEVICE_CREDENTIAL_SETUP", 8, [rtc |-> 0, ssub |-> 0]),
      Opens(3, "LAN_SETUP", 9, [rtc |-> 0, ssub |-> 0]),
      Opens(4, "GSM_SETTINGS", 10, [rtc |-> 0, zone |-> 0, ssub |-> 0]) },
    [pos |-> 2, top |-> 2, sub |-> 0])

SECURITY_DEVICE_INTEGRATION ==
  Menu("sub", 2,
    { Opens(0, "INTEGRATION_SETTINGS", 3, [rtc |-> 0, ssub |-> 0]),
      Opens(1, "DEVICE_MANAGEMENT", 4, [rtc |-> 0, ssub |-> 0]) },
    [pos |-> 3, top |-> 3, sub |-> 0])

POWER_MANAGEMENT ==
  Menu("sub", 2,
    { Opens(0, "LOW_BATTERY", 3, [rtc |-> 0, sssub |-> 0]),
      Opens(1, "POWER_BACKUP", 4, [ssub |-> 0, sssub |-> 0]) },
    [pos |-> 4, top |-> 4, sub |-> 0])

SYSTEM_SETTINGS ==
  Menu("sub", 3,
    { Opens(0, "GENERAL_SETTINGS", 4, [rtc |-> 0, ssub |-> 0]),
      Opens(1, "MAINTENANCE", 5, [rtc |-> 0, ssub |-> 0]),
      Opens(2, "ADVANCE_SETTINGS", 6, [rtc |-> 0, ssub |-> 0]) },
    [pos |-> 5, top |-> 5, sub |-> 0])

PROTOCOL_CONFIGURATION ==
  Menu("sub", 1, { Opens(0, "PROTOCOL_SETTINGS", 2, [rtc |-> 0, ssub |-> 0]) },
       [pos |-> 7, top |-> 7, sub |-> 0])

\* MENU_MAX is 4 while EXIT is 2: the cursor goes on from EXIT to the numbers
\* of the two menus this one opens.
DEVICE_PROVISIONING ==
  [Menu("sub", 2,
     { Opens(0, "SOL_ID", 3, [ssub |-> 0]),
       Opens(1, "DEVICE_PVSN", 4, [rtc |-> 0, ssub |-> 0]) },
     [pos |-> 8, top |-> 8, sub |-> 0])
   EXCEPT !.last = 4]

OTA_UPDATE == Menu("sub", 1, {}, [pos |-> 9, top |-> 9, sub |-> 0])

SYSTEM_TEST == Menu("test", 3, {}, [test |-> 0, pos |-> 6, top |-> 6, sub |-> 0])

DEVICE_CREDENTIAL_SETUP ==
  Menu("ssub", 4,
    { Opens(0, "CLIENT_ID", 5, [sssub |-> 0]),
      Opens(1, "USER_NAME", 6, [sssub |-> 0]),
      Opens(2, "PASSWORD", 7, [sssub |-> 0]),
      Opens(3, "ACCESS_TOKEN", 8, [sssub |-> 0]) },
    [pos |-> 2, sub |-> 2])

INTEGRATION_SETTINGS ==
  Menu("ssub", 2, { Opens(1, "ACTIVE_INTEGR", 4, [sssub |-> 0]) },
       [pos |-> 0, sub |-> 0])

\* 6..11 show the state of the devices.
ACTIVE_INTEGR ==
  Menu("sssub", 12,
    { Opens(0, "HIKVISION_NVR", 13, [ssssub |-> 0]),
      Opens(1, "HIKVISION_BACS", 14, [ssssub |-> 0]),
      Opens(2, "DAHUA_NVR", 15, [ssssub |-> 0]),
      Opens(3, "CP_PLUS_NVR", 16, [ssssub |-> 0]),
      Opens(4, "TEXECOM_BAS", 17, [ssssub |-> 0]),
      Opens(5, "HIK_BAS", 18, [ssssub |-> 0]) },
    [pos |-> 1, ssub |-> 1])

GENERAL_SETTINGS ==
  Menu("ssub", 4,
    { Opens(0, "DATE_TIME", 5, [rtc |-> 0]),
      Opens(1, "PSWD_CHANGE", 6, [sssub |-> 0]),
      Opens(2, "SITE_NAME", 7, [rtc |-> 0, sssub |-> 0]),
      Opens(3, "BRAND_NAME", 8, [rtc |-> 0, sssub |-> 0]) },
    [pos |-> 0, code |-> 0, sub |-> 0])

\* The menus that open no other, by the slot that holds their screen.
progZoneSettings == Menu("zone", ZoneScreens, {}, [zone |-> 0, rtc |-> 0, sub |-> 0, pos |-> 0])
progPowerZoneSettings ==
  Menu("zone", PowerZoneScreens, {}, [zone |-> 0, rtc |-> 0, sub |-> 1, pos |-> 1])
outputManagement == Menu("zone", 12, {}, [zone |-> 0, rtc |-> 0, sub |-> 2, pos |-> 2])

networkSettings == Menu("ssub", 28, {}, [pos |-> 3, sub |-> 3])
eSIMSettings    == Menu("ssub", 2, {}, [pos |-> 0, sub |-> 0])
GNSSSettings    == Menu("ssub", 1, {}, [pos |-> 1, sub |-> 1])
GSMSettings     == Menu("ssub", 1, {}, [pos |-> 4, sub |-> 4, ssub |-> 4])

LOGS_PROG          == Menu("ssub", 3, {}, [pos |-> 0, sub |-> 0, ssub |-> 0])
EVENT_REPORTS_PROG == Menu("ssub", 1, {}, [pos |-> 1, sub |-> 1, ssub |-> 1])
DELETE_LOGS_PROG   == Menu("ssub", 1, {}, [pos |-> 2, sub |-> 2, ssub |-> 2])

lowBatteryProg    == Menu("sssub", 5, {}, [sub |-> 0, pos |-> 0])
POWER_BACKUP_PROG == Menu("ssub", 2, {}, [pos |-> 1, sub |-> 1])

SOL_ID_PROG == Menu("ssub", 3, {}, [sub |-> 0, pos |-> 0, ssub |-> 0, sssub |-> 0])
DEVICE_PVSN_PROG ==
  Menu("ssub", 1, {}, [sub |-> 0, ssub |-> 0, main |-> 0, pos |-> 0, user |-> 0,
                       top |-> 0, code |-> 0, zone |-> 0])
PROTOCOL_SETTINGS_PROG == Menu("ssub", 1, {}, [pos |-> 0, sub |-> 0])
DEVICE_MANAGEMENT_PROG == Menu("ssub", 2, {}, [pos |-> 1, sub |-> 1])
ADVANCE_SETTINGS_PROG  == Menu("ssub", 2, {}, [pos |-> 2, sub |-> 2])
MAINTENANCE_PROG       == Menu("ssub", 3, {}, [pos |-> 1, sub |-> 1])

progRTCsettings == Menu("rtc", 5, {}, [rtc |-> 0, ssub |-> 0, pos |-> 0])
adminPassword   == Menu("sssub", 4, {}, [ssub |-> 1, pos |-> 1, sssub |-> 0])
SubMenuBranchAddress == Menu("sssub", 3, {}, [ssub |-> 2, pos |-> 2])
SubMenuBrandAddress  == Menu("sssub", 3, {}, [ssub |-> 3, pos |-> 3])

SubMenuClientAddress == Menu("sssub", 5, {}, [pos |-> 0, ssub |-> 0, sssub |-> 0])
SubMenuUserName      == Menu("sssub", 5, {}, [pos |-> 1, ssub |-> 1, sssub |-> 1])
SubMenuPassword      == Menu("sssub", 5, {}, [pos |-> 2, ssub |-> 2, sssub |-> 2])
SubMenuAccessToken   == Menu("sssub", 5, {}, [pos |-> 2, ssub |-> 2, sssub |-> 2])

HIKVISION_NVR_PROG  == Menu("ssssub", 13, {}, [ssssub |-> 0, sssub |-> 0, pos |-> 0])
HIKVISION_BACS_PROG == Menu("ssssub", 13, {}, [ssssub |-> 1, sssub |-> 1, pos |-> 1])
DAHUA_NVR_PROG      == Menu("ssssub", 13, {}, [ssssub |-> 2, sssub |-> 2, pos |-> 2])
CP_PLUS_NVR_PROG    == Menu("ssssub", 13, {}, [ssssub |-> 3, sssub |-> 3, pos |-> 3])
TEXECOM_BAS_PROG    == Menu("ssssub", 10, {}, [ssssub |-> 3, sssub |-> 3, pos |-> 3])
HIK_BAS_PROG        == Menu("ssssub", 13, {}, [ssssub |-> 0, sssub |-> 5, pos |-> 0])

Menus ==
  [ PROG |-> progStateMachineSubState,
    DEVICE_CONFIGURATION |-> DEVICE_CONFIGURATION,
    EVENT_LOG_MANAGEMENT |-> EVENT_LOG_MANAGEMENT,
    NETWORK_COMMUNICATION |-> NETWORK_COMMUNICATION_SETTINGS,
    SECURITY_DEVICE_INTEGRATION |-> SECURITY_DEVICE_INTEGRATION,
    POWER_MANAGEMENT |-> POWER_MANAGEMENT, SYSTEM_SETTINGS |-> SYSTEM_SETTINGS,
    SYSTEM_TEST |-> SYSTEM_TEST, PROTOCOL_CONFIGURATION |-> PROTOCOL_CONFIGURATION,
    DEVICE_PROVISIONING |-> DEVICE_PROVISIONING, OTA_UPDATE |-> OTA_UPDATE,
    NORMAL_ZONE |-> progZoneSettings, POWER_ZONE |-> progPowerZoneSettings,
    OUTPUT_MANAGEMENT |-> outputManagement, LOGS |-> LOGS_PROG,
    EVENT_REPORTS |-> EVENT_REPORTS_PROG, CLEAR_REPORTS |-> DELETE_LOGS_PROG,
    eSIM_SETTINGS |-> eSIMSettings, GNSS_SETTINGS |-> GNSSSettings,
    DEVICE_CREDENTIAL_SETUP |-> DEVICE_CREDENTIAL_SETUP,
    LAN_SETUP |-> networkSettings, GSM_SETTINGS |-> GSMSettings,
    INTEGRATION_SETTINGS |-> INTEGRATION_SETTINGS,
    DEVICE_MANAGEMENT |-> DEVICE_MANAGEMENT_PROG, ACTIVE_INTEGR |-> ACTIVE_INTEGR,
    LOW_BATTERY |-> lowBatteryProg, POWER_BACKUP |-> POWER_BACKUP_PROG,
    GENERAL_SETTINGS |-> GENERAL_SETTINGS, MAINTENANCE |-> MAINTENANCE_PROG,
    ADVANCE_SETTINGS |-> ADVANCE_SETTINGS_PROG, SOL_ID |-> SOL_ID_PROG,
    DEVICE_PVSN |-> DEVICE_PVSN_PROG, PROTOCOL_SETTINGS |-> PROTOCOL_SETTINGS_PROG,
    DATE_TIME |-> progRTCsettings, PSWD_CHANGE |-> adminPassword,
    SITE_NAME |-> SubMenuBranchAddress, BRAND_NAME |-> SubMenuBrandAddress,
    CLIENT_ID |-> SubMenuClientAddress, USER_NAME |-> SubMenuUserName,
    PASSWORD |-> SubMenuPassword, ACCESS_TOKEN |-> SubMenuAccessToken,
    HIKVISION_NVR |-> HIKVISION_NVR_PROG, HIKVISION_BACS |-> HIKVISION_BACS_PROG,
    DAHUA_NVR |-> DAHUA_NVR_PROG, CP_PLUS_NVR |-> CP_PLUS_NVR_PROG,
    TEXECOM_BAS |-> TEXECOM_BAS_PROG, HIK_BAS |-> HIK_BAS_PROG ]

CredentialMenus == {"CLIENT_ID", "USER_NAME", "PASSWORD", "ACCESS_TOKEN"}
DeviceMenus == {"HIKVISION_NVR", "HIKVISION_BACS", "DAHUA_NVR", "CP_PLUS_NVR",
                "TEXECOM_BAS", "HIK_BAS"}

\* The menu a menu was opened from (PROG's EXIT leads to the display)
Parent == [m \in DOMAIN Menus |->
             IF m = "PROG" THEN m
             ELSE CHOOSE p \in DOMAIN Menus : \E o \in Menus[p].opens : o.menu = m]

\* The menu whose function runs when the slot of m holds a number
Child == [m \in DOMAIN Menus |->
            [v \in { o.at : o \in Menus[m].opens } |->
               (CHOOSE o \in Menus[m].opens : o.at = v).menu]]

-----------------------------------------------------------------------------
(* The screens of the menus that hold text entries.  They share three      *)
(* buffers: phoneNumberBuff[6] for numbers with dots, the first line of    *)
(* branchNameAddressBuffer, and that of credientalsBuffer.                 *)

Buffers == {"number", "line", "credential"}
Cells == 0..TextLen - 1
CellsOf(b) == IF b = "credential" THEN 0..TextLen ELSE Cells

Blank == <<"none", "blank">>
Zeros == <<"none", "zeros">>
BlankText(b) == [i \in CellsOf(b) |-> Blank]

\* A screen sets clearKey (-1: leaves it); where it thereby switches it, the
\* screen empties the cells `blank` of its buffer and goes `home` to cell 0.
Screen(clear, does) ==
  [clear |-> clear, does |-> does, home |-> FALSE, blank |-> {},
   buffer |-> "number", of |-> Blank]
Home(s) == [s EXCEPT !.home = TRUE]
Emptied(s, cells) == [s EXCEPT !.blank = cells]
For(s, buffer, setting) == [s EXCEPT !.buffer = buffer, !.of = setting]

\* networkSettings: the screen a number is typed on, and the one that stores it
LanTyping(field, clear) ==
  << Home(Emptied(For(Screen(clear, "type"), "number", <<"LAN_SETUP", field>>), Cells)),
     For(Screen(1 - clear, "save"), "number", <<"LAN_SETUP", field>>) >>

LanAddress == << Screen(-1, "choose"), Screen(1, "choose"),
                 Home(Emptied(Screen(0, "show"), Cells)) >> \o LanTyping("address", 1)

LanGateway == << Screen(1, "choose"), Home(Emptied(Screen(0, "show"), Cells)) >>
                \o LanTyping("gateway", 1)

\* Mutant: the mask's screens do not empty what was typed for the gateway.
LanMask_NotEmptied ==
  << Screen(1, "choose"), Screen(0, "show"),
     For(Screen(1, "type"), "number", <<"LAN_SETUP", "mask">>),
     For(Screen(0, "save"), "number", <<"LAN_SETUP", "mask">>) >>

LanMask == << Screen(1, "choose"), Emptied(Screen(0, "show"), Cells) >> \o LanTyping("mask", 1)

LanServer == << Emptied(Screen(1, "choose"), Cells), Screen(0, "choose"), Screen(-1, "choose"),
                Screen(-1, "choose"), Screen(-1, "choose"), Emptied(Screen(1, "show"), Cells) >>
               \o LanTyping("dns", 0)

LanAlternate == << Emptied(Screen(0, "show"), Cells) >> \o LanTyping("alternate", 1)

\* DHCP, static, two choices and EXIT
LanModes == [i \in 1..5 |-> IF i = 5 THEN Screen(1, "exit") ELSE Screen(-1, "choose")]

\* DEVICE_ID, DEVICE_IP, ADD_DEVICE_IP, REG_DEVICE_IP of the menu of device d
DeviceIp(d) ==
  << Screen(1, "choose"), Home(Screen(0, "show")),
     Home(Emptied(For(Screen(1, "type"), "number", <<d, "ip">>), 0..DeviceLen - 1)),
     Home(For(Screen(0, "save"), "number", <<d, "ip">>)) >>

\* DEVICE_NAME, which copies the stored name into the line on every pass,
\* ADD_DEVICE_NAME, REG_DEVICE_NAME
DeviceName(d, clear) ==
  << Home(For(Screen(clear, "load"), "line", <<d, "name">>)),
     Home(For(Screen(0, "type"), "line", <<d, "name">>)),
     Home(For(Screen(1, "save"), "line", <<d, "name">>)) >>

\* CG_REQ, CG_VFY, DEVICE_PASS, which copies the stored text, ADD_DEVICE_PASS,
\* and the last one, on which the key scan takes the B that should store it
DeviceTyped(d) == For(Screen(0, "type"), "line", <<d, "password">>)
DeviceStored(d) == Home(For(Screen(0, "save"), "line", <<d, "password">>))
DevicePass(d, reg) ==
  << Screen(-1, "ask"), Screen(-1, "answer"),
     Home(For(Screen(1, "secret"), "line", <<d, "password">>)),
     Home(DeviceTyped(d)), reg >>

\* DEVICE_PORT, EXIT
DevicePort(exitClear) == << Screen(1, "choose"), Screen(exitClear, "exit") >>

HIKVISION_NVR_Ip   == DeviceIp("HIKVISION_NVR")
HIKVISION_NVR_Name == DeviceName("HIKVISION_NVR", 1)
HIKVISION_NVR_Pass == DevicePass("HIKVISION_NVR", DeviceTyped("HIKVISION_NVR"))
HIKVISION_NVR_Port == DevicePort(-1)

HIKVISION_BACS_Ip   == DeviceIp("HIKVISION_BACS")
HIKVISION_BACS_Name == DeviceName("HIKVISION_BACS", 1)
HIKVISION_BACS_Pass == DevicePass("HIKVISION_BACS", DeviceTyped("HIKVISION_BACS"))
HIKVISION_BACS_Port == DevicePort(-1)

DAHUA_NVR_Ip   == DeviceIp("DAHUA_NVR")
DAHUA_NVR_Name == DeviceName("DAHUA_NVR", 1)
DAHUA_NVR_Pass == DevicePass("DAHUA_NVR", DeviceTyped("DAHUA_NVR"))
DAHUA_NVR_Port == DevicePort(-1)

CP_PLUS_NVR_Ip   == DeviceIp("CP_PLUS_NVR")
CP_PLUS_NVR_Name == DeviceName("CP_PLUS_NVR", 1)
CP_PLUS_NVR_Pass == DevicePass("CP_PLUS_NVR", DeviceTyped("CP_PLUS_NVR"))
CP_PLUS_NVR_Port == DevicePort(-1)

TEXECOM_BAS_Ip   == DeviceIp("TEXECOM_BAS")
TEXECOM_BAS_Pass == DevicePass("TEXECOM_BAS", DeviceTyped("TEXECOM_BAS"))
TEXECOM_BAS_Port == DevicePort(-1)

HIK_BAS_Ip   == DeviceIp("HIK_BAS")
HIK_BAS_Name == DeviceName("HIK_BAS", 0)
HIK_BAS_Pass == DevicePass("HIK_BAS", DeviceStored("HIK_BAS"))
HIK_BAS_Port == DevicePort(0)

\* CG_REQ and CG_VFY in front of a credential
CredentialGate == << Screen(-1, "ask"), Screen(-1, "answer") >>

\* The screens SHOW, SHOW_NAME and REG of credential c, and EXIT; the scan goes
\* one cell further than the second of them empties.
CredentialText(c, cells) ==
  LET of == <<c, "credential">>
  IN  << Home(Emptied(For(Screen(0, "shown"), "credential", of), cells)),
         Home(Emptied(For(Screen(1, "type"), "credential", of), Cells)),
         Home(For(Screen(1, "save"), "credential", of)), Screen(-1, "exit") >>

ClientText == CredentialText("CLIENT_ID", CellsOf("credential"))
UserText   == CredentialText("USER_NAME", Cells)
PasswordText == CredentialText("PASSWORD", Cells)
TokenText  == CredentialText("ACCESS_TOKEN", Cells)

\* Site and brand name: the line was loaded when the menu was opened; the third
\* screen stores all its cells.
NameText(m) ==
  << Home(Screen(1, "show")), Home(For(Screen(0, "type"), "line", <<m, "name">>)),
     Home(For(Screen(1, "file"), "line", <<m, "name">>)), Screen(-1, "exit") >>

SolText ==
  LET of == <<"SOL_ID", "name">>
  IN  << Home(Emptied(For(Screen(1, "show"), "line", of), Cells)),
         Home(Emptied(For(Screen(1, "type"), "line", of), Cells)),
         Home(For(Screen(1, "id"), "line", of)), Screen(-1, "exit") >>

Screens ==
  [ LAN_SETUP |-> LanAddress \o LanGateway \o LanMask \o LanServer \o LanAlternate \o LanModes,
    HIKVISION_NVR |-> HIKVISION_NVR_Ip \o HIKVISION_NVR_Name \o HIKVISION_NVR_Pass \o HIKVISION_NVR_Port,
    HIKVISION_BACS |-> HIKVISION_BACS_Ip \o HIKVISION_BACS_Name \o HIKVISION_BACS_Pass \o HIKVISION_BACS_Port,
    DAHUA_NVR |-> DAHUA_NVR_Ip \o DAHUA_NVR_Name \o DAHUA_NVR_Pass \o DAHUA_NVR_Port,
    CP_PLUS_NVR |-> CP_PLUS_NVR_Ip \o CP_PLUS_NVR_Name \o CP_PLUS_NVR_Pass \o CP_PLUS_NVR_Port,
    TEXECOM_BAS |-> TEXECOM_BAS_Ip \o TEXECOM_BAS_Pass \o TEXECOM_BAS_Port,
    HIK_BAS |-> HIK_BAS_Ip \o HIK_BAS_Name \o HIK_BAS_Pass \o HIK_BAS_Port,
    CLIENT_ID |-> CredentialGate \o ClientText, USER_NAME |-> CredentialGate \o UserText,
    PASSWORD |-> CredentialGate \o PasswordText, ACCESS_TOKEN |-> CredentialGate \o TokenText,
    SITE_NAME |-> NameText("SITE_NAME"), BRAND_NAME |-> NameText("BRAND_NAME"),
    SOL_ID |-> SolText ]

Settings == UNION { { Screens[m][i].of : i \in DOMAIN Screens[m] } : m \in DOMAIN Screens }

-----------------------------------------------------------------------------
(* The function that runs: from progStateMachineSubState, each function    *)
(* whose state is the number of a menu it opens calls that menu's function.*)

Called(m) ==
  LET v == st[Menus[m].slot] IN IF v \in DOMAIN Child[m] THEN Child[m][v] ELSE m

Active ==
  LET first  == Called("PROG")
      second == Called(first)
      third  == Called(second)
  IN  Called(third)

InMenus == st.main = 1 /\ st.code = 2 /\ st.user = 2

\* menuPositionUpDn and menuPositionUpDnWithoutClear: the cursor after key k
menuPositionUpDn(k, DownMIN, UpMAX) ==
  CASE k = "@" /\ st.pos < UpMAX   -> st.pos + 1
    [] k = "*" /\ st.pos > DownMIN -> st.pos - 1
    [] OTHER -> st.pos

\* Mutant: the variable of the second level keeps the menu that was open.
returnToDisplayScan_KeepsSub(s) ==
  Assign(s, [pos |-> 0, user |-> 0, ssub |-> 0, main |-> 0, top |-> 0, code |-> 0,
             zone |-> 0])

returnToDisplayScan(s) ==
  Assign(s, [pos |-> 0, user |-> 0, sub |-> 0, ssub |-> 0, main |-> 0, top |-> 0,
             code |-> 0, zone |-> 0])

\* Mutant: ten minutes later the menus start again instead of ending.
exitMenuAuto_StaysIn(s) ==
  IF tick10Min THEN Assign(s, [pos |-> 0, user |-> 0, top |-> 0]) ELSE s

\* What exitMenuAuto makes of the globals s at the end of a pass in the menus
exitMenuAuto(s) ==
  IF tick10Min
  THEN Assign(s, [code |-> 0, main |-> 0, pos |-> 0, user |-> 0, top |-> 0])
  ELSE s

Unknown == "unknown"

\* A pass in the menus ends with the globals s and the menu m on the LCD,
\* unless the timer fired.
EndPass(s, m) ==
  /\ st' = exitMenuAuto(s)
  /\ tick10Min' = FALSE
  /\ shown' = IF shown = Unknown \/ (tick10Min /\ s.user = 2) THEN Unknown ELSE m

Cursor(slot, p) == [x \in {slot, "pos"} |-> p]

\* The keys that do something on every screen, and those of a text entry
ScreenKeys == {"none", "B", "@", "*"}
Keys == ScreenKeys \cup {"C", "digit"}

-----------------------------------------------------------------------------
(* The display, the login, and what leads to them.                         *)

FirstText == [b \in Buffers |-> IF b = "credential" THEN BlankText(b)
                                ELSE [i \in CellsOf(b) |-> Zeros]]

\* The program starts again: its globals take their first values; eth0 keeps
\* the configuration d it was given and a reset asked for is carried out.
Restart(d) ==
  /\ st' = [x \in Slots |-> 0]
  /\ tick10Min' = FALSE
  /\ clearKey' = 0 /\ keyPos' = 0
  /\ text' = FirstText
  /\ hostDhcp' = d
  /\ dhcp_enabled' = IF d THEN "Active" ELSE "False"
  /\ netwoek_setting_configuration' = 0 /\ mixed' = {}
  /\ chnageInProgramParam' = 0 /\ reboot_in_progress' = FALSE
  /\ reset_to_default' = FALSE /\ changed' = FALSE
  /\ shown' = "PROG" /\ asked' = 0 /\ visits' = 0 /\ plan' = plan

Init ==
  /\ st = [x \in Slots |-> 0]
  /\ tick10Min = FALSE
  /\ clearKey = 0 /\ keyPos = 0
  /\ text = FirstText
  /\ hostDhcp \in FirstDhcp
  /\ dhcp_enabled = IF hostDhcp THEN "Active" ELSE "False"
  /\ netwoek_setting_configuration = 0 /\ mixed = {}
  /\ chnageInProgramParam = 0 /\ reboot_in_progress = FALSE
  /\ reset_to_default = FALSE /\ changed = FALSE
  /\ shown = "PROG" /\ asked = 0 /\ visits = 0 /\ plan \in Plans

\* rebootPanel(): unless an earlier call got there, the board reboots, with
\* eth0 configured in one of the ways c.  When /sbin/reboot fails the caller
\* goes on with reboot_in_progress set.
rebootPanel(c) == ~reboot_in_progress /\ \E d \in c : Restart(d)

MoreVisits == visits < Len(plan)

\* tickTimer: ten minutes since exitMenuAuto(1) last restarted the count
TickTimer ==
  /\ ~tick10Min
  /\ tick10Min' = TRUE
  /\ UNCHANGED <<st, entry, lan, boot, shown, asked, plan, visits>>

\* Mutant: the return to the display forgets what was changed.
KeyA_DropsFlag ==
  /\ IF st.main = 0
       THEN MoreVisits /\ EndPass(Assign(st, [main |-> 1, pos |-> 0, code |-> 0]), shown)
       ELSE /\ st' = returnToDisplayScan(st)
            /\ tick10Min' = FALSE /\ shown' = "PROG"
  /\ asked' = 0 /\ chnageInProgramParam' = 0
  /\ UNCHANGED <<entry, lan, reboot_in_progress, reset_to_default, changed, plan, visits>>

\* Key A: from the display into the menus, from anywhere else back to it
KeyA ==
  /\ IF st.main = 0
       THEN MoreVisits /\ EndPass(Assign(st, [main |-> 1, pos |-> 0, code |-> 0]), shown)
       ELSE /\ st' = returnToDisplayScan(st)
            /\ tick10Min' = FALSE /\ shown' = "PROG"
  /\ asked' = 0
  /\ UNCHANGED <<entry, lan, boot, plan, visits>>

\* The display without one of its keys: nothing of this changes.
dispStateMachine == st.main = 0 /\ UNCHANGED vars

\* Keys D and @ on the display: the lamp test and the reboot button
KeyDOrUp ==
  /\ st.main = 0 /\ MoreVisits
  /\ \/ st' = Assign(st, [main |-> 2, pos |-> 0, test |-> 0])
     \/ st' = Assign(st, [main |-> 3, pos |-> 0])
  /\ UNCHANGED <<tick10Min, entry, lan, boot, shown, asked, plan, visits>>

\* proLampTestExt: four tests and an EXIT; the tests switch no menu variable
proLampTestExt(k) ==
  /\ st.main = 2
  /\ LET p == menuPositionUpDn(k, 0, 4)
     IN  st' = IF st.test = 4 /\ k = "B"
               THEN Assign(st, [test |-> 0, main |-> 0, pos |-> 0, user |-> 0,
                                code |-> 0, top |-> 0, sub |-> 0])
               ELSE Assign(st, Cursor("test", p))
  /\ UNCHANGED <<tick10Min, entry, lan, boot, shown, asked, plan, visits>>

\* progMainStateMachine on its first two screens: MASTER_CODE and EXIT
progMainStateMachine(k) ==
  /\ st.main = 1 /\ st.code \in {0, 1}
  /\ LET p == menuPositionUpDn(k, 0, 1)
     IN  CASE k = "B" /\ st.code = 0 ->
                /\ st' = Assign(st, [code |-> 2, pos |-> 0])
                /\ tick10Min' = FALSE
                /\ UNCHANGED shown
           [] k = "B" /\ st.code = 1 -> EndPass(Assign(st, [pos |-> 0, code |-> 0, main |-> 0]), shown)
           [] OTHER -> EndPass(Assign(st, Cursor("code", p)), shown)
  /\ UNCHANGED <<entry, lan, boot, asked, plan, visits>>

\* The login of progStateMachine: B accepts the password typed, or not; a
\* refused one is cleared with C first.
Login(k) ==
  /\ st.main = 1 /\ st.code = 2 /\ st.user \in {0, 1}
  /\ \/ /\ st.user = 1 /\ k = "B" /\ MoreVisits
        /\ EndPass(Assign(st, [user |-> 2, pos |-> 0, top |-> 0]), "PROG")
        /\ visits' = visits + 1
     \/ EndPass(Assign(st, [user |-> 1]), shown) /\ UNCHANGED visits
  /\ UNCHANGED <<entry, lan, boot, asked, plan>>

\* rebootButton: the same login, kept in the same GuserSetState, then a reboot
rebootButton(k) ==
  /\ st.main = 3
  /\ \/ /\ st.user = 1 /\ k = "B"
        /\ st' = Assign(st, [user |-> 2, pos |-> 0, top |-> 0])
        /\ UNCHANGED boot
     \/ /\ st.user < 2
        /\ st' = Assign(st, [user |-> 1])
        /\ UNCHANGED boot
     \/ /\ st.user = 2
        /\ reboot_in_progress' = TRUE
        /\ UNCHANGED <<st, chnageInProgramParam, reset_to_default, changed>>
  /\ UNCHANGED <<tick10Min, entry, lan, shown, asked, plan, visits>>

RebootButtonReboots == st.main = 3 /\ st.user = 2 /\ rebootPanel({hostDhcp})

-----------------------------------------------------------------------------
(* The menus.                                                              *)

\* B opens a menu.
OpenMenu(k, m, v) ==
  /\ k = "B"
  /\ \E o \in Menus[m].opens :
       /\ o.v = v
       /\ o.menu \in plan[visits]
       /\ EndPass(Assign(Assign(st, o.sets),
                         [x \in {"pos", Menus[m].slot} |-> IF x = "pos" THEN 0 ELSE o.at]),
                  o.menu)
       /\ clearKey' = IF m = "PROG" /\ v \in {1, 2, 3, 8, 9} THEN clearKey ELSE 0
       /\ text' = IF o.menu \in {"SITE_NAME", "BRAND_NAME"}
                  THEN [text EXCEPT !["line"] = [i \in Cells |-> <<o.menu, "name">>]] ELSE text
  /\ asked' = 0
  /\ UNCHANGED <<keyPos, lan, boot, plan, visits>>

\* The globals after B on the EXIT of menu m
Left(m) ==
  Assign(Assign(st, Cursor(Menus[m].slot, menuPositionUpDn("B", 0, Menus[m].last))),
         Menus[m].leaves)

\* Menus whose EXIT does no more than assign the navigation globals
PlainExit(m) == m \notin {"LAN_SETUP", "eSIM_SETTINGS", "DEVICE_PVSN"}

LeaveMenu(k, m, v) ==
  /\ k = "B" /\ v = Menus[m].exit /\ PlainExit(m)
  /\ EndPass(Left(m), Parent[m])
  /\ clearKey' = IF m = "HIK_BAS" THEN 0 ELSE clearKey
  /\ asked' = 0
  /\ UNCHANGED <<text, keyPos, lan, boot, plan, visits>>

\* A chosen pair of menus answers a change of the modem with a reboot.
LeaveAndReboot(k, m, v) ==
  /\ k = "B" /\ m \in {"eSIM_SETTINGS", "DEVICE_PVSN"}
  /\ v = Menus[m].exit
  /\ IF m = "DEVICE_PVSN"
       THEN st' = Left(m) /\ tick10Min' = FALSE /\ shown' = "PROG"
       ELSE EndPass(Left(m), Parent[m])
  /\ chnageInProgramParam' = 0
  /\ reboot_in_progress' = (reboot_in_progress \/ chnageInProgramParam = 1)
  /\ changed' = (changed /\ (chnageInProgramParam = 0 \/ reboot_in_progress))
  /\ asked' = 0
  /\ UNCHANGED <<entry, lan, reset_to_default, plan, visits>>

ExitReboots(k, m, v) ==
  /\ k = "B" /\ m \in {"eSIM_SETTINGS", "DEVICE_PVSN"}
  /\ v = Menus[m].exit /\ chnageInProgramParam = 1
  /\ rebootPanel({hostDhcp})

\* sim_swap, network_type
ChangeModem(k, m, v) ==
  /\ k = "B" /\ m = "eSIM_SETTINGS" /\ v \in {0, 1}
  /\ chnageInProgramParam' = 1 /\ changed' = TRUE
  /\ EndPass(Assign(st, Cursor("ssub", st.pos)), m)
  /\ asked' = 0
  /\ UNCHANGED <<entry, lan, reboot_in_progress, reset_to_default, plan, visits>>

\* device_provisioning() blocks the loop; its result is not looked at.
Provision(k, m, v) ==
  /\ k = "B" /\ m = "DEVICE_PVSN" /\ v = 0
  /\ chnageInProgramParam' = 1
  /\ clearKey' = 0
  /\ EndPass(Assign(st, [rtc |-> 0, ssub |-> 0, pos |-> 0]), m)
  /\ asked' = 0
  /\ UNCHANGED <<text, keyPos, lan, reboot_in_progress, reset_to_default,
                 changed, plan, visits>>

\* MAINTENANCE: shutdown and reboot; when the command fails nothing changes.
PowerCommand(k, m, v) ==
  /\ k = "B" /\ m = "MAINTENANCE" /\ v \in {0, 1}
  /\ Restart(hostDhcp)

\* ADVANCE_SETTINGS: reset_to_default is asked for with a reboot, or recalled.
ResetToDefault(k, m, v) ==
  /\ k = "B" /\ m = "ADVANCE_SETTINGS" /\ v = 1
  /\ \/ ~reset_to_default /\ rebootPanel({hostDhcp})
     \/ /\ reset_to_default' = ~reset_to_default
        /\ reboot_in_progress' = (reboot_in_progress \/ ~reset_to_default)
        /\ EndPass(Assign(st, Cursor("ssub", st.pos)), m)
        /\ asked' = 0
        /\ UNCHANGED <<entry, lan, chnageInProgramParam, changed, plan, visits>>

\* Menus whose screens switch clearKey in a way that is not followed here: it
\* is set again by the key that opens a menu where it matters.
TogglesClearKey(m) ==
  m \in {"NORMAL_ZONE", "POWER_ZONE", "OUTPUT_MANAGEMENT", "DEVICE_PVSN", "DATE_TIME"}

\* A pass on a screen with no effect that is followed here; past EXIT there
\* are only the numbers of the menus opened, which are other functions' passes.
Walk(k, m, v) ==
  /\ m \notin DOMAIN Screens /\ k \in ScreenKeys
  /\ v \in 0..Menus[m].exit
  /\ k = "B" => /\ v # Menus[m].exit
                /\ \A o \in Menus[m].opens : o.v # v
                /\ <<m, v>> \notin {<<"eSIM_SETTINGS", 0>>, <<"eSIM_SETTINGS", 1>>,
                                    <<"DEVICE_PVSN", 0>>, <<"ADVANCE_SETTINGS", 1>>}
  /\ LET p == menuPositionUpDn(k, 0, Menus[m].last)
     IN  EndPass(Assign(st, Cursor(Menus[m].slot, p)), IF p \in DOMAIN Child[m] THEN Unknown ELSE m)
  /\ clearKey' \in IF TogglesClearKey(m) THEN {0, 1} ELSE {clearKey}
  /\ asked' = IF k \in {"@", "*", "B"} THEN 0 ELSE asked
  /\ UNCHANGED <<text, keyPos, lan, boot, plan, visits>>

\* No branch of the function tests for this value: the pass does nothing.
NoScreen(k, m, v) ==
  /\ v \notin 0..Menus[m].exit /\ k = "none"
  /\ EndPass(st, shown)
  /\ UNCHANGED <<entry, lan, boot, asked, plan, visits>>

-----------------------------------------------------------------------------
(* Text entry.                                                             *)

At(m, v) == Screens[m][v + 1]

\* clearKey, the buffers and the cell as screen s finds them
Entered(s) ==
  LET switches == s.clear \in {0, 1} \ {clearKey}
      kept == IF switches
              THEN [text EXCEPT ![s.buffer] =
                      [i \in CellsOf(s.buffer) |-> IF i \in s.blank THEN Blank ELSE text[s.buffer][i]]]
              ELSE text
  IN  [ clear |-> IF switches THEN s.clear ELSE clearKey,
        text  |-> IF s.does \in {"load", "secret"}
                  THEN [kept EXCEPT ![s.buffer] = [i \in Cells |-> IF i = 0 THEN s.of ELSE Blank]]
                  ELSE kept,
        pos   |-> IF switches /\ s.home THEN 0 ELSE keyPos ]

\* What key k makes of the entry e on a screen s to type on: B moves to the
\* next cell, a digit sets the cell (pressed over and over, to a blank), C
\* empties the buffer.
Pressed(k, maxRANGE, s, e) ==
  CASE k = "B"     -> {[e EXCEPT !.pos = IF @ + 1 > maxRANGE THEN 0 ELSE @ + 1]}
    [] k = "C"     -> {[e EXCEPT !.text[s.buffer] = BlankText(s.buffer), !.pos = 0]}
    [] k = "digit" -> { [e EXCEPT !.text[s.buffer][e.pos] = c] : c \in {s.of, Blank} }
    [] OTHER       -> {e}

\* The bound: a number has one cell typed at most.
keypadScanningMultiNumKeyWithDot(k, maxRANGE, s, e) ==
  { t \in Pressed(k, maxRANGE, s, e) :
      k = "digit" => \A i \in Cells \ {e.pos} : e.text[s.buffer][i] \in {Zeros, Blank} }

keypadScanningMultiKey(k, s, e) == Pressed(k, TextLen - 1, s, e)
keypadScanningMultiKeyWithSmallCaps(k, s, e) == Pressed(k, TextLen - 1, s, e)
keypadScanningMultiKey_crediential(k, s, e) == Pressed(k, TextLen, s, e)

Scanned(k, m, s, e) ==
  IF s.does # "type" THEN {e}
  ELSE CASE s.buffer = "number" ->
              keypadScanningMultiNumKeyWithDot(
                k, IF m = "LAN_SETUP" THEN TextLen ELSE DeviceLen, s, e)
         [] s.buffer = "credential" -> keypadScanningMultiKey_crediential(k, s, e)
         [] s.buffer = "line" /\ m \in DeviceMenus ->
              keypadScanningMultiKeyWithSmallCaps(k, s, e)
         [] OTHER -> keypadScanningMultiKey(k, s, e)

\* The keys of a screen: what the technician types is bounded by TypeScreens.
KeyOn(k, m, v) == k \in {"digit", "C"} => At(m, v).does = "type" /\ <<m, v>> \in TypeScreens

PastTheEnd(k, s) ==
  k = "digit" /\ s.does = "type" /\ Entered(s).pos \notin CellsOf(s.buffer)

\* What B stores on screen s from the entry e: the cells before the first
\* blank, or all of them
SavedCells(cells) == { cells[i] : i \in { j \in DOMAIN cells : \A l \in 0..j : cells[l] # Blank } }
Stored(k, s, e) ==
  CASE k = "B" /\ s.does \in {"save", "id"} -> SavedCells(e.text[s.buffer])
    [] k = "B" /\ s.does = "file" -> { e.text[s.buffer][i] : i \in Cells } \ {Blank}
    [] OTHER -> {}

\* A pass of screen v as far as the text entries go
TextPass(k, m, v) ==
  LET s == At(m, v)
      e == Entered(s)
  IN  /\ KeyOn(k, m, v) /\ ~PastTheEnd(k, s)
      /\ \E t \in Scanned(k, m, s, e) :
           /\ text' = t.text /\ keyPos' = t.pos
           /\ clearKey' = IF k = "B" /\ s.does = "id" /\ Stored(k, s, e) = {} THEN 0 ELSE t.clear
      /\ mixed' = IF Stored(k, s, e) \subseteq {s.of} THEN mixed
                  ELSE mixed \cup {[setting |-> s.of, known |-> shown # Unknown]}

\* A digit beyond the last cell is an IndexError that nothing catches, and the
\* program starts again.
TypePastTheEnd(k, m, v) ==
  /\ m \in DOMAIN Screens /\ v \in 0..Menus[m].exit
  /\ KeyOn(k, m, v) /\ PastTheEnd(k, At(m, v))
  /\ Restart(hostDhcp)

\* The screen and the cursor after key k.  In front of a stored text there is
\* a question, whose refusal leads past the text but leaves the cursor; the
\* text is shown for a while only.
NextScreens(k, m, v) ==
  LET at(w, p)   == [v |-> w, pos |-> p]
      low        == IF m \in CredentialMenus THEN 2
                    ELSE IF m = "TEXECOM_BAS" /\ At(m, v).does = "secret" THEN v ELSE 0
      walked     == menuPositionUpDn(k, low, Menus[m].last)
      gated      == menuPositionUpDn(k, v, v + 1)
  IN  CASE At(m, v).does = "ask"    -> {at(gated, gated), at(v + 2, v + 2), at(v + 5, st.pos)}
        [] At(m, v).does = "answer" -> {at(v, st.pos), at(v + 1, v + 1), at(v + 4, st.pos)}
        [] At(m, v).does = "secret" -> {at(walked, walked), at(v + 3, v + 3)}
        [] At(m, v).does = "shown"  -> {at(walked, walked), at(v + 3, st.pos)}
        [] At(m, v).does = "id" /\ k = "B" -> {at(v, st.pos)}
        [] OTHER -> {at(walked, walked)}

\* A pass of a menu of a device, a credential or a name
EntryPass(k, m, v) ==
  /\ m \in DOMAIN Screens \ {"LAN_SETUP"} /\ v \in 0..Menus[m].exit
  /\ ~(k = "B" /\ v = Menus[m].exit)
  /\ TextPass(k, m, v)
  /\ \E n \in NextScreens(k, m, v) :
       EndPass(Assign(st, [x \in {"pos", Menus[m].slot} |-> IF x = "pos" THEN n.pos ELSE n.v]), m)
  /\ asked' = IF k \in {"@", "*", "B"} THEN 0 ELSE asked
  /\ UNCHANGED <<dhcp_enabled, netwoek_setting_configuration, hostDhcp, boot, plan, visits>>

-----------------------------------------------------------------------------
(* networkSettings.                                                        *)

\* Mutant: moving to another screen leaves the question about DHCP standing.
PendingDhcp_Kept(v) == dhcp_enabled

\* Lines 8716-8719: another screen than the one that asked drops the question.
PendingDhcp(v) == IF v # 24 /\ dhcp_enabled = "True" THEN "False" ELSE dhcp_enabled

PendingStatic(v) == IF v # 25 /\ netwoek_setting_configuration = 2
                    THEN 0 ELSE netwoek_setting_configuration

\* A pass of networkSettings that configures nothing
LanPass(k, m, v) ==
  /\ m = "LAN_SETUP" /\ v \in 0..28
  /\ /\ TextPass(k, m, v)
     /\ CASE v = 24 /\ k = "B" -> /\ dhcp_enabled # "True"
                                  /\ dhcp_enabled' = IF dhcp_enabled = "False" THEN "True"
                                                     ELSE dhcp_enabled
                                  /\ netwoek_setting_configuration' = PendingStatic(v)
          [] v = 25 /\ k = "B" -> /\ netwoek_setting_configuration # 2
                                  /\ netwoek_setting_configuration' =
                                       IF netwoek_setting_configuration = 0 THEN 2 ELSE 1
                                  /\ dhcp_enabled' = PendingDhcp(v)
          [] v = 28 /\ k = "B" -> /\ dhcp_enabled' = PendingDhcp(v)
                                  /\ netwoek_setting_configuration' = 0
          [] OTHER -> /\ dhcp_enabled' = PendingDhcp(v)
                      /\ netwoek_setting_configuration' = PendingStatic(v)
     /\ IF v = 28 /\ k = "B"
          THEN EndPass(Left(m), Parent[m])
          ELSE EndPass(Assign(st, Cursor("ssub", menuPositionUpDn(k, 0, 28))), m)
     /\ asked' = CASE k = "B" -> IF v \in {24, 25} THEN v ELSE 0 [] k \in {"@", "*"} -> 0 [] OTHER -> asked
  /\ UNCHANGED <<hostDhcp, boot, plan, visits>>

\* The second B: resetDHCP() or configureStaticNetwork(), either of which may
\* fail unseen, and rebootPanel()
SecondB(k, m, v) ==
  /\ m = "LAN_SETUP" /\ k = "B"
  /\ \/ v = 24 /\ PendingDhcp(24) = "True"
     \/ v = 25 /\ PendingStatic(25) = 2

Configured(v) == IF v = 24 THEN {TRUE, hostDhcp} ELSE {FALSE, hostDhcp}

ConfigureReboots(k, m, v) == SecondB(k, m, v) /\ rebootPanel(Configured(v))

ConfigureOnly(k, m, v) ==
  /\ SecondB(k, m, v)
  /\ hostDhcp' \in Configured(v)
  /\ dhcp_enabled' = IF v = 24 THEN "Rebooting" ELSE PendingDhcp(v)
  /\ netwoek_setting_configuration' = IF v = 25 THEN 1 ELSE PendingStatic(v)
  /\ reboot_in_progress' = TRUE
  /\ EndPass(Assign(st, Cursor("ssub", st.pos)), m)
  /\ asked' = 0
  /\ UNCHANGED <<entry, mixed, chnageInProgramParam, reset_to_default,
                 changed, plan, visits>>

-----------------------------------------------------------------------------
\* A pass of the function of menu m, its state variable at v
MenuPass(k, m, v) ==
  \/ OpenMenu(k, m, v) \/ LeaveMenu(k, m, v) \/ LeaveAndReboot(k, m, v)
  \/ ExitReboots(k, m, v) \/ ChangeModem(k, m, v) \/ Provision(k, m, v)
  \/ PowerCommand(k, m, v) \/ ResetToDefault(k, m, v) \/ Walk(k, m, v)
  \/ NoScreen(k, m, v) \/ LanPass(k, m, v) \/ TypePastTheEnd(k, m, v)
  \/ ConfigureReboots(k, m, v) \/ ConfigureOnly(k, m, v) \/ EntryPass(k, m, v)

\* One pass of the main loop, with the key the keypad thread left for it
Pass(k) ==
  \/ k \in ScreenKeys /\ (progMainStateMachine(k) \/ Login(k) \/ proLampTestExt(k) \/ rebootButton(k))
  \/ InMenus /\ \E m \in {Active} : MenuPass(k, m, st[Menus[m].slot])

Next == TickTimer \/ dispStateMachine \/ KeyA \/ KeyDOrUp \/ RebootButtonReboots \/ \E k \in Keys : Pass(k)

\* The loop goes on, and counts its ten minutes.
Fairness == WF_vars(\E k \in Keys : Pass(k)) /\ WF_vars(TickTimer)

Spec == Init /\ [][Next]_vars /\ Fairness

-----------------------------------------------------------------------------
(* Properties.                                                             *)

\* The function that runs is the one of the menu the keys pressed have opened,
\* and it has a branch for the value it finds; the five shared variables that
\* choose it hold nothing of an earlier visit.  Not after the ten-minute
\* return, which leaves three of them, and not past the EXIT of the
\* provisioning menu; and the lamp test keeps its own screen.
MenuShownIsMenuOpened ==
  InMenus /\ shown # Unknown =>
    /\ Active = shown
    /\ Active = "SYSTEM_TEST" \/ st[Menus[Active].slot] \in 0..Menus[Active].exit

\* The five addresses of the board are stored from text typed for that very
\* address, and the site and brand names from text of that name, unless a
\* time-out has left the menus' variables so that a later visit enters the
\* name's menu without opening it: all the screens share three buffers, and a
\* screen may be reached past the one that empties them or while another menu's
\* state is still in its variable.  (Not so the settings of a device, a
\* credential, and the SOL id: see the README.)
StoredTextIsItsOwn ==
  \A f \in mixed : /\ f.setting[1] # "LAN_SETUP"
                   /\ f.setting[1] \in {"SITE_NAME", "BRAND_NAME"} => ~ f.known

\* A change of SIM or network type is not forgotten: until a reboot has been
\* asked for it, the flag that asks for one at the next EXIT stays set.
ModemChangeAwaitsReboot ==
  changed => chnageInProgramParam = 1 \/ reboot_in_progress

\* The board changes between DHCP and a static address only on a second B on
\* the same screen, with no move, exit or time-out between the two.
NetworkModeIsConfirmed ==
  [][hostDhcp' # hostDhcp => asked = st.ssub /\ st.ssub \in {24, 25}]_vars

\* Whatever is on the LCD, the panel does not stay in the menus: they are left
\* for the display, or for the code menu.
MenusAreLeft == (st.main = 1 /\ st.code = 2) ~> (st.main = 0 \/ st.code = 0)

=============================================================================
