----------------------------- MODULE PanelProofs -----------------------------
(***************************************************************************)
(* Panel proved for every number of zone screens, every length of a text   *)
(* and every plan of visits: the tables of the menus form a tree, in which *)
(* a menu and all it was opened from keep their numbers in different       *)
(* variables; a change of the modem awaits its reboot; the board changes   *)
(* between DHCP and a static address only when told twice; the menu whose  *)
(* function runs is the one that the keys have opened; and a text that is  *)
(* stored was typed for what it is stored as.                              *)
(***************************************************************************)
EXTENDS Panel, TLAPS

-----------------------------------------------------------------------------
(* The tables.                                                             *)

LEMMA MenuOf ==
  /\ Menus["PROG"] = progStateMachineSubState
  /\ Menus["DEVICE_CONFIGURATION"] = DEVICE_CONFIGURATION
  /\ Menus["EVENT_LOG_MANAGEMENT"] = EVENT_LOG_MANAGEMENT
  /\ Menus["NETWORK_COMMUNICATION"] = NETWORK_COMMUNICATION_SETTINGS
  /\ Menus["SECURITY_DEVICE_INTEGRATION"] = SECURITY_DEVICE_INTEGRATION
  /\ Menus["POWER_MANAGEMENT"] = POWER_MANAGEMENT
  /\ Menus["SYSTEM_SETTINGS"] = SYSTEM_SETTINGS
  /\ Menus["SYSTEM_TEST"] = SYSTEM_TEST
  /\ Menus["PROTOCOL_CONFIGURATION"] = PROTOCOL_CONFIGURATION
  /\ Menus["DEVICE_PROVISIONING"] = DEVICE_PROVISIONING
  /\ Menus["OTA_UPDATE"] = OTA_UPDATE
  /\ Menus["NORMAL_ZONE"] = progZoneSettings
  /\ Menus["POWER_ZONE"] = progPowerZoneSettings
  /\ Menus["OUTPUT_MANAGEMENT"] = outputManagement
  /\ Menus["LOGS"] = LOGS_PROG
  /\ Menus["EVENT_REPORTS"] = EVENT_REPORTS_PROG
  /\ Menus["CLEAR_REPORTS"] = DELETE_LOGS_PROG
  /\ Menus["eSIM_SETTINGS"] = eSIMSettings
  /\ Menus["GNSS_SETTINGS"] = GNSSSettings
  /\ Menus["DEVICE_CREDENTIAL_SETUP"] = DEVICE_CREDENTIAL_SETUP
  /\ Menus["LAN_SETUP"] = networkSettings
  /\ Menus["GSM_SETTINGS"] = GSMSettings
  /\ Menus["INTEGRATION_SETTINGS"] = INTEGRATION_SETTINGS
  /\ Menus["DEVICE_MANAGEMENT"] = DEVICE_MANAGEMENT_PROG
  /\ Menus["ACTIVE_INTEGR"] = ACTIVE_INTEGR
  /\ Menus["LOW_BATTERY"] = lowBatteryProg
  /\ Menus["POWER_BACKUP"] = POWER_BACKUP_PROG
  /\ Menus["GENERAL_SETTINGS"] = GENERAL_SETTINGS
  /\ Menus["MAINTENANCE"] = MAINTENANCE_PROG
  /\ Menus["ADVANCE_SETTINGS"] = ADVANCE_SETTINGS_PROG
  /\ Menus["SOL_ID"] = SOL_ID_PROG
  /\ Menus["DEVICE_PVSN"] = DEVICE_PVSN_PROG
  /\ Menus["PROTOCOL_SETTINGS"] = PROTOCOL_SETTINGS_PROG
  /\ Menus["DATE_TIME"] = progRTCsettings
  /\ Menus["PSWD_CHANGE"] = adminPassword
  /\ Menus["SITE_NAME"] = SubMenuBranchAddress
  /\ Menus["BRAND_NAME"] = SubMenuBrandAddress
  /\ Menus["CLIENT_ID"] = SubMenuClientAddress
  /\ Menus["USER_NAME"] = SubMenuUserName
  /\ Menus["PASSWORD"] = SubMenuPassword
  /\ Menus["ACCESS_TOKEN"] = SubMenuAccessToken
  /\ Menus["HIKVISION_NVR"] = HIKVISION_NVR_PROG
  /\ Menus["HIKVISION_BACS"] = HIKVISION_BACS_PROG
  /\ Menus["DAHUA_NVR"] = DAHUA_NVR_PROG
  /\ Menus["CP_PLUS_NVR"] = CP_PLUS_NVR_PROG
  /\ Menus["TEXECOM_BAS"] = TEXECOM_BAS_PROG
  /\ Menus["HIK_BAS"] = HIK_BAS_PROG
BY DEF Menus

LEMMA MenuNames ==
  DOMAIN Menus = {"PROG", "DEVICE_CONFIGURATION", "EVENT_LOG_MANAGEMENT",
       "NETWORK_COMMUNICATION", "SECURITY_DEVICE_INTEGRATION",
       "POWER_MANAGEMENT", "SYSTEM_SETTINGS", "SYSTEM_TEST",
       "PROTOCOL_CONFIGURATION", "DEVICE_PROVISIONING", "OTA_UPDATE",
       "NORMAL_ZONE", "POWER_ZONE", "OUTPUT_MANAGEMENT", "LOGS",
       "EVENT_REPORTS", "CLEAR_REPORTS", "eSIM_SETTINGS", "GNSS_SETTINGS",
       "DEVICE_CREDENTIAL_SETUP", "LAN_SETUP", "GSM_SETTINGS",
       "INTEGRATION_SETTINGS", "DEVICE_MANAGEMENT", "ACTIVE_INTEGR",
       "LOW_BATTERY", "POWER_BACKUP", "GENERAL_SETTINGS", "MAINTENANCE",
       "ADVANCE_SETTINGS", "SOL_ID", "DEVICE_PVSN", "PROTOCOL_SETTINGS",
       "DATE_TIME", "PSWD_CHANGE", "SITE_NAME", "BRAND_NAME", "CLIENT_ID",
       "USER_NAME", "PASSWORD", "ACCESS_TOKEN", "HIKVISION_NVR",
       "HIKVISION_BACS", "DAHUA_NVR", "CP_PLUS_NVR", "TEXECOM_BAS", "HIK_BAS"}
BY DEF Menus

\* The numbers that make the function of a menu run: what the variables of the
\* menus above it hold
Paths ==
  [ PROG |-> <<>>,
    DEVICE_CONFIGURATION |-> [top |-> 11],
    EVENT_LOG_MANAGEMENT |-> [top |-> 12],
    NETWORK_COMMUNICATION |-> [top |-> 13],
    SECURITY_DEVICE_INTEGRATION |-> [top |-> 14],
    POWER_MANAGEMENT |-> [top |-> 15],
    SYSTEM_SETTINGS |-> [top |-> 16],
    SYSTEM_TEST |-> [top |-> 17],
    PROTOCOL_CONFIGURATION |-> [top |-> 18],
    DEVICE_PROVISIONING |-> [top |-> 19],
    OTA_UPDATE |-> [top |-> 20],
    NORMAL_ZONE |-> [top |-> 11, sub |-> 4],
    POWER_ZONE |-> [top |-> 11, sub |-> 5],
    OUTPUT_MANAGEMENT |-> [top |-> 11, sub |-> 6],
    LOGS |-> [top |-> 12, sub |-> 4],
    EVENT_REPORTS |-> [top |-> 12, sub |-> 5],
    CLEAR_REPORTS |-> [top |-> 12, sub |-> 6],
    eSIM_SETTINGS |-> [top |-> 13, sub |-> 6],
    GNSS_SETTINGS |-> [top |-> 13, sub |-> 7],
    DEVICE_CREDENTIAL_SETUP |-> [top |-> 13, sub |-> 8],
    LAN_SETUP |-> [top |-> 13, sub |-> 9],
    GSM_SETTINGS |-> [top |-> 13, sub |-> 10],
    INTEGRATION_SETTINGS |-> [top |-> 14, sub |-> 3],
    DEVICE_MANAGEMENT |-> [top |-> 14, sub |-> 4],
    ACTIVE_INTEGR |-> [top |-> 14, sub |-> 3, ssub |-> 4],
    LOW_BATTERY |-> [top |-> 15, sub |-> 3],
    POWER_BACKUP |-> [top |-> 15, sub |-> 4],
    GENERAL_SETTINGS |-> [top |-> 16, sub |-> 4],
    MAINTENANCE |-> [top |-> 16, sub |-> 5],
    ADVANCE_SETTINGS |-> [top |-> 16, sub |-> 6],
    SOL_ID |-> [top |-> 19, sub |-> 3],
    DEVICE_PVSN |-> [top |-> 19, sub |-> 4],
    PROTOCOL_SETTINGS |-> [top |-> 18, sub |-> 2],
    DATE_TIME |-> [top |-> 16, sub |-> 4, ssub |-> 5],
    PSWD_CHANGE |-> [top |-> 16, sub |-> 4, ssub |-> 6],
    SITE_NAME |-> [top |-> 16, sub |-> 4, ssub |-> 7],
    BRAND_NAME |-> [top |-> 16, sub |-> 4, ssub |-> 8],
    CLIENT_ID |-> [top |-> 13, sub |-> 8, ssub |-> 5],
    USER_NAME |-> [top |-> 13, sub |-> 8, ssub |-> 6],
    PASSWORD |-> [top |-> 13, sub |-> 8, ssub |-> 7],
    ACCESS_TOKEN |-> [top |-> 13, sub |-> 8, ssub |-> 8],
    HIKVISION_NVR |-> [top |-> 14, sub |-> 3, ssub |-> 4, sssub |-> 13],
    HIKVISION_BACS |-> [top |-> 14, sub |-> 3, ssub |-> 4, sssub |-> 14],
    DAHUA_NVR |-> [top |-> 14, sub |-> 3, ssub |-> 4, sssub |-> 15],
    CP_PLUS_NVR |-> [top |-> 14, sub |-> 3, ssub |-> 4, sssub |-> 16],
    TEXECOM_BAS |-> [top |-> 14, sub |-> 3, ssub |-> 4, sssub |-> 17],
    HIK_BAS |-> [top |-> 14, sub |-> 3, ssub |-> 4, sssub |-> 18] ]

Row(m, slot, exit, last, leaves, path, above) ==
  /\ Menus[m].slot = slot /\ Menus[m].exit = exit /\ Menus[m].last = last
  /\ Menus[m].leaves = leaves
  /\ Paths[m] = path /\ DOMAIN Paths[m] = above

\* The variable of a menu is none of those of the menus above it, and EXIT
\* assigns screens of menus only.
WellFormed(m) ==
  /\ Menus[m].slot \in Slots \ {"pos", "main", "code", "user"}
  /\ DOMAIN Paths[m] \in {{}, {"top"}, {"top", "sub"}, {"top", "sub", "ssub"},
                          {"top", "sub", "ssub", "sssub"}}
  /\ Menus[m].slot \notin DOMAIN Paths[m]
  /\ Menus[m].exit \in Nat /\ Menus[m].last \in Nat /\ Menus[m].exit <=
       Menus[m].last
  /\ \A x \in DOMAIN Menus[m].leaves : Menus[m].leaves[x] \in 0..9
  /\ IF m = "PROG" THEN DOMAIN Paths[m] = {} ELSE Menus[m].slot # "top" /\
       DOMAIN Paths[m] # {}
  /\ m # "PROG" /\ "top" \in DOMAIN Menus[m].leaves => "pos" \in DOMAIN
       Menus[m].leaves
  /\ Menus[m].slot = "test" => m = "SYSTEM_TEST"
  /\ m # "DEVICE_PROVISIONING" => Menus[m].last = Menus[m].exit
  /\ "code" \in DOMAIN Menus[m].leaves => "pos" \in DOMAIN Menus[m].leaves /\
       Menus[m].leaves.pos = 0
  /\ m # "PROG" => "top" \in DOMAIN Paths[m] /\ Paths[m].top \in 11..20
  /\ m \notin {"PROG", "NETWORK_COMMUNICATION"} /\ Paths[m].top = 13 =>
       /\ "sub" \in DOMAIN Paths[m] /\ Paths[m].sub \in 6..10
       /\ Paths[m].sub = 9 => m = "LAN_SETUP"
       /\ DOMAIN Menus[m].leaves \cap {"main", "code", "user"} = {}
       /\ "sub" \in DOMAIN Menus[m].leaves =>
            /\ Menus[m].leaves.sub \in 0..5
            /\ "pos" \in DOMAIN Menus[m].leaves /\ Menus[m].leaves.pos \in 0..5

\* Opening o from menu p extends the path of p; its EXIT leads back to a screen
\* of p; the variables it resets are not on the path and include its own.
Fits(p, o) ==
  LET c == Menus[o.menu]
  IN  /\ o.menu \in DOMAIN Menus
      /\ o.at \in Int /\ o.at > Menus[p].exit
      /\ DOMAIN Paths[o.menu] = DOMAIN Paths[p] \cup {Menus[p].slot}
      /\ Paths[o.menu][Menus[p].slot] = o.at
      /\ \A x \in DOMAIN Paths[p] : Paths[o.menu][x] = Paths[p][x]
      /\ DOMAIN o.sets \cap (DOMAIN Paths[o.menu] \cup {"user", "main",
           "code", "pos", "top"}) = {}
      /\ \A x \in DOMAIN o.sets : o.sets[x] = 0
      /\ c.slot \in DOMAIN o.sets \/ o.menu = "SYSTEM_TEST" \/ (p = "PROG" /\
           c.slot = "sub")
      /\ o.menu = "SYSTEM_TEST" => p = "PROG" /\ "sub" \in DOMAIN o.sets
      /\ p = "PROG" /\ o.at = 13 => "sub" \in DOMAIN o.sets
      /\ Menus[p].slot \in DOMAIN c.leaves /\ c.leaves[Menus[p].slot] \in
           0..Menus[p].exit
      /\ "pos" \in DOMAIN c.leaves /\ c.leaves.pos \in 0..Menus[p].last
      /\ \/ o.menu = "DEVICE_PVSN"
         \/ DOMAIN c.leaves \cap (DOMAIN Paths[p] \cup {"main", "user"}) = {}
      /\ p = "PROG" => "sub" \in DOMAIN c.leaves /\ c.leaves.sub = 0

\* Menus: every row fits, the numbers of a menu's children differ, and each
\* menu but the first is some menu's child.
LEMMA MenuTree ==
  /\ \A m \in DOMAIN Menus : WellFormed(m)
  /\ \A p \in DOMAIN Menus : \A o \in Menus[p].opens : Fits(p, o)
  /\ \A p \in DOMAIN Menus : \A o1, o2 \in Menus[p].opens : o1.at = o2.at =>
       o1 = o2
  /\ \A m \in DOMAIN Menus \ {"PROG"} :
       \E p \in DOMAIN Menus : \E o \in Menus[p].opens : o.menu = m
<1>1. Row("PROG", "top", 10, 10, [main |-> 0, pos |-> 0, user |-> 0, code |->
     0], <<>>, {})
  BY MenuOf DEF progStateMachineSubState, Menu, Row, Paths
<1>2. Row("DEVICE_CONFIGURATION", "sub", 3, 3, [pos |-> 0, top |-> 0, sub |->
     0], [top |-> 11], {"top"})
  BY MenuOf DEF DEVICE_CONFIGURATION, Menu, Row, Paths
<1>3. Row("EVENT_LOG_MANAGEMENT", "sub", 3, 3, [pos |-> 1, top |-> 1, sub |->
     0], [top |-> 12], {"top"})
  BY MenuOf DEF EVENT_LOG_MANAGEMENT, Menu, Row, Paths
<1>4. Row("NETWORK_COMMUNICATION", "sub", 5, 5, [pos |-> 2, top |-> 2, sub |->
     0], [top |-> 13], {"top"})
  BY MenuOf DEF NETWORK_COMMUNICATION_SETTINGS, Menu, Row, Paths
<1>5. Row("SECURITY_DEVICE_INTEGRATION", "sub", 2, 2, [pos |-> 3, top |-> 3,
     sub |-> 0], [top |-> 14], {"top"})
  BY MenuOf DEF SECURITY_DEVICE_INTEGRATION, Menu, Row, Paths
<1>6. Row("POWER_MANAGEMENT", "sub", 2, 2, [pos |-> 4, top |-> 4, sub |-> 0],
     [top |-> 15], {"top"})
  BY MenuOf DEF POWER_MANAGEMENT, Menu, Row, Paths
<1>7. Row("SYSTEM_SETTINGS", "sub", 3, 3, [pos |-> 5, top |-> 5, sub |-> 0],
     [top |-> 16], {"top"})
  BY MenuOf DEF SYSTEM_SETTINGS, Menu, Row, Paths
<1>8. Row("SYSTEM_TEST", "test", 3, 3, [test |-> 0, pos |-> 6, top |-> 6, sub
     |-> 0], [top |-> 17], {"top"})
  BY MenuOf DEF SYSTEM_TEST, Menu, Row, Paths
<1>9. Row("PROTOCOL_CONFIGURATION", "sub", 1, 1, [pos |-> 7, top |-> 7, sub
     |-> 0], [top |-> 18], {"top"})
  BY MenuOf DEF PROTOCOL_CONFIGURATION, Menu, Row, Paths
<1>10. Row("DEVICE_PROVISIONING", "sub", 2, 4, [pos |-> 8, top |-> 8, sub |->
     0], [top |-> 19], {"top"})
  BY MenuOf DEF DEVICE_PROVISIONING, Menu, Row, Paths
<1>11. Row("OTA_UPDATE", "sub", 1, 1, [pos |-> 9, top |-> 9, sub |-> 0], [top
     |-> 20], {"top"})
  BY MenuOf DEF OTA_UPDATE, Menu, Row, Paths
<1>12. Row("NORMAL_ZONE", "zone", ZoneScreens, ZoneScreens, [zone |-> 0, rtc
     |-> 0, sub |-> 0, pos |-> 0], [top |-> 11, sub |-> 4], {"top", "sub"})
  BY MenuOf DEF progZoneSettings, Menu, Row, Paths
<1>13. Row("POWER_ZONE", "zone", PowerZoneScreens, PowerZoneScreens, [zone |->
     0, rtc |-> 0, sub |-> 1, pos |-> 1], [top |-> 11, sub |-> 5], {"top",
     "sub"})
  BY MenuOf DEF progPowerZoneSettings, Menu, Row, Paths
<1>14. Row("OUTPUT_MANAGEMENT", "zone", 12, 12, [zone |-> 0, rtc |-> 0, sub
     |-> 2, pos |-> 2], [top |-> 11, sub |-> 6], {"top", "sub"})
  BY MenuOf DEF outputManagement, Menu, Row, Paths
<1>15. Row("LOGS", "ssub", 3, 3, [pos |-> 0, sub |-> 0, ssub |-> 0], [top |->
     12, sub |-> 4], {"top", "sub"})
  BY MenuOf DEF LOGS_PROG, Menu, Row, Paths
<1>16. Row("EVENT_REPORTS", "ssub", 1, 1, [pos |-> 1, sub |-> 1, ssub |-> 1],
     [top |-> 12, sub |-> 5], {"top", "sub"})
  BY MenuOf DEF EVENT_REPORTS_PROG, Menu, Row, Paths
<1>17. Row("CLEAR_REPORTS", "ssub", 1, 1, [pos |-> 2, sub |-> 2, ssub |-> 2],
     [top |-> 12, sub |-> 6], {"top", "sub"})
  BY MenuOf DEF DELETE_LOGS_PROG, Menu, Row, Paths
<1>18. Row("eSIM_SETTINGS", "ssub", 2, 2, [pos |-> 0, sub |-> 0], [top |-> 13,
     sub |-> 6], {"top", "sub"})
  BY MenuOf DEF eSIMSettings, Menu, Row, Paths
<1>19. Row("GNSS_SETTINGS", "ssub", 1, 1, [pos |-> 1, sub |-> 1], [top |-> 13,
     sub |-> 7], {"top", "sub"})
  BY MenuOf DEF GNSSSettings, Menu, Row, Paths
<1>20. Row("DEVICE_CREDENTIAL_SETUP", "ssub", 4, 4, [pos |-> 2, sub |-> 2],
     [top |-> 13, sub |-> 8], {"top", "sub"})
  BY MenuOf DEF DEVICE_CREDENTIAL_SETUP, Menu, Row, Paths
<1>21. Row("LAN_SETUP", "ssub", 28, 28, [pos |-> 3, sub |-> 3], [top |-> 13,
     sub |-> 9], {"top", "sub"})
  BY MenuOf DEF networkSettings, Menu, Row, Paths
<1>22. Row("GSM_SETTINGS", "ssub", 1, 1, [pos |-> 4, sub |-> 4, ssub |-> 4],
     [top |-> 13, sub |-> 10], {"top", "sub"})
  BY MenuOf DEF GSMSettings, Menu, Row, Paths
<1>23. Row("INTEGRATION_SETTINGS", "ssub", 2, 2, [pos |-> 0, sub |-> 0], [top
     |-> 14, sub |-> 3], {"top", "sub"})
  BY MenuOf DEF INTEGRATION_SETTINGS, Menu, Row, Paths
<1>24. Row("DEVICE_MANAGEMENT", "ssub", 2, 2, [pos |-> 1, sub |-> 1], [top |->
     14, sub |-> 4], {"top", "sub"})
  BY MenuOf DEF DEVICE_MANAGEMENT_PROG, Menu, Row, Paths
<1>25. Row("ACTIVE_INTEGR", "sssub", 12, 12, [pos |-> 1, ssub |-> 1], [top |->
     14, sub |-> 3, ssub |-> 4], {"top", "sub", "ssub"})
  BY MenuOf DEF ACTIVE_INTEGR, Menu, Row, Paths
<1>26. Row("LOW_BATTERY", "sssub", 5, 5, [sub |-> 0, pos |-> 0], [top |-> 15,
     sub |-> 3], {"top", "sub"})
  BY MenuOf DEF lowBatteryProg, Menu, Row, Paths
<1>27. Row("POWER_BACKUP", "ssub", 2, 2, [pos |-> 1, sub |-> 1], [top |-> 15,
     sub |-> 4], {"top", "sub"})
  BY MenuOf DEF POWER_BACKUP_PROG, Menu, Row, Paths
<1>28. Row("GENERAL_SETTINGS", "ssub", 4, 4, [pos |-> 0, code |-> 0, sub |->
     0], [top |-> 16, sub |-> 4], {"top", "sub"})
  BY MenuOf DEF GENERAL_SETTINGS, Menu, Row, Paths
<1>29. Row("MAINTENANCE", "ssub", 3, 3, [pos |-> 1, sub |-> 1], [top |-> 16,
     sub |-> 5], {"top", "sub"})
  BY MenuOf DEF MAINTENANCE_PROG, Menu, Row, Paths
<1>30. Row("ADVANCE_SETTINGS", "ssub", 2, 2, [pos |-> 2, sub |-> 2], [top |->
     16, sub |-> 6], {"top", "sub"})
  BY MenuOf DEF ADVANCE_SETTINGS_PROG, Menu, Row, Paths
<1>31. Row("SOL_ID", "ssub", 3, 3, [sub |-> 0, pos |-> 0, ssub |-> 0, sssub
     |-> 0], [top |-> 19, sub |-> 3], {"top", "sub"})
  BY MenuOf DEF SOL_ID_PROG, Menu, Row, Paths
<1>32. Row("DEVICE_PVSN", "ssub", 1, 1, [sub |-> 0, ssub |-> 0, main |-> 0,
     pos |-> 0, user |-> 0, top |-> 0, code |-> 0, zone |-> 0], [top |-> 19,
     sub |-> 4], {"top", "sub"})
  BY MenuOf DEF DEVICE_PVSN_PROG, Menu, Row, Paths
<1>33. Row("PROTOCOL_SETTINGS", "ssub", 1, 1, [pos |-> 0, sub |-> 0], [top |->
     18, sub |-> 2], {"top", "sub"})
  BY MenuOf DEF PROTOCOL_SETTINGS_PROG, Menu, Row, Paths
<1>34. Row("DATE_TIME", "rtc", 5, 5, [rtc |-> 0, ssub |-> 0, pos |-> 0], [top
     |-> 16, sub |-> 4, ssub |-> 5], {"top", "sub", "ssub"})
  BY MenuOf DEF progRTCsettings, Menu, Row, Paths
<1>35. Row("PSWD_CHANGE", "sssub", 4, 4, [ssub |-> 1, pos |-> 1, sssub |-> 0],
     [top |-> 16, sub |-> 4, ssub |-> 6], {"top", "sub", "ssub"})
  BY MenuOf DEF adminPassword, Menu, Row, Paths
<1>36. Row("SITE_NAME", "sssub", 3, 3, [ssub |-> 2, pos |-> 2], [top |-> 16,
     sub |-> 4, ssub |-> 7], {"top", "sub", "ssub"})
  BY MenuOf DEF SubMenuBranchAddress, Menu, Row, Paths
<1>37. Row("BRAND_NAME", "sssub", 3, 3, [ssub |-> 3, pos |-> 3], [top |-> 16,
     sub |-> 4, ssub |-> 8], {"top", "sub", "ssub"})
  BY MenuOf DEF SubMenuBrandAddress, Menu, Row, Paths
<1>38. Row("CLIENT_ID", "sssub", 5, 5, [pos |-> 0, ssub |-> 0, sssub |-> 0],
     [top |-> 13, sub |-> 8, ssub |-> 5], {"top", "sub", "ssub"})
  BY MenuOf DEF SubMenuClientAddress, Menu, Row, Paths
<1>39. Row("USER_NAME", "sssub", 5, 5, [pos |-> 1, ssub |-> 1, sssub |-> 1],
     [top |-> 13, sub |-> 8, ssub |-> 6], {"top", "sub", "ssub"})
  BY MenuOf DEF SubMenuUserName, Menu, Row, Paths
<1>40. Row("PASSWORD", "sssub", 5, 5, [pos |-> 2, ssub |-> 2, sssub |-> 2],
     [top |-> 13, sub |-> 8, ssub |-> 7], {"top", "sub", "ssub"})
  BY MenuOf DEF SubMenuPassword, Menu, Row, Paths
<1>41. Row("ACCESS_TOKEN", "sssub", 5, 5, [pos |-> 2, ssub |-> 2, sssub |->
     2], [top |-> 13, sub |-> 8, ssub |-> 8], {"top", "sub", "ssub"})
  BY MenuOf DEF SubMenuAccessToken, Menu, Row, Paths
<1>42. Row("HIKVISION_NVR", "ssssub", 13, 13, [ssssub |-> 0, sssub |-> 0, pos
     |-> 0], [top |-> 14, sub |-> 3, ssub |-> 4, sssub |-> 13], {"top", "sub",
     "ssub", "sssub"})
  BY MenuOf DEF HIKVISION_NVR_PROG, Menu, Row, Paths
<1>43. Row("HIKVISION_BACS", "ssssub", 13, 13, [ssssub |-> 1, sssub |-> 1, pos
     |-> 1], [top |-> 14, sub |-> 3, ssub |-> 4, sssub |-> 14], {"top", "sub",
     "ssub", "sssub"})
  BY MenuOf DEF HIKVISION_BACS_PROG, Menu, Row, Paths
<1>44. Row("DAHUA_NVR", "ssssub", 13, 13, [ssssub |-> 2, sssub |-> 2, pos |->
     2], [top |-> 14, sub |-> 3, ssub |-> 4, sssub |-> 15], {"top", "sub",
     "ssub", "sssub"})
  BY MenuOf DEF DAHUA_NVR_PROG, Menu, Row, Paths
<1>45. Row("CP_PLUS_NVR", "ssssub", 13, 13, [ssssub |-> 3, sssub |-> 3, pos
     |-> 3], [top |-> 14, sub |-> 3, ssub |-> 4, sssub |-> 16], {"top", "sub",
     "ssub", "sssub"})
  BY MenuOf DEF CP_PLUS_NVR_PROG, Menu, Row, Paths
<1>46. Row("TEXECOM_BAS", "ssssub", 10, 10, [ssssub |-> 3, sssub |-> 3, pos
     |-> 3], [top |-> 14, sub |-> 3, ssub |-> 4, sssub |-> 17], {"top", "sub",
     "ssub", "sssub"})
  BY MenuOf DEF TEXECOM_BAS_PROG, Menu, Row, Paths
<1>47. Row("HIK_BAS", "ssssub", 13, 13, [ssssub |-> 0, sssub |-> 5, pos |->
     0], [top |-> 14, sub |-> 3, ssub |-> 4, sssub |-> 18], {"top", "sub",
     "ssub", "sssub"})
  BY MenuOf DEF HIK_BAS_PROG, Menu, Row, Paths
<1>101. WellFormed("PROG")
  BY <1>1, PanelAssumption DEF Row, Slots, WellFormed
<1>102. WellFormed("DEVICE_CONFIGURATION")
  BY <1>2, PanelAssumption DEF Row, Slots, WellFormed
<1>103. WellFormed("EVENT_LOG_MANAGEMENT")
  BY <1>3, PanelAssumption DEF Row, Slots, WellFormed
<1>104. WellFormed("NETWORK_COMMUNICATION")
  BY <1>4, PanelAssumption DEF Row, Slots, WellFormed
<1>105. WellFormed("SECURITY_DEVICE_INTEGRATION")
  BY <1>5, PanelAssumption DEF Row, Slots, WellFormed
<1>106. WellFormed("POWER_MANAGEMENT")
  BY <1>6, PanelAssumption DEF Row, Slots, WellFormed
<1>107. WellFormed("SYSTEM_SETTINGS")
  BY <1>7, PanelAssumption DEF Row, Slots, WellFormed
<1>108. WellFormed("SYSTEM_TEST")
  BY <1>8, PanelAssumption DEF Row, Slots, WellFormed
<1>109. WellFormed("PROTOCOL_CONFIGURATION")
  BY <1>9, PanelAssumption DEF Row, Slots, WellFormed
<1>110. WellFormed("DEVICE_PROVISIONING")
  BY <1>10, PanelAssumption DEF Row, Slots, WellFormed
<1>111. WellFormed("OTA_UPDATE")
  BY <1>11, PanelAssumption DEF Row, Slots, WellFormed
<1>112. WellFormed("NORMAL_ZONE")
  BY <1>12, PanelAssumption DEF Row, Slots, WellFormed
<1>113. WellFormed("POWER_ZONE")
  BY <1>13, PanelAssumption DEF Row, Slots, WellFormed
<1>114. WellFormed("OUTPUT_MANAGEMENT")
  BY <1>14, PanelAssumption DEF Row, Slots, WellFormed
<1>115. WellFormed("LOGS")
  BY <1>15, PanelAssumption DEF Row, Slots, WellFormed
<1>116. WellFormed("EVENT_REPORTS")
  BY <1>16, PanelAssumption DEF Row, Slots, WellFormed
<1>117. WellFormed("CLEAR_REPORTS")
  BY <1>17, PanelAssumption DEF Row, Slots, WellFormed
<1>118. WellFormed("eSIM_SETTINGS")
  BY <1>18, PanelAssumption DEF Row, Slots, WellFormed
<1>119. WellFormed("GNSS_SETTINGS")
  BY <1>19, PanelAssumption DEF Row, Slots, WellFormed
<1>120. WellFormed("DEVICE_CREDENTIAL_SETUP")
  BY <1>20, PanelAssumption DEF Row, Slots, WellFormed
<1>121. WellFormed("LAN_SETUP")
  BY <1>21, PanelAssumption DEF Row, Slots, WellFormed
<1>122. WellFormed("GSM_SETTINGS")
  BY <1>22, PanelAssumption DEF Row, Slots, WellFormed
<1>123. WellFormed("INTEGRATION_SETTINGS")
  BY <1>23, PanelAssumption DEF Row, Slots, WellFormed
<1>124. WellFormed("DEVICE_MANAGEMENT")
  BY <1>24, PanelAssumption DEF Row, Slots, WellFormed
<1>125. WellFormed("ACTIVE_INTEGR")
  BY <1>25, PanelAssumption DEF Row, Slots, WellFormed
<1>126. WellFormed("LOW_BATTERY")
  BY <1>26, PanelAssumption DEF Row, Slots, WellFormed
<1>127. WellFormed("POWER_BACKUP")
  BY <1>27, PanelAssumption DEF Row, Slots, WellFormed
<1>128. WellFormed("GENERAL_SETTINGS")
  BY <1>28, PanelAssumption DEF Row, Slots, WellFormed
<1>129. WellFormed("MAINTENANCE")
  BY <1>29, PanelAssumption DEF Row, Slots, WellFormed
<1>130. WellFormed("ADVANCE_SETTINGS")
  BY <1>30, PanelAssumption DEF Row, Slots, WellFormed
<1>131. WellFormed("SOL_ID")
  BY <1>31, PanelAssumption DEF Row, Slots, WellFormed
<1>132. WellFormed("DEVICE_PVSN")
  BY <1>32, PanelAssumption DEF Row, Slots, WellFormed
<1>133. WellFormed("PROTOCOL_SETTINGS")
  BY <1>33, PanelAssumption DEF Row, Slots, WellFormed
<1>134. WellFormed("DATE_TIME")
  BY <1>34, PanelAssumption DEF Row, Slots, WellFormed
<1>135. WellFormed("PSWD_CHANGE")
  BY <1>35, PanelAssumption DEF Row, Slots, WellFormed
<1>136. WellFormed("SITE_NAME")
  BY <1>36, PanelAssumption DEF Row, Slots, WellFormed
<1>137. WellFormed("BRAND_NAME")
  BY <1>37, PanelAssumption DEF Row, Slots, WellFormed
<1>138. WellFormed("CLIENT_ID")
  BY <1>38, PanelAssumption DEF Row, Slots, WellFormed
<1>139. WellFormed("USER_NAME")
  BY <1>39, PanelAssumption DEF Row, Slots, WellFormed
<1>140. WellFormed("PASSWORD")
  BY <1>40, PanelAssumption DEF Row, Slots, WellFormed
<1>141. WellFormed("ACCESS_TOKEN")
  BY <1>41, PanelAssumption DEF Row, Slots, WellFormed
<1>142. WellFormed("HIKVISION_NVR")
  BY <1>42, PanelAssumption DEF Row, Slots, WellFormed
<1>143. WellFormed("HIKVISION_BACS")
  BY <1>43, PanelAssumption DEF Row, Slots, WellFormed
<1>144. WellFormed("DAHUA_NVR")
  BY <1>44, PanelAssumption DEF Row, Slots, WellFormed
<1>145. WellFormed("CP_PLUS_NVR")
  BY <1>45, PanelAssumption DEF Row, Slots, WellFormed
<1>146. WellFormed("TEXECOM_BAS")
  BY <1>46, PanelAssumption DEF Row, Slots, WellFormed
<1>147. WellFormed("HIK_BAS")
  BY <1>47, PanelAssumption DEF Row, Slots, WellFormed
<1>201. Menus["PROG"].opens = {Opens(0, "DEVICE_CONFIGURATION", 11, [rtc |->
     0]), Opens(1, "EVENT_LOG_MANAGEMENT", 12, [rtc |-> 0, sub |-> 0]),
     Opens(2, "NETWORK_COMMUNICATION", 13, [sub |-> 0]), Opens(3,
     "SECURITY_DEVICE_INTEGRATION", 14, <<>>), Opens(4, "POWER_MANAGEMENT",
     15, <<>>), Opens(5, "SYSTEM_SETTINGS", 16, <<>>), Opens(6, "SYSTEM_TEST",
     17, [sub |-> 0]), Opens(7, "PROTOCOL_CONFIGURATION", 18, [sub |-> 0]),
     Opens(8, "DEVICE_PROVISIONING", 19, [sub |-> 0]), Opens(9, "OTA_UPDATE",
     20, [sub |-> 0])}
  BY MenuOf DEF progStateMachineSubState, Menu
<1>202. Fits("PROG", Opens(0, "DEVICE_CONFIGURATION", 11, [rtc |-> 0]))
  BY <1>1, <1>2, MenuNames DEF Row, Fits, Opens
<1>203. Fits("PROG", Opens(1, "EVENT_LOG_MANAGEMENT", 12, [rtc |-> 0, sub |->
     0]))
  BY <1>1, <1>3, MenuNames DEF Row, Fits, Opens
<1>204. Fits("PROG", Opens(2, "NETWORK_COMMUNICATION", 13, [sub |-> 0]))
  BY <1>1, <1>4, MenuNames DEF Row, Fits, Opens
<1>205. Fits("PROG", Opens(3, "SECURITY_DEVICE_INTEGRATION", 14, <<>>))
  BY <1>1, <1>5, MenuNames DEF Row, Fits, Opens
<1>206. Fits("PROG", Opens(4, "POWER_MANAGEMENT", 15, <<>>))
  BY <1>1, <1>6, MenuNames DEF Row, Fits, Opens
<1>207. Fits("PROG", Opens(5, "SYSTEM_SETTINGS", 16, <<>>))
  BY <1>1, <1>7, MenuNames DEF Row, Fits, Opens
<1>208. Fits("PROG", Opens(6, "SYSTEM_TEST", 17, [sub |-> 0]))
  BY <1>1, <1>8, MenuNames DEF Row, Fits, Opens
<1>209. Fits("PROG", Opens(7, "PROTOCOL_CONFIGURATION", 18, [sub |-> 0]))
  BY <1>1, <1>9, MenuNames DEF Row, Fits, Opens
<1>210. Fits("PROG", Opens(8, "DEVICE_PROVISIONING", 19, [sub |-> 0]))
  BY <1>1, <1>10, MenuNames DEF Row, Fits, Opens
<1>211. Fits("PROG", Opens(9, "OTA_UPDATE", 20, [sub |-> 0]))
  BY <1>1, <1>11, MenuNames DEF Row, Fits, Opens
<1>212. \A o \in Menus["PROG"].opens : Fits("PROG", o)
  BY <1>201, <1>202, <1>203, <1>204, <1>205, <1>206, <1>207, <1>208, <1>209,
       <1>210, <1>211
<1>213.
     /\ Opens(0, "DEVICE_CONFIGURATION", 11, [rtc |-> 0]).at = 11
     /\ Opens(0, "DEVICE_CONFIGURATION", 11, [rtc |-> 0]).menu =
          "DEVICE_CONFIGURATION"
     /\ Opens(1, "EVENT_LOG_MANAGEMENT", 12, [rtc |-> 0, sub |-> 0]).at = 12
     /\ Opens(1, "EVENT_LOG_MANAGEMENT", 12, [rtc |-> 0, sub |-> 0]).menu =
          "EVENT_LOG_MANAGEMENT"
     /\ Opens(2, "NETWORK_COMMUNICATION", 13, [sub |-> 0]).at = 13
     /\ Opens(2, "NETWORK_COMMUNICATION", 13, [sub |-> 0]).menu =
          "NETWORK_COMMUNICATION"
     /\ Opens(3, "SECURITY_DEVICE_INTEGRATION", 14, <<>>).at = 14
     /\ Opens(3, "SECURITY_DEVICE_INTEGRATION", 14, <<>>).menu =
          "SECURITY_DEVICE_INTEGRATION"
     /\ Opens(4, "POWER_MANAGEMENT", 15, <<>>).at = 15
     /\ Opens(4, "POWER_MANAGEMENT", 15, <<>>).menu = "POWER_MANAGEMENT"
     /\ Opens(5, "SYSTEM_SETTINGS", 16, <<>>).at = 16
     /\ Opens(5, "SYSTEM_SETTINGS", 16, <<>>).menu = "SYSTEM_SETTINGS"
     /\ Opens(6, "SYSTEM_TEST", 17, [sub |-> 0]).at = 17
     /\ Opens(6, "SYSTEM_TEST", 17, [sub |-> 0]).menu = "SYSTEM_TEST"
     /\ Opens(7, "PROTOCOL_CONFIGURATION", 18, [sub |-> 0]).at = 18
     /\ Opens(7, "PROTOCOL_CONFIGURATION", 18, [sub |-> 0]).menu =
          "PROTOCOL_CONFIGURATION"
     /\ Opens(8, "DEVICE_PROVISIONING", 19, [sub |-> 0]).at = 19
     /\ Opens(8, "DEVICE_PROVISIONING", 19, [sub |-> 0]).menu =
          "DEVICE_PROVISIONING"
     /\ Opens(9, "OTA_UPDATE", 20, [sub |-> 0]).at = 20
     /\ Opens(9, "OTA_UPDATE", 20, [sub |-> 0]).menu = "OTA_UPDATE"
  BY DEF Opens
<1>214. \A m \in {"DEVICE_CONFIGURATION", "EVENT_LOG_MANAGEMENT",
     "NETWORK_COMMUNICATION", "SECURITY_DEVICE_INTEGRATION",
     "POWER_MANAGEMENT", "SYSTEM_SETTINGS", "SYSTEM_TEST",
     "PROTOCOL_CONFIGURATION", "DEVICE_PROVISIONING", "OTA_UPDATE"} : \E o \in
     Menus["PROG"].opens : o.menu = m
  BY <1>201, <1>213
<1>215. \A o1, o2 \in Menus["PROG"].opens : o1.at = o2.at => o1 = o2
  <2>1. \A o \in Menus["PROG"].opens : o.at \in 11..20
    BY <1>201, <1>213
  <2>2. \A o1, o2 \in Menus["PROG"].opens : o1.at = 11 /\ o1.at = o2.at => o1
       = o2
    <3>1. \A o \in Menus["PROG"].opens : o.at = 11 => o = Opens(0,
         "DEVICE_CONFIGURATION", 11, [rtc |-> 0])
      BY <1>201, <1>213
    <3> QED BY <3>1
  <2>3. \A o1, o2 \in Menus["PROG"].opens : o1.at = 12 /\ o1.at = o2.at => o1
       = o2
    <3>1. \A o \in Menus["PROG"].opens : o.at = 12 => o = Opens(1,
         "EVENT_LOG_MANAGEMENT", 12, [rtc |-> 0, sub |-> 0])
      BY <1>201, <1>213
    <3> QED BY <3>1
  <2>4. \A o1, o2 \in Menus["PROG"].opens : o1.at = 13 /\ o1.at = o2.at => o1
       = o2
    <3>1. \A o \in Menus["PROG"].opens : o.at = 13 => o = Opens(2,
         "NETWORK_COMMUNICATION", 13, [sub |-> 0])
      BY <1>201, <1>213
    <3> QED BY <3>1
  <2>5. \A o1, o2 \in Menus["PROG"].opens : o1.at = 14 /\ o1.at = o2.at => o1
       = o2
    <3>1. \A o \in Menus["PROG"].opens : o.at = 14 => o = Opens(3,
         "SECURITY_DEVICE_INTEGRATION", 14, <<>>)
      BY <1>201, <1>213
    <3> QED BY <3>1
  <2>6. \A o1, o2 \in Menus["PROG"].opens : o1.at = 15 /\ o1.at = o2.at => o1
       = o2
    <3>1. \A o \in Menus["PROG"].opens : o.at = 15 => o = Opens(4,
         "POWER_MANAGEMENT", 15, <<>>)
      BY <1>201, <1>213
    <3> QED BY <3>1
  <2>7. \A o1, o2 \in Menus["PROG"].opens : o1.at = 16 /\ o1.at = o2.at => o1
       = o2
    <3>1. \A o \in Menus["PROG"].opens : o.at = 16 => o = Opens(5,
         "SYSTEM_SETTINGS", 16, <<>>)
      BY <1>201, <1>213
    <3> QED BY <3>1
  <2>8. \A o1, o2 \in Menus["PROG"].opens : o1.at = 17 /\ o1.at = o2.at => o1
       = o2
    <3>1. \A o \in Menus["PROG"].opens : o.at = 17 => o = Opens(6,
         "SYSTEM_TEST", 17, [sub |-> 0])
      BY <1>201, <1>213
    <3> QED BY <3>1
  <2>9. \A o1, o2 \in Menus["PROG"].opens : o1.at = 18 /\ o1.at = o2.at => o1
       = o2
    <3>1. \A o \in Menus["PROG"].opens : o.at = 18 => o = Opens(7,
         "PROTOCOL_CONFIGURATION", 18, [sub |-> 0])
      BY <1>201, <1>213
    <3> QED BY <3>1
  <2>10. \A o1, o2 \in Menus["PROG"].opens : o1.at = 19 /\ o1.at = o2.at => o1
       = o2
    <3>1. \A o \in Menus["PROG"].opens : o.at = 19 => o = Opens(8,
         "DEVICE_PROVISIONING", 19, [sub |-> 0])
      BY <1>201, <1>213
    <3> QED BY <3>1
  <2>11. \A o1, o2 \in Menus["PROG"].opens : o1.at = 20 /\ o1.at = o2.at => o1
       = o2
    <3>1. \A o \in Menus["PROG"].opens : o.at = 20 => o = Opens(9,
         "OTA_UPDATE", 20, [sub |-> 0])
      BY <1>201, <1>213
    <3> QED BY <3>1
  <2> QED BY <2>1, <2>2, <2>3, <2>4, <2>5, <2>6, <2>7, <2>8, <2>9, <2>10, <2>11
<1>216. Menus["DEVICE_CONFIGURATION"].opens = {Opens(0, "NORMAL_ZONE", 4, [rtc
     |-> 0, zone |-> 0, ssub |-> 0]), Opens(1, "POWER_ZONE", 5, [rtc |-> 0,
     zone |-> 0, ssub |-> 0]), Opens(2, "OUTPUT_MANAGEMENT", 6, [rtc |-> 0,
     zone |-> 0])}
  BY MenuOf DEF DEVICE_CONFIGURATION, Menu
<1>217. Fits("DEVICE_CONFIGURATION", Opens(0, "NORMAL_ZONE", 4, [rtc |-> 0,
     zone |-> 0, ssub |-> 0]))
  BY <1>2, <1>12, MenuNames DEF Row, Fits, Opens
<1>218. Fits("DEVICE_CONFIGURATION", Opens(1, "POWER_ZONE", 5, [rtc |-> 0,
     zone |-> 0, ssub |-> 0]))
  BY <1>2, <1>13, MenuNames DEF Row, Fits, Opens
<1>219. Fits("DEVICE_CONFIGURATION", Opens(2, "OUTPUT_MANAGEMENT", 6, [rtc |->
     0, zone |-> 0]))
  BY <1>2, <1>14, MenuNames DEF Row, Fits, Opens
<1>220. \A o \in Menus["DEVICE_CONFIGURATION"].opens :
     Fits("DEVICE_CONFIGURATION", o)
  BY <1>216, <1>217, <1>218, <1>219
<1>221.
     /\ Opens(0, "NORMAL_ZONE", 4, [rtc |-> 0, zone |-> 0, ssub |-> 0]).at = 4
     /\ Opens(0, "NORMAL_ZONE", 4, [rtc |-> 0, zone |-> 0, ssub |-> 0]).menu =
          "NORMAL_ZONE"
     /\ Opens(1, "POWER_ZONE", 5, [rtc |-> 0, zone |-> 0, ssub |-> 0]).at = 5
     /\ Opens(1, "POWER_ZONE", 5, [rtc |-> 0, zone |-> 0, ssub |-> 0]).menu =
          "POWER_ZONE"
     /\ Opens(2, "OUTPUT_MANAGEMENT", 6, [rtc |-> 0, zone |-> 0]).at = 6
     /\ Opens(2, "OUTPUT_MANAGEMENT", 6, [rtc |-> 0, zone |-> 0]).menu =
          "OUTPUT_MANAGEMENT"
  BY DEF Opens
<1>222. \A m \in {"NORMAL_ZONE", "POWER_ZONE", "OUTPUT_MANAGEMENT"} : \E o \in
     Menus["DEVICE_CONFIGURATION"].opens : o.menu = m
  BY <1>216, <1>221
<1>223. \A o1, o2 \in Menus["DEVICE_CONFIGURATION"].opens : o1.at = o2.at =>
     o1 = o2
  BY <1>216, <1>221
<1>224. Menus["EVENT_LOG_MANAGEMENT"].opens = {Opens(0, "LOGS", 4, [rtc |-> 0,
     ssub |-> 0]), Opens(1, "EVENT_REPORTS", 5, [rtc |-> 0, ssub |-> 0]),
     Opens(2, "CLEAR_REPORTS", 6, [rtc |-> 0, ssub |-> 0])}
  BY MenuOf DEF EVENT_LOG_MANAGEMENT, Menu
<1>225. Fits("EVENT_LOG_MANAGEMENT", Opens(0, "LOGS", 4, [rtc |-> 0, ssub |->
     0]))
  BY <1>3, <1>15, MenuNames DEF Row, Fits, Opens
<1>226. Fits("EVENT_LOG_MANAGEMENT", Opens(1, "EVENT_REPORTS", 5, [rtc |-> 0,
     ssub |-> 0]))
  BY <1>3, <1>16, MenuNames DEF Row, Fits, Opens
<1>227. Fits("EVENT_LOG_MANAGEMENT", Opens(2, "CLEAR_REPORTS", 6, [rtc |-> 0,
     ssub |-> 0]))
  BY <1>3, <1>17, MenuNames DEF Row, Fits, Opens
<1>228. \A o \in Menus["EVENT_LOG_MANAGEMENT"].opens :
     Fits("EVENT_LOG_MANAGEMENT", o)
  BY <1>224, <1>225, <1>226, <1>227
<1>229.
     /\ Opens(0, "LOGS", 4, [rtc |-> 0, ssub |-> 0]).at = 4
     /\ Opens(0, "LOGS", 4, [rtc |-> 0, ssub |-> 0]).menu = "LOGS"
     /\ Opens(1, "EVENT_REPORTS", 5, [rtc |-> 0, ssub |-> 0]).at = 5
     /\ Opens(1, "EVENT_REPORTS", 5, [rtc |-> 0, ssub |-> 0]).menu =
          "EVENT_REPORTS"
     /\ Opens(2, "CLEAR_REPORTS", 6, [rtc |-> 0, ssub |-> 0]).at = 6
     /\ Opens(2, "CLEAR_REPORTS", 6, [rtc |-> 0, ssub |-> 0]).menu =
          "CLEAR_REPORTS"
  BY DEF Opens
<1>230. \A m \in {"LOGS", "EVENT_REPORTS", "CLEAR_REPORTS"} : \E o \in
     Menus["EVENT_LOG_MANAGEMENT"].opens : o.menu = m
  BY <1>224, <1>229
<1>231. \A o1, o2 \in Menus["EVENT_LOG_MANAGEMENT"].opens : o1.at = o2.at =>
     o1 = o2
  BY <1>224, <1>229
<1>232. Menus["NETWORK_COMMUNICATION"].opens = {Opens(0, "eSIM_SETTINGS", 6,
     [rtc |-> 0, ssub |-> 0]), Opens(1, "GNSS_SETTINGS", 7, [rtc |-> 0, ssub
     |-> 0]), Opens(2, "DEVICE_CREDENTIAL_SETUP", 8, [rtc |-> 0, ssub |-> 0]),
     Opens(3, "LAN_SETUP", 9, [rtc |-> 0, ssub |-> 0]), Opens(4,
     "GSM_SETTINGS", 10, [rtc |-> 0, zone |-> 0, ssub |-> 0])}
  BY MenuOf DEF NETWORK_COMMUNICATION_SETTINGS, Menu
<1>233. Fits("NETWORK_COMMUNICATION", Opens(0, "eSIM_SETTINGS", 6, [rtc |-> 0,
     ssub |-> 0]))
  BY <1>4, <1>18, MenuNames DEF Row, Fits, Opens
<1>234. Fits("NETWORK_COMMUNICATION", Opens(1, "GNSS_SETTINGS", 7, [rtc |-> 0,
     ssub |-> 0]))
  BY <1>4, <1>19, MenuNames DEF Row, Fits, Opens
<1>235. Fits("NETWORK_COMMUNICATION", Opens(2, "DEVICE_CREDENTIAL_SETUP", 8,
     [rtc |-> 0, ssub |-> 0]))
  BY <1>4, <1>20, MenuNames DEF Row, Fits, Opens
<1>236. Fits("NETWORK_COMMUNICATION", Opens(3, "LAN_SETUP", 9, [rtc |-> 0,
     ssub |-> 0]))
  BY <1>4, <1>21, MenuNames DEF Row, Fits, Opens
<1>237. Fits("NETWORK_COMMUNICATION", Opens(4, "GSM_SETTINGS", 10, [rtc |-> 0,
     zone |-> 0, ssub |-> 0]))
  BY <1>4, <1>22, MenuNames DEF Row, Fits, Opens
<1>238. \A o \in Menus["NETWORK_COMMUNICATION"].opens :
     Fits("NETWORK_COMMUNICATION", o)
  BY <1>232, <1>233, <1>234, <1>235, <1>236, <1>237
<1>239.
     /\ Opens(0, "eSIM_SETTINGS", 6, [rtc |-> 0, ssub |-> 0]).at = 6
     /\ Opens(0, "eSIM_SETTINGS", 6, [rtc |-> 0, ssub |-> 0]).menu =
          "eSIM_SETTINGS"
     /\ Opens(1, "GNSS_SETTINGS", 7, [rtc |-> 0, ssub |-> 0]).at = 7
     /\ Opens(1, "GNSS_SETTINGS", 7, [rtc |-> 0, ssub |-> 0]).menu =
          "GNSS_SETTINGS"
     /\ Opens(2, "DEVICE_CREDENTIAL_SETUP", 8, [rtc |-> 0, ssub |-> 0]).at = 8
     /\ Opens(2, "DEVICE_CREDENTIAL_SETUP", 8, [rtc |-> 0, ssub |-> 0]).menu =
          "DEVICE_CREDENTIAL_SETUP"
     /\ Opens(3, "LAN_SETUP", 9, [rtc |-> 0, ssub |-> 0]).at = 9
     /\ Opens(3, "LAN_SETUP", 9, [rtc |-> 0, ssub |-> 0]).menu = "LAN_SETUP"
     /\ Opens(4, "GSM_SETTINGS", 10, [rtc |-> 0, zone |-> 0, ssub |-> 0]).at =
          10
     /\ Opens(4, "GSM_SETTINGS", 10, [rtc |-> 0, zone |-> 0, ssub |-> 0]).menu
          = "GSM_SETTINGS"
  BY DEF Opens
<1>240. \A m \in {"eSIM_SETTINGS", "GNSS_SETTINGS", "DEVICE_CREDENTIAL_SETUP",
     "LAN_SETUP", "GSM_SETTINGS"} : \E o \in
     Menus["NETWORK_COMMUNICATION"].opens : o.menu = m
  BY <1>232, <1>239
<1>241. \A o1, o2 \in Menus["NETWORK_COMMUNICATION"].opens : o1.at = o2.at =>
     o1 = o2
  BY <1>232, <1>239
<1>242. Menus["SECURITY_DEVICE_INTEGRATION"].opens = {Opens(0,
     "INTEGRATION_SETTINGS", 3, [rtc |-> 0, ssub |-> 0]), Opens(1,
     "DEVICE_MANAGEMENT", 4, [rtc |-> 0, ssub |-> 0])}
  BY MenuOf DEF SECURITY_DEVICE_INTEGRATION, Menu
<1>243. Fits("SECURITY_DEVICE_INTEGRATION", Opens(0, "INTEGRATION_SETTINGS",
     3, [rtc |-> 0, ssub |-> 0]))
  BY <1>5, <1>23, MenuNames DEF Row, Fits, Opens
<1>244. Fits("SECURITY_DEVICE_INTEGRATION", Opens(1, "DEVICE_MANAGEMENT", 4,
     [rtc |-> 0, ssub |-> 0]))
  BY <1>5, <1>24, MenuNames DEF Row, Fits, Opens
<1>245. \A o \in Menus["SECURITY_DEVICE_INTEGRATION"].opens :
     Fits("SECURITY_DEVICE_INTEGRATION", o)
  BY <1>242, <1>243, <1>244
<1>246.
     /\ Opens(0, "INTEGRATION_SETTINGS", 3, [rtc |-> 0, ssub |-> 0]).at = 3
     /\ Opens(0, "INTEGRATION_SETTINGS", 3, [rtc |-> 0, ssub |-> 0]).menu =
          "INTEGRATION_SETTINGS"
     /\ Opens(1, "DEVICE_MANAGEMENT", 4, [rtc |-> 0, ssub |-> 0]).at = 4
     /\ Opens(1, "DEVICE_MANAGEMENT", 4, [rtc |-> 0, ssub |-> 0]).menu =
          "DEVICE_MANAGEMENT"
  BY DEF Opens
<1>247. \A m \in {"INTEGRATION_SETTINGS", "DEVICE_MANAGEMENT"} : \E o \in
     Menus["SECURITY_DEVICE_INTEGRATION"].opens : o.menu = m
  BY <1>242, <1>246
<1>248. \A o1, o2 \in Menus["SECURITY_DEVICE_INTEGRATION"].opens : o1.at =
     o2.at => o1 = o2
  BY <1>242, <1>246
<1>249. Menus["POWER_MANAGEMENT"].opens = {Opens(0, "LOW_BATTERY", 3, [rtc |->
     0, sssub |-> 0]), Opens(1, "POWER_BACKUP", 4, [ssub |-> 0, sssub |-> 0])}
  BY MenuOf DEF POWER_MANAGEMENT, Menu
<1>250. Fits("POWER_MANAGEMENT", Opens(0, "LOW_BATTERY", 3, [rtc |-> 0, sssub
     |-> 0]))
  BY <1>6, <1>26, MenuNames DEF Row, Fits, Opens
<1>251. Fits("POWER_MANAGEMENT", Opens(1, "POWER_BACKUP", 4, [ssub |-> 0,
     sssub |-> 0]))
  BY <1>6, <1>27, MenuNames DEF Row, Fits, Opens
<1>252. \A o \in Menus["POWER_MANAGEMENT"].opens : Fits("POWER_MANAGEMENT", o)
  BY <1>249, <1>250, <1>251
<1>253.
     /\ Opens(0, "LOW_BATTERY", 3, [rtc |-> 0, sssub |-> 0]).at = 3
     /\ Opens(0, "LOW_BATTERY", 3, [rtc |-> 0, sssub |-> 0]).menu =
          "LOW_BATTERY"
     /\ Opens(1, "POWER_BACKUP", 4, [ssub |-> 0, sssub |-> 0]).at = 4
     /\ Opens(1, "POWER_BACKUP", 4, [ssub |-> 0, sssub |-> 0]).menu =
          "POWER_BACKUP"
  BY DEF Opens
<1>254. \A m \in {"LOW_BATTERY", "POWER_BACKUP"} : \E o \in
     Menus["POWER_MANAGEMENT"].opens : o.menu = m
  BY <1>249, <1>253
<1>255. \A o1, o2 \in Menus["POWER_MANAGEMENT"].opens : o1.at = o2.at => o1 =
     o2
  BY <1>249, <1>253
<1>256. Menus["SYSTEM_SETTINGS"].opens = {Opens(0, "GENERAL_SETTINGS", 4, [rtc
     |-> 0, ssub |-> 0]), Opens(1, "MAINTENANCE", 5, [rtc |-> 0, ssub |-> 0]),
     Opens(2, "ADVANCE_SETTINGS", 6, [rtc |-> 0, ssub |-> 0])}
  BY MenuOf DEF SYSTEM_SETTINGS, Menu
<1>257. Fits("SYSTEM_SETTINGS", Opens(0, "GENERAL_SETTINGS", 4, [rtc |-> 0,
     ssub |-> 0]))
  BY <1>7, <1>28, MenuNames DEF Row, Fits, Opens
<1>258. Fits("SYSTEM_SETTINGS", Opens(1, "MAINTENANCE", 5, [rtc |-> 0, ssub
     |-> 0]))
  BY <1>7, <1>29, MenuNames DEF Row, Fits, Opens
<1>259. Fits("SYSTEM_SETTINGS", Opens(2, "ADVANCE_SETTINGS", 6, [rtc |-> 0,
     ssub |-> 0]))
  BY <1>7, <1>30, MenuNames DEF Row, Fits, Opens
<1>260. \A o \in Menus["SYSTEM_SETTINGS"].opens : Fits("SYSTEM_SETTINGS", o)
  BY <1>256, <1>257, <1>258, <1>259
<1>261.
     /\ Opens(0, "GENERAL_SETTINGS", 4, [rtc |-> 0, ssub |-> 0]).at = 4
     /\ Opens(0, "GENERAL_SETTINGS", 4, [rtc |-> 0, ssub |-> 0]).menu =
          "GENERAL_SETTINGS"
     /\ Opens(1, "MAINTENANCE", 5, [rtc |-> 0, ssub |-> 0]).at = 5
     /\ Opens(1, "MAINTENANCE", 5, [rtc |-> 0, ssub |-> 0]).menu =
          "MAINTENANCE"
     /\ Opens(2, "ADVANCE_SETTINGS", 6, [rtc |-> 0, ssub |-> 0]).at = 6
     /\ Opens(2, "ADVANCE_SETTINGS", 6, [rtc |-> 0, ssub |-> 0]).menu =
          "ADVANCE_SETTINGS"
  BY DEF Opens
<1>262. \A m \in {"GENERAL_SETTINGS", "MAINTENANCE", "ADVANCE_SETTINGS"} : \E
     o \in Menus["SYSTEM_SETTINGS"].opens : o.menu = m
  BY <1>256, <1>261
<1>263. \A o1, o2 \in Menus["SYSTEM_SETTINGS"].opens : o1.at = o2.at => o1 = o2
  BY <1>256, <1>261
<1>264. Menus["SYSTEM_TEST"].opens = {}
  BY MenuOf DEF SYSTEM_TEST, Menu
<1>265. Menus["PROTOCOL_CONFIGURATION"].opens = {Opens(0, "PROTOCOL_SETTINGS",
     2, [rtc |-> 0, ssub |-> 0])}
  BY MenuOf DEF PROTOCOL_CONFIGURATION, Menu
<1>266. Fits("PROTOCOL_CONFIGURATION", Opens(0, "PROTOCOL_SETTINGS", 2, [rtc
     |-> 0, ssub |-> 0]))
  BY <1>9, <1>33, MenuNames DEF Row, Fits, Opens
<1>267. \A o \in Menus["PROTOCOL_CONFIGURATION"].opens :
     Fits("PROTOCOL_CONFIGURATION", o)
  BY <1>265, <1>266
<1>268.
     /\ Opens(0, "PROTOCOL_SETTINGS", 2, [rtc |-> 0, ssub |-> 0]).at = 2
     /\ Opens(0, "PROTOCOL_SETTINGS", 2, [rtc |-> 0, ssub |-> 0]).menu =
          "PROTOCOL_SETTINGS"
  BY DEF Opens
<1>269. \A m \in {"PROTOCOL_SETTINGS"} : \E o \in
     Menus["PROTOCOL_CONFIGURATION"].opens : o.menu = m
  BY <1>265, <1>268
<1>270. \A o1, o2 \in Menus["PROTOCOL_CONFIGURATION"].opens : o1.at = o2.at =>
     o1 = o2
  BY <1>265, <1>268
<1>271. Menus["DEVICE_PROVISIONING"].opens = {Opens(0, "SOL_ID", 3, [ssub |->
     0]), Opens(1, "DEVICE_PVSN", 4, [rtc |-> 0, ssub |-> 0])}
  BY MenuOf DEF DEVICE_PROVISIONING, Menu
<1>272. Fits("DEVICE_PROVISIONING", Opens(0, "SOL_ID", 3, [ssub |-> 0]))
  BY <1>10, <1>31, MenuNames DEF Row, Fits, Opens
<1>273. Fits("DEVICE_PROVISIONING", Opens(1, "DEVICE_PVSN", 4, [rtc |-> 0,
     ssub |-> 0]))
  BY <1>10, <1>32, MenuNames DEF Row, Fits, Opens
<1>274. \A o \in Menus["DEVICE_PROVISIONING"].opens :
     Fits("DEVICE_PROVISIONING", o)
  BY <1>271, <1>272, <1>273
<1>275.
     /\ Opens(0, "SOL_ID", 3, [ssub |-> 0]).at = 3
     /\ Opens(0, "SOL_ID", 3, [ssub |-> 0]).menu = "SOL_ID"
     /\ Opens(1, "DEVICE_PVSN", 4, [rtc |-> 0, ssub |-> 0]).at = 4
     /\ Opens(1, "DEVICE_PVSN", 4, [rtc |-> 0, ssub |-> 0]).menu =
          "DEVICE_PVSN"
  BY DEF Opens
<1>276. \A m \in {"SOL_ID", "DEVICE_PVSN"} : \E o \in
     Menus["DEVICE_PROVISIONING"].opens : o.menu = m
  BY <1>271, <1>275
<1>277. \A o1, o2 \in Menus["DEVICE_PROVISIONING"].opens : o1.at = o2.at => o1
     = o2
  BY <1>271, <1>275
<1>278. Menus["OTA_UPDATE"].opens = {}
  BY MenuOf DEF OTA_UPDATE, Menu
<1>279. Menus["NORMAL_ZONE"].opens = {}
  BY MenuOf DEF progZoneSettings, Menu
<1>280. Menus["POWER_ZONE"].opens = {}
  BY MenuOf DEF progPowerZoneSettings, Menu
<1>281. Menus["OUTPUT_MANAGEMENT"].opens = {}
  BY MenuOf DEF outputManagement, Menu
<1>282. Menus["LOGS"].opens = {}
  BY MenuOf DEF LOGS_PROG, Menu
<1>283. Menus["EVENT_REPORTS"].opens = {}
  BY MenuOf DEF EVENT_REPORTS_PROG, Menu
<1>284. Menus["CLEAR_REPORTS"].opens = {}
  BY MenuOf DEF DELETE_LOGS_PROG, Menu
<1>285. Menus["eSIM_SETTINGS"].opens = {}
  BY MenuOf DEF eSIMSettings, Menu
<1>286. Menus["GNSS_SETTINGS"].opens = {}
  BY MenuOf DEF GNSSSettings, Menu
<1>287. Menus["DEVICE_CREDENTIAL_SETUP"].opens = {Opens(0, "CLIENT_ID", 5,
     [sssub |-> 0]), Opens(1, "USER_NAME", 6, [sssub |-> 0]), Opens(2,
     "PASSWORD", 7, [sssub |-> 0]), Opens(3, "ACCESS_TOKEN", 8, [sssub |->
     0])}
  BY MenuOf DEF DEVICE_CREDENTIAL_SETUP, Menu
<1>288. Fits("DEVICE_CREDENTIAL_SETUP", Opens(0, "CLIENT_ID", 5, [sssub |->
     0]))
  BY <1>20, <1>38, MenuNames DEF Row, Fits, Opens
<1>289. Fits("DEVICE_CREDENTIAL_SETUP", Opens(1, "USER_NAME", 6, [sssub |->
     0]))
  BY <1>20, <1>39, MenuNames DEF Row, Fits, Opens
<1>290. Fits("DEVICE_CREDENTIAL_SETUP", Opens(2, "PASSWORD", 7, [sssub |-> 0]))
  BY <1>20, <1>40, MenuNames DEF Row, Fits, Opens
<1>291. Fits("DEVICE_CREDENTIAL_SETUP", Opens(3, "ACCESS_TOKEN", 8, [sssub |->
     0]))
  BY <1>20, <1>41, MenuNames DEF Row, Fits, Opens
<1>292. \A o \in Menus["DEVICE_CREDENTIAL_SETUP"].opens :
     Fits("DEVICE_CREDENTIAL_SETUP", o)
  BY <1>287, <1>288, <1>289, <1>290, <1>291
<1>293.
     /\ Opens(0, "CLIENT_ID", 5, [sssub |-> 0]).at = 5
     /\ Opens(0, "CLIENT_ID", 5, [sssub |-> 0]).menu = "CLIENT_ID"
     /\ Opens(1, "USER_NAME", 6, [sssub |-> 0]).at = 6
     /\ Opens(1, "USER_NAME", 6, [sssub |-> 0]).menu = "USER_NAME"
     /\ Opens(2, "PASSWORD", 7, [sssub |-> 0]).at = 7
     /\ Opens(2, "PASSWORD", 7, [sssub |-> 0]).menu = "PASSWORD"
     /\ Opens(3, "ACCESS_TOKEN", 8, [sssub |-> 0]).at = 8
     /\ Opens(3, "ACCESS_TOKEN", 8, [sssub |-> 0]).menu = "ACCESS_TOKEN"
  BY DEF Opens
<1>294. \A m \in {"CLIENT_ID", "USER_NAME", "PASSWORD", "ACCESS_TOKEN"} : \E o
     \in Menus["DEVICE_CREDENTIAL_SETUP"].opens : o.menu = m
  BY <1>287, <1>293
<1>295. \A o1, o2 \in Menus["DEVICE_CREDENTIAL_SETUP"].opens : o1.at = o2.at
     => o1 = o2
  BY <1>287, <1>293
<1>296. Menus["LAN_SETUP"].opens = {}
  BY MenuOf DEF networkSettings, Menu
<1>297. Menus["GSM_SETTINGS"].opens = {}
  BY MenuOf DEF GSMSettings, Menu
<1>298. Menus["INTEGRATION_SETTINGS"].opens = {Opens(1, "ACTIVE_INTEGR", 4,
     [sssub |-> 0])}
  BY MenuOf DEF INTEGRATION_SETTINGS, Menu
<1>299. Fits("INTEGRATION_SETTINGS", Opens(1, "ACTIVE_INTEGR", 4, [sssub |->
     0]))
  BY <1>23, <1>25, MenuNames DEF Row, Fits, Opens
<1>300. \A o \in Menus["INTEGRATION_SETTINGS"].opens :
     Fits("INTEGRATION_SETTINGS", o)
  BY <1>298, <1>299
<1>301.
     /\ Opens(1, "ACTIVE_INTEGR", 4, [sssub |-> 0]).at = 4
     /\ Opens(1, "ACTIVE_INTEGR", 4, [sssub |-> 0]).menu = "ACTIVE_INTEGR"
  BY DEF Opens
<1>302. \A m \in {"ACTIVE_INTEGR"} : \E o \in
     Menus["INTEGRATION_SETTINGS"].opens : o.menu = m
  BY <1>298, <1>301
<1>303. \A o1, o2 \in Menus["INTEGRATION_SETTINGS"].opens : o1.at = o2.at =>
     o1 = o2
  BY <1>298, <1>301
<1>304. Menus["DEVICE_MANAGEMENT"].opens = {}
  BY MenuOf DEF DEVICE_MANAGEMENT_PROG, Menu
<1>305. Menus["ACTIVE_INTEGR"].opens = {Opens(0, "HIKVISION_NVR", 13, [ssssub
     |-> 0]), Opens(1, "HIKVISION_BACS", 14, [ssssub |-> 0]), Opens(2,
     "DAHUA_NVR", 15, [ssssub |-> 0]), Opens(3, "CP_PLUS_NVR", 16, [ssssub |->
     0]), Opens(4, "TEXECOM_BAS", 17, [ssssub |-> 0]), Opens(5, "HIK_BAS", 18,
     [ssssub |-> 0])}
  BY MenuOf DEF ACTIVE_INTEGR, Menu
<1>306. Fits("ACTIVE_INTEGR", Opens(0, "HIKVISION_NVR", 13, [ssssub |-> 0]))
  BY <1>25, <1>42, MenuNames DEF Row, Fits, Opens
<1>307. Fits("ACTIVE_INTEGR", Opens(1, "HIKVISION_BACS", 14, [ssssub |-> 0]))
  BY <1>25, <1>43, MenuNames DEF Row, Fits, Opens
<1>308. Fits("ACTIVE_INTEGR", Opens(2, "DAHUA_NVR", 15, [ssssub |-> 0]))
  BY <1>25, <1>44, MenuNames DEF Row, Fits, Opens
<1>309. Fits("ACTIVE_INTEGR", Opens(3, "CP_PLUS_NVR", 16, [ssssub |-> 0]))
  BY <1>25, <1>45, MenuNames DEF Row, Fits, Opens
<1>310. Fits("ACTIVE_INTEGR", Opens(4, "TEXECOM_BAS", 17, [ssssub |-> 0]))
  BY <1>25, <1>46, MenuNames DEF Row, Fits, Opens
<1>311. Fits("ACTIVE_INTEGR", Opens(5, "HIK_BAS", 18, [ssssub |-> 0]))
  BY <1>25, <1>47, MenuNames DEF Row, Fits, Opens
<1>312. \A o \in Menus["ACTIVE_INTEGR"].opens : Fits("ACTIVE_INTEGR", o)
  BY <1>305, <1>306, <1>307, <1>308, <1>309, <1>310, <1>311
<1>313.
     /\ Opens(0, "HIKVISION_NVR", 13, [ssssub |-> 0]).at = 13
     /\ Opens(0, "HIKVISION_NVR", 13, [ssssub |-> 0]).menu = "HIKVISION_NVR"
     /\ Opens(1, "HIKVISION_BACS", 14, [ssssub |-> 0]).at = 14
     /\ Opens(1, "HIKVISION_BACS", 14, [ssssub |-> 0]).menu = "HIKVISION_BACS"
     /\ Opens(2, "DAHUA_NVR", 15, [ssssub |-> 0]).at = 15
     /\ Opens(2, "DAHUA_NVR", 15, [ssssub |-> 0]).menu = "DAHUA_NVR"
     /\ Opens(3, "CP_PLUS_NVR", 16, [ssssub |-> 0]).at = 16
     /\ Opens(3, "CP_PLUS_NVR", 16, [ssssub |-> 0]).menu = "CP_PLUS_NVR"
     /\ Opens(4, "TEXECOM_BAS", 17, [ssssub |-> 0]).at = 17
     /\ Opens(4, "TEXECOM_BAS", 17, [ssssub |-> 0]).menu = "TEXECOM_BAS"
     /\ Opens(5, "HIK_BAS", 18, [ssssub |-> 0]).at = 18
     /\ Opens(5, "HIK_BAS", 18, [ssssub |-> 0]).menu = "HIK_BAS"
  BY DEF Opens
<1>314. \A m \in {"HIKVISION_NVR", "HIKVISION_BACS", "DAHUA_NVR",
     "CP_PLUS_NVR", "TEXECOM_BAS", "HIK_BAS"} : \E o \in
     Menus["ACTIVE_INTEGR"].opens : o.menu = m
  BY <1>305, <1>313
<1>315. \A o1, o2 \in Menus["ACTIVE_INTEGR"].opens : o1.at = o2.at => o1 = o2
  BY <1>305, <1>313
<1>316. Menus["LOW_BATTERY"].opens = {}
  BY MenuOf DEF lowBatteryProg, Menu
<1>317. Menus["POWER_BACKUP"].opens = {}
  BY MenuOf DEF POWER_BACKUP_PROG, Menu
<1>318. Menus["GENERAL_SETTINGS"].opens = {Opens(0, "DATE_TIME", 5, [rtc |->
     0]), Opens(1, "PSWD_CHANGE", 6, [sssub |-> 0]), Opens(2, "SITE_NAME", 7,
     [rtc |-> 0, sssub |-> 0]), Opens(3, "BRAND_NAME", 8, [rtc |-> 0, sssub
     |-> 0])}
  BY MenuOf DEF GENERAL_SETTINGS, Menu
<1>319. Fits("GENERAL_SETTINGS", Opens(0, "DATE_TIME", 5, [rtc |-> 0]))
  BY <1>28, <1>34, MenuNames DEF Row, Fits, Opens
<1>320. Fits("GENERAL_SETTINGS", Opens(1, "PSWD_CHANGE", 6, [sssub |-> 0]))
  BY <1>28, <1>35, MenuNames DEF Row, Fits, Opens
<1>321. Fits("GENERAL_SETTINGS", Opens(2, "SITE_NAME", 7, [rtc |-> 0, sssub
     |-> 0]))
  BY <1>28, <1>36, MenuNames DEF Row, Fits, Opens
<1>322. Fits("GENERAL_SETTINGS", Opens(3, "BRAND_NAME", 8, [rtc |-> 0, sssub
     |-> 0]))
  BY <1>28, <1>37, MenuNames DEF Row, Fits, Opens
<1>323. \A o \in Menus["GENERAL_SETTINGS"].opens : Fits("GENERAL_SETTINGS", o)
  BY <1>318, <1>319, <1>320, <1>321, <1>322
<1>324.
     /\ Opens(0, "DATE_TIME", 5, [rtc |-> 0]).at = 5
     /\ Opens(0, "DATE_TIME", 5, [rtc |-> 0]).menu = "DATE_TIME"
     /\ Opens(1, "PSWD_CHANGE", 6, [sssub |-> 0]).at = 6
     /\ Opens(1, "PSWD_CHANGE", 6, [sssub |-> 0]).menu = "PSWD_CHANGE"
     /\ Opens(2, "SITE_NAME", 7, [rtc |-> 0, sssub |-> 0]).at = 7
     /\ Opens(2, "SITE_NAME", 7, [rtc |-> 0, sssub |-> 0]).menu = "SITE_NAME"
     /\ Opens(3, "BRAND_NAME", 8, [rtc |-> 0, sssub |-> 0]).at = 8
     /\ Opens(3, "BRAND_NAME", 8, [rtc |-> 0, sssub |-> 0]).menu = "BRAND_NAME"
  BY DEF Opens
<1>325. \A m \in {"DATE_TIME", "PSWD_CHANGE", "SITE_NAME", "BRAND_NAME"} : \E
     o \in Menus["GENERAL_SETTINGS"].opens : o.menu = m
  BY <1>318, <1>324
<1>326. \A o1, o2 \in Menus["GENERAL_SETTINGS"].opens : o1.at = o2.at => o1 =
     o2
  BY <1>318, <1>324
<1>327. Menus["MAINTENANCE"].opens = {}
  BY MenuOf DEF MAINTENANCE_PROG, Menu
<1>328. Menus["ADVANCE_SETTINGS"].opens = {}
  BY MenuOf DEF ADVANCE_SETTINGS_PROG, Menu
<1>329. Menus["SOL_ID"].opens = {}
  BY MenuOf DEF SOL_ID_PROG, Menu
<1>330. Menus["DEVICE_PVSN"].opens = {}
  BY MenuOf DEF DEVICE_PVSN_PROG, Menu
<1>331. Menus["PROTOCOL_SETTINGS"].opens = {}
  BY MenuOf DEF PROTOCOL_SETTINGS_PROG, Menu
<1>332. Menus["DATE_TIME"].opens = {}
  BY MenuOf DEF progRTCsettings, Menu
<1>333. Menus["PSWD_CHANGE"].opens = {}
  BY MenuOf DEF adminPassword, Menu
<1>334. Menus["SITE_NAME"].opens = {}
  BY MenuOf DEF SubMenuBranchAddress, Menu
<1>335. Menus["BRAND_NAME"].opens = {}
  BY MenuOf DEF SubMenuBrandAddress, Menu
<1>336. Menus["CLIENT_ID"].opens = {}
  BY MenuOf DEF SubMenuClientAddress, Menu
<1>337. Menus["USER_NAME"].opens = {}
  BY MenuOf DEF SubMenuUserName, Menu
<1>338. Menus["PASSWORD"].opens = {}
  BY MenuOf DEF SubMenuPassword, Menu
<1>339. Menus["ACCESS_TOKEN"].opens = {}
  BY MenuOf DEF SubMenuAccessToken, Menu
<1>340. Menus["HIKVISION_NVR"].opens = {}
  BY MenuOf DEF HIKVISION_NVR_PROG, Menu
<1>341. Menus["HIKVISION_BACS"].opens = {}
  BY MenuOf DEF HIKVISION_BACS_PROG, Menu
<1>342. Menus["DAHUA_NVR"].opens = {}
  BY MenuOf DEF DAHUA_NVR_PROG, Menu
<1>343. Menus["CP_PLUS_NVR"].opens = {}
  BY MenuOf DEF CP_PLUS_NVR_PROG, Menu
<1>344. Menus["TEXECOM_BAS"].opens = {}
  BY MenuOf DEF TEXECOM_BAS_PROG, Menu
<1>345. Menus["HIK_BAS"].opens = {}
  BY MenuOf DEF HIK_BAS_PROG, Menu
<1>401. \A m \in DOMAIN Menus : WellFormed(m)
  BY MenuNames, <1>101, <1>102, <1>103, <1>104, <1>105, <1>106, <1>107,
       <1>108, <1>109, <1>110, <1>111, <1>112, <1>113, <1>114, <1>115, <1>116,
       <1>117, <1>118, <1>119, <1>120, <1>121, <1>122, <1>123, <1>124, <1>125,
       <1>126, <1>127, <1>128, <1>129, <1>130, <1>131, <1>132, <1>133, <1>134,
       <1>135, <1>136, <1>137, <1>138, <1>139, <1>140, <1>141, <1>142, <1>143,
       <1>144, <1>145, <1>146, <1>147
<1>402. \A p \in DOMAIN Menus : \A o \in Menus[p].opens : Fits(p, o)
  BY MenuNames, <1>212, <1>220, <1>228, <1>238, <1>245, <1>252, <1>260,
       <1>264, <1>267, <1>274, <1>278, <1>279, <1>280, <1>281, <1>282, <1>283,
       <1>284, <1>285, <1>286, <1>292, <1>296, <1>297, <1>300, <1>304, <1>312,
       <1>316, <1>317, <1>323, <1>327, <1>328, <1>329, <1>330, <1>331, <1>332,
       <1>333, <1>334, <1>335, <1>336, <1>337, <1>338, <1>339, <1>340, <1>341,
       <1>342, <1>343, <1>344, <1>345
<1>403. \A p \in DOMAIN Menus : \A o1, o2 \in Menus[p].opens : o1.at = o2.at
     => o1 = o2
  BY MenuNames, <1>215, <1>223, <1>231, <1>241, <1>248, <1>255, <1>263,
       <1>264, <1>270, <1>277, <1>278, <1>279, <1>280, <1>281, <1>282, <1>283,
       <1>284, <1>285, <1>286, <1>295, <1>296, <1>297, <1>303, <1>304, <1>315,
       <1>316, <1>317, <1>326, <1>327, <1>328, <1>329, <1>330, <1>331, <1>332,
       <1>333, <1>334, <1>335, <1>336, <1>337, <1>338, <1>339, <1>340, <1>341,
       <1>342, <1>343, <1>344, <1>345
<1>404. \A m \in DOMAIN Menus \ {"PROG"} : \E p \in DOMAIN Menus : \E o \in
     Menus[p].opens : o.menu = m
  BY MenuNames, <1>214, <1>222, <1>230, <1>240, <1>247, <1>254, <1>262,
       <1>269, <1>276, <1>294, <1>302, <1>314, <1>325
<1> QED BY <1>401, <1>402, <1>403, <1>404

-----------------------------------------------------------------------------
(* The function that runs.                                                 *)

\* The variables above menu m hold the numbers of the menus on the way to it.
OnPath(m) == \A x \in DOMAIN Paths[m] : st[x] = Paths[m][x]

LEMMA ChildIs ==
  ASSUME NEW p \in DOMAIN Menus
  PROVE  /\ DOMAIN Child[p] = { o.at : o \in Menus[p].opens }
         /\ \A o \in Menus[p].opens : Child[p][o.at] = o.menu
<1>1. Child[p] = [v \in { o.at : o \in Menus[p].opens } |->
                    (CHOOSE o \in Menus[p].opens : o.at = v).menu]
  BY DEF Child
<1>2. ASSUME NEW o \in Menus[p].opens PROVE Child[p][o.at] = o.menu
  <2> DEFINE c == CHOOSE q \in Menus[p].opens : q.at = o.at
  <2>1. c \in Menus[p].opens /\ c.at = o.at
    OBVIOUS
  <2>2. c = o
    BY <2>1, MenuTree
  <2>3. Child[p][o.at] = c.menu
    BY <1>1
  <2> QED BY <2>2, <2>3
<1> QED BY <1>1, <1>2

LEMMA CalledStays ==
  ASSUME NEW m \in DOMAIN Menus,
         st[Menus[m].slot] \in 0..Menus[m].exit \/ Menus[m].opens = {}
  PROVE  Called(m) = m
<1>1. \A o \in Menus[m].opens : o.at \in Int /\ o.at > Menus[m].exit /\ Menus[m].exit \in Nat
  BY MenuTree DEF Fits, WellFormed
<1>2. st[Menus[m].slot] \notin DOMAIN Child[m]
  BY <1>1, ChildIs
<1> QED BY <1>2 DEF Called

LEMMA CalledOpens ==
  ASSUME NEW p \in DOMAIN Menus, NEW o \in Menus[p].opens, st[Menus[p].slot] = o.at
  PROVE  Called(p) = o.menu
BY ChildIs DEF Called

LEMMA CalledCases ==
  ASSUME NEW m \in DOMAIN Menus
  PROVE  \/ Called(m) = m
         \/ \E o \in Menus[m].opens : st[Menus[m].slot] = o.at /\ Called(m) = o.menu
BY ChildIs DEF Called

LEMMA CalledOnPath ==
  ASSUME NEW m \in DOMAIN Menus, OnPath(m)
  PROVE  Called(m) \in DOMAIN Menus /\ OnPath(Called(m))
<1>1. CASE Called(m) = m
  BY <1>1
<1>2. ASSUME NEW o \in Menus[m].opens, st[Menus[m].slot] = o.at, Called(m) = o.menu
      PROVE  Called(m) \in DOMAIN Menus /\ OnPath(Called(m))
  <2>1. Fits(m, o)
    BY MenuTree
  <2>2. o.menu \in DOMAIN Menus
    BY <2>1 DEF Fits
  <2>3. /\ DOMAIN Paths[o.menu] = DOMAIN Paths[m] \cup {Menus[m].slot}
        /\ Paths[o.menu][Menus[m].slot] = o.at
        /\ \A x \in DOMAIN Paths[m] : Paths[o.menu][x] = Paths[m][x]
    BY <2>1 DEF Fits
  <2>4. OnPath(o.menu)
    BY <2>3, <1>2 DEF OnPath
  <2> QED BY <2>2, <2>4, <1>2
<1> QED BY <1>1, <1>2, CalledCases

LEMMA RootOnPath == "PROG" \in DOMAIN Menus /\ OnPath("PROG")
BY MenuNames, MenuTree DEF WellFormed, OnPath

LEMMA ActiveOnPath == Active \in DOMAIN Menus /\ OnPath(Active)
<1> DEFINE first == Called("PROG")
           second == Called(first)
           third == Called(second)
<1>1. first \in DOMAIN Menus /\ OnPath(first)
  BY RootOnPath, CalledOnPath
<1>2. second \in DOMAIN Menus /\ OnPath(second)
  BY <1>1, CalledOnPath
<1>3. third \in DOMAIN Menus /\ OnPath(third)
  BY <1>2, CalledOnPath
<1>4. Called(third) \in DOMAIN Menus /\ OnPath(Called(third))
  BY <1>3, CalledOnPath
<1> QED BY <1>4 DEF Active

\* A menu that is not the first is called by the menu that opened it.
LEMMA CalledFrom ==
  ASSUME NEW m \in DOMAIN Menus, m # "PROG", OnPath(m)
  PROVE  \E p \in DOMAIN Menus :
           /\ OnPath(p) /\ Called(p) = m
           /\ DOMAIN Paths[m] = DOMAIN Paths[p] \cup {Menus[p].slot}
           /\ Menus[p].slot \notin DOMAIN Paths[p]
<1>1. PICK p \in DOMAIN Menus : \E o \in Menus[p].opens : o.menu = m
  BY MenuTree
<1>2. PICK o \in Menus[p].opens : o.menu = m
  BY <1>1
<1>3. Fits(p, o) /\ WellFormed(p)
  BY MenuTree
<1>4. /\ DOMAIN Paths[m] = DOMAIN Paths[p] \cup {Menus[p].slot}
      /\ Paths[m][Menus[p].slot] = o.at
      /\ \A x \in DOMAIN Paths[p] : Paths[m][x] = Paths[p][x]
  BY <1>2, <1>3 DEF Fits
<1>5. Menus[p].slot \notin DOMAIN Paths[p]
  BY <1>3 DEF WellFormed
<1>6. OnPath(p) /\ st[Menus[p].slot] = o.at
  BY <1>4 DEF OnPath
<1>7. Called(p) = m
  BY <1>2, <1>6, CalledOpens
<1> QED BY <1>4, <1>5, <1>6, <1>7

LEMMA ActiveIs ==
  ASSUME NEW m \in DOMAIN Menus, OnPath(m), Called(m) = m
  PROVE  Active = m
<1>0. \A q \in DOMAIN Menus : WellFormed(q)
  BY MenuTree
<1>1. \A q \in DOMAIN Menus : DOMAIN Paths[q] = {} => q = "PROG"
  BY <1>0 DEF WellFormed
<1>2. \A q \in DOMAIN Menus :
        DOMAIN Paths[q] \in {{}, {"top"}, {"top", "sub"}, {"top", "sub", "ssub"},
                             {"top", "sub", "ssub", "sssub"}}
  BY <1>0 DEF WellFormed
<1>9. DOMAIN Paths["PROG"] = {}
  BY <1>0, RootOnPath DEF WellFormed
<1>3. ASSUME NEW q \in DOMAIN Menus, OnPath(q), DOMAIN Paths[q] = {"top"}
      PROVE  Called("PROG") = q
  <2>1. PICK p \in DOMAIN Menus :
          /\ OnPath(p) /\ Called(p) = q
          /\ DOMAIN Paths[q] = DOMAIN Paths[p] \cup {Menus[p].slot}
          /\ Menus[p].slot \notin DOMAIN Paths[p]
    BY <1>3, <1>9, CalledFrom
  <2>2. DOMAIN Paths[p] = {}
    BY <2>1, <1>2, <1>3
  <2> QED BY <2>1, <2>2, <1>1
<1>4. ASSUME NEW q \in DOMAIN Menus, OnPath(q), DOMAIN Paths[q] = {"top", "sub"}
      PROVE  Called(Called("PROG")) = q
  <2>1. PICK p \in DOMAIN Menus :
          /\ OnPath(p) /\ Called(p) = q
          /\ DOMAIN Paths[q] = DOMAIN Paths[p] \cup {Menus[p].slot}
          /\ Menus[p].slot \notin DOMAIN Paths[p]
    BY <1>4, <1>9, CalledFrom
  <2>2. DOMAIN Paths[p] = {"top"}
    BY <2>1, <1>2, <1>4
  <2> QED BY <2>1, <2>2, <1>3
<1>5. ASSUME NEW q \in DOMAIN Menus, OnPath(q), DOMAIN Paths[q] = {"top", "sub", "ssub"}
      PROVE  Called(Called(Called("PROG"))) = q
  <2>1. PICK p \in DOMAIN Menus :
          /\ OnPath(p) /\ Called(p) = q
          /\ DOMAIN Paths[q] = DOMAIN Paths[p] \cup {Menus[p].slot}
          /\ Menus[p].slot \notin DOMAIN Paths[p]
    BY <1>5, <1>9, CalledFrom
  <2>2. DOMAIN Paths[p] = {"top", "sub"}
    BY <2>1, <1>2, <1>5
  <2> QED BY <2>1, <2>2, <1>4
<1>6. ASSUME NEW q \in DOMAIN Menus, OnPath(q),
             DOMAIN Paths[q] = {"top", "sub", "ssub", "sssub"}
      PROVE  Called(Called(Called(Called("PROG")))) = q
  <2>1. PICK p \in DOMAIN Menus :
          /\ OnPath(p) /\ Called(p) = q
          /\ DOMAIN Paths[q] = DOMAIN Paths[p] \cup {Menus[p].slot}
          /\ Menus[p].slot \notin DOMAIN Paths[p]
    BY <1>6, <1>9, CalledFrom
  <2>2. DOMAIN Paths[p] = {"top", "sub", "ssub"}
    BY <2>1, <1>2, <1>6
  <2> QED BY <2>1, <2>2, <1>5
<1>7. Active = Called(Called(Called(Called("PROG"))))
  BY DEF Active
<1>8. \/ m = "PROG"
      \/ Called("PROG") = m
      \/ Called(Called("PROG")) = m
      \/ Called(Called(Called("PROG"))) = m
      \/ Called(Called(Called(Called("PROG")))) = m
  BY <1>1, <1>2, <1>3, <1>4, <1>5, <1>6
<1> QED BY <1>7, <1>8

-----------------------------------------------------------------------------
(* The change of the modem.                                                *)

\* The flag of a change of SIM or network type is dropped only by the pass that
\* asks for the reboot (rebootPanel at the EXIT of eSIMSettings and
\* DEVICE_PVSN_PROG), whatever menus are visited and left in between.
THEOREM ChangesAwaitReboot == Spec => []ModemChangeAwaitsReboot
<1> USE DEF ModemChangeAwaitsReboot
<1>1. Init => ModemChangeAwaitsReboot
  BY DEF Init
<1>2. ModemChangeAwaitsReboot /\ [Next]_vars => ModemChangeAwaitsReboot'
  <2> SUFFICES ASSUME ModemChangeAwaitsReboot, [Next]_vars
               PROVE  ModemChangeAwaitsReboot'
    OBVIOUS
  <2>1. ASSUME NEW d, Restart(d) PROVE ModemChangeAwaitsReboot'
    BY <2>1 DEF Restart
  <2>2. ASSUME NEW c, rebootPanel(c) PROVE ModemChangeAwaitsReboot'
    BY <2>1, <2>2 DEF rebootPanel
  <2>3. CASE UNCHANGED boot
    BY <2>3 DEF boot
  <2>4. CASE TickTimer
    BY <2>3, <2>4 DEF TickTimer
  <2>5. CASE dispStateMachine
    BY <2>3, <2>5 DEF dispStateMachine, vars
  <2>6. CASE KeyA
    BY <2>3, <2>6 DEF KeyA
  <2>7. CASE KeyDOrUp
    BY <2>3, <2>7 DEF KeyDOrUp
  <2>8. CASE RebootButtonReboots
    BY <2>2, <2>8 DEF RebootButtonReboots
  <2>9. ASSUME NEW k \in Keys, Pass(k) PROVE ModemChangeAwaitsReboot'
    <3>1. CASE progMainStateMachine(k)
      BY <2>3, <3>1 DEF progMainStateMachine
    <3>2. CASE Login(k)
      BY <2>3, <3>2 DEF Login
    <3>3. CASE proLampTestExt(k)
      BY <2>3, <3>3 DEF proLampTestExt
    <3>4. CASE rebootButton(k)
      BY <2>3, <3>4 DEF rebootButton
    <3>5. ASSUME NEW m, NEW v, MenuPass(k, m, v) PROVE ModemChangeAwaitsReboot'
      <4>1. CASE OpenMenu(k, m, v)
        BY <2>3, <4>1 DEF OpenMenu
      <4>2. CASE LeaveMenu(k, m, v)
        BY <2>3, <4>2 DEF LeaveMenu
      <4>3. CASE LeaveAndReboot(k, m, v)
        BY <4>3 DEF LeaveAndReboot
      <4>4. CASE ExitReboots(k, m, v)
        BY <2>2, <4>4 DEF ExitReboots
      <4>5. CASE ChangeModem(k, m, v)
        BY <4>5 DEF ChangeModem
      <4>6. CASE Provision(k, m, v)
        BY <4>6 DEF Provision
      <4>7. CASE PowerCommand(k, m, v)
        BY <2>1, <4>7 DEF PowerCommand
      <4>8. CASE ResetToDefault(k, m, v)
        BY <2>2, <4>8 DEF ResetToDefault
      <4>9. CASE Walk(k, m, v)
        BY <2>3, <4>9 DEF Walk
      <4>10. CASE NoScreen(k, m, v)
        BY <2>3, <4>10 DEF NoScreen
      <4>11. CASE LanPass(k, m, v)
        BY <2>3, <4>11 DEF LanPass
      <4>12. CASE TypePastTheEnd(k, m, v)
        BY <2>1, <4>12 DEF TypePastTheEnd
      <4>13. CASE ConfigureReboots(k, m, v)
        BY <2>2, <4>13 DEF ConfigureReboots
      <4>14. CASE ConfigureOnly(k, m, v)
        BY <4>14 DEF ConfigureOnly
      <4>15. CASE EntryPass(k, m, v)
        BY <2>3, <4>15 DEF EntryPass
      <4> QED BY <3>5, <4>1, <4>2, <4>3, <4>4, <4>5, <4>6, <4>7, <4>8, <4>9,
                 <4>10, <4>11, <4>12, <4>13, <4>14, <4>15 DEF MenuPass
    <3> QED BY <2>9, <3>1, <3>2, <3>3, <3>4, <3>5 DEF Pass
  <2>10. CASE UNCHANGED vars
    BY <2>3, <2>10 DEF vars
  <2> QED BY <2>4, <2>5, <2>6, <2>7, <2>8, <2>9, <2>10 DEF Next
<1> QED BY <1>1, <1>2, PTL DEF Spec

-----------------------------------------------------------------------------
(* The second B of networkSettings.                                        *)

\* Where the cursor and the variables of networkSettings stand in state s of
\* the globals: only a login leads to its menu, on PROG and on the menu above
\* it the cursor is on a screen, and in networkSettings it is on its screen.
NavOk(s) ==
  /\ s \in [Slots -> Int]
  /\ s.top = 13 => s.main = 1 /\ s.code = 2 /\ s.user = 2
  /\ s.main = 1 /\ s.code = 2 /\ s.user = 2 /\ s.top \in 0..10 => s.pos \in 0..10
  /\ s.main = 1 /\ s.code \in {0, 1} => s.pos \in 0..1
  /\ s.top = 13 => s.sub \in 0..10 /\ (s.sub \in 0..5 => s.pos \in 0..5)
  /\ s.top = 13 /\ s.sub = 9 => s.ssub \in 0..28 /\ s.pos = s.ssub

OnLan(s) == s.top = 13 /\ s.sub = 9

\* A question of networkSettings that stands was asked by the latest key.
AskedInv ==
  /\ NavOk(st)
  /\ OnLan(st) /\ st.ssub = 24 /\ dhcp_enabled = "True" => asked = 24
  /\ OnLan(st) /\ st.ssub = 25 /\ netwoek_setting_configuration = 2 => asked = 25

\* networkSettings is opened on its first screen; from then on it stays on its
\* screen and leaves clearKey and the text alone, or makes a pass of it.
LanReached ==
  OnLan(st') =>
    \/ st'.ssub = 0
    \/ OnLan(st) /\ st'.ssub = st.ssub /\ UNCHANGED <<clearKey, text>>
    \/ /\ OnLan(st) /\ st'.ssub \in st.ssub - 1 .. st.ssub + 1
       /\ \E k \in Keys : TextPass(k, "LAN_SETUP", st.ssub)

AskedNext == AskedInv' /\ LanReached

\* NavOk(s), and networkSettings is not shown but for its first screen
Settled(s) == NavOk(s) /\ (OnLan(s) => s.ssub = 0)

LEMMA SettledAsked == ASSUME Settled(st') PROVE AskedNext
BY DEF Settled, AskedInv, AskedNext, LanReached

LEMMA ExitMenuAutoNav ==
  ASSUME NEW s, NavOk(s)
  PROVE  /\ NavOk(exitMenuAuto(s))
         /\ tick10Min => ~ OnLan(exitMenuAuto(s))
         /\ ~ tick10Min => exitMenuAuto(s) = s
         /\ Settled(s) => Settled(exitMenuAuto(s))
<1>1. CASE tick10Min
  <2> DEFINE e == exitMenuAuto(s)
  <2>1. e = Assign(s, [code |-> 0, main |-> 0, pos |-> 0, user |-> 0, top |-> 0])
    BY <1>1 DEF exitMenuAuto
  <2>2. e \in [Slots -> Int] /\ e.top = 0 /\ e.main = 0 /\ e.pos = 0
    BY <2>1 DEF Assign, Slots, NavOk
  <2> QED BY <1>1, <2>2 DEF NavOk, OnLan, Settled
<1>2. CASE ~ tick10Min
  BY <1>2 DEF exitMenuAuto
<1> QED BY <1>1, <1>2

LEMMA SlotNames ==
  {"main", "code", "user", "pos", "top", "sub", "ssub", "test", "rtc"} \subseteq Slots
BY DEF Slots

\* On the menus other than PROG, the network menu and networkSettings
LEMMA Elsewhere ==
  ASSUME NavOk(st), NEW m, m = Active, m \notin {"PROG", "NETWORK_COMMUNICATION"}
  PROVE  /\ m \in DOMAIN Menus /\ st.top \in 11..20
         /\ Menus[m].slot \notin {"top", "pos", "main", "code", "user"}
         /\ st.top = 13 => st.sub \in 6..10 /\ Menus[m].slot # "sub"
         /\ OnLan(st) <=> m = "LAN_SETUP"
         /\ m = "LAN_SETUP" => Menus[m].slot = "ssub"
<1>1. m \in DOMAIN Menus /\ OnPath(m) /\ WellFormed(m)
  BY ActiveOnPath, MenuTree
<1>2. "top" \in DOMAIN Paths[m] /\ Paths[m].top \in 11..20
  BY <1>1 DEF WellFormed
<1>3. st.top = Paths[m].top
  BY <1>1, <1>2 DEF OnPath
<1>4. Menus[m].slot \notin {"top", "pos", "main", "code", "user"}
  BY <1>1 DEF WellFormed
<1>5. ASSUME st.top = 13
      PROVE  /\ st.sub = Paths[m].sub /\ st.sub \in 6..10 /\ Menus[m].slot # "sub"
             /\ st.sub = 9 => m = "LAN_SETUP"
  <2>1. /\ "sub" \in DOMAIN Paths[m] /\ Paths[m].sub \in 6..10
        /\ Paths[m].sub = 9 => m = "LAN_SETUP"
    BY <1>1, <1>3, <1>5 DEF WellFormed
  <2>2. st.sub = Paths[m].sub
    BY <1>1, <2>1 DEF OnPath
  <2>3. Menus[m].slot # "sub"
    BY <1>1, <2>1 DEF WellFormed
  <2> QED BY <2>1, <2>2, <2>3
<1>6. ASSUME m = "LAN_SETUP" PROVE OnLan(st) /\ Menus[m].slot = "ssub"
  <2>1. Paths["LAN_SETUP"] = [top |-> 13, sub |-> 9]
    BY DEF Paths
  <2>2. Menus["LAN_SETUP"].slot = "ssub"
    BY MenuOf DEF networkSettings, Menu
  <2> QED BY <1>1, <1>6, <2>1, <2>2 DEF OnPath, OnLan
<1> QED BY <1>1, <1>2, <1>3, <1>4, <1>5, <1>6 DEF OnLan

\* On PROG and on the network menu
LEMMA OnNetworkMenu ==
  ASSUME Active = "NETWORK_COMMUNICATION"
  PROVE  st.top = 13 /\ Menus["NETWORK_COMMUNICATION"] = NETWORK_COMMUNICATION_SETTINGS
<1>1. OnPath("NETWORK_COMMUNICATION")
  BY ActiveOnPath
<1>2. Paths["NETWORK_COMMUNICATION"] = [top |-> 13]
  BY DEF Paths
<1> QED BY <1>1, <1>2, MenuOf DEF OnPath

\* An assignment away from these menus that leaves the depths above alone
LEMMA ElsewhereSettles ==
  ASSUME NavOk(st), InMenus, NEW m, m = Active,
         m \notin {"PROG", "NETWORK_COMMUNICATION", "LAN_SETUP"},
         NEW s, s \in [Slots -> Int],
         s.top = st.top, s.main = st.main, s.code = st.code, s.user = st.user,
         st.top = 13 => s.sub = st.sub
  PROVE  Settled(s)
<1>1. st.top \in 11..20 /\ ~ OnLan(st) /\ (st.top = 13 => st.sub \in 6..10)
  BY Elsewhere
<1>2. ~ OnLan(s)
  BY <1>1 DEF OnLan
<1> QED BY <1>1, <1>2 DEF Settled, NavOk, OnLan, InMenus

LEMMA LeftIs ==
  ASSUME NEW m
  PROVE  \A x \in Slots :
           Left(m)[x] = IF x \in DOMAIN Menus[m].leaves THEN Menus[m].leaves[x]
                        ELSE IF x \in {Menus[m].slot, "pos"} THEN st.pos ELSE st[x]
<1>1. menuPositionUpDn("B", 0, Menus[m].last) = st.pos
  BY DEF menuPositionUpDn
<1>2. DOMAIN Cursor(Menus[m].slot, st.pos) = {Menus[m].slot, "pos"}
      /\ \A x \in {Menus[m].slot, "pos"} : Cursor(Menus[m].slot, st.pos)[x] = st.pos
  BY DEF Cursor
<1> QED BY <1>1, <1>2 DEF Left, Assign

LEMMA CursorIs ==
  ASSUME NEW slot, NEW p
  PROVE  \A x \in Slots : Assign(st, Cursor(slot, p))[x] =
           IF x \in {slot, "pos"} THEN p ELSE st[x]
<1>1. DOMAIN Cursor(slot, p) = {slot, "pos"} /\ \A x \in {slot, "pos"} : Cursor(slot, p)[x] = p
  BY DEF Cursor
<1> QED BY <1>1 DEF Assign

\* EXIT of a menu
LEMMA LeftSettles ==
  ASSUME NavOk(st), InMenus, NEW m, m = Active, st[Menus[m].slot] = Menus[m].exit
  PROVE  Settled(Left(m))
<1>0. m \in DOMAIN Menus /\ WellFormed(m) /\ OnPath(m)
  BY ActiveOnPath, MenuTree
<1>1. Left(m) = [x \in Slots |-> Left(m)[x]]
  BY DEF Left, Assign
<1>2. \A x \in Slots : st[x] \in Int
  BY DEF NavOk
<1>3. \A x \in DOMAIN Menus[m].leaves : Menus[m].leaves[x] \in 0..9
  BY <1>0 DEF WellFormed
<1>4. \A x \in Slots : Left(m)[x] \in Int
  BY <1>2, <1>3, LeftIs DEF Slots
<1>5. Left(m) \in [Slots -> Int]
  BY <1>1, <1>4
<1>9. Left(m).main = 1 /\ Left(m).code \in {0, 1} => Left(m).pos \in 0..1
  <2>1. CASE "code" \in DOMAIN Menus[m].leaves
    BY <1>0, <2>1, LeftIs, SlotNames DEF WellFormed
  <2>2. CASE "code" \notin DOMAIN Menus[m].leaves
    BY <1>0, <2>2, LeftIs, SlotNames DEF WellFormed, InMenus
  <2> QED BY <2>1, <2>2
<1>6. CASE m = "PROG"
  <2>1. /\ Menus[m].leaves = [main |-> 0, pos |-> 0, user |-> 0, code |-> 0]
        /\ Menus[m].slot = "top" /\ Menus[m].exit = 10
    BY <1>6, MenuOf DEF progStateMachineSubState, Menu
  <2>2. Left(m).main = 0 /\ Left(m).top = st.pos
    BY <2>1, LeftIs DEF Slots
  <2>3. st.pos \in 0..10
    BY <2>1 DEF NavOk, InMenus
  <2> QED BY <1>5, <1>9, <2>2, <2>3 DEF Settled, NavOk, OnLan
<1>7. CASE m = "NETWORK_COMMUNICATION"
  <2>1. Menus[m].leaves = [pos |-> 2, top |-> 2, sub |-> 0]
    BY <1>7, MenuOf DEF NETWORK_COMMUNICATION_SETTINGS, Menu
  <2>2. Left(m).pos = 2 /\ Left(m).top = 2
    BY <2>1, LeftIs DEF Slots
  <2> QED BY <1>5, <1>9, <2>2 DEF Settled, NavOk, OnLan
<1>8. CASE m \notin {"PROG", "NETWORK_COMMUNICATION"}
  <2>1. /\ st.top \in 11..20 /\ Menus[m].slot \notin {"top", "pos", "main", "code", "user"}
        /\ st.top = 13 => st.sub \in 6..10 /\ Menus[m].slot # "sub"
        /\ OnLan(st) <=> m = "LAN_SETUP"
    BY <1>8, Elsewhere
  <2>2. CASE "top" \in DOMAIN Menus[m].leaves
    <3>1. "pos" \in DOMAIN Menus[m].leaves
      BY <1>0, <1>8, <2>2 DEF WellFormed
    <3>2. Left(m).top \in 0..9 /\ Left(m).pos \in 0..9
      BY <2>2, <3>1, <1>3, LeftIs DEF Slots
    <3> QED BY <1>5, <1>9, <3>2 DEF Settled, NavOk, OnLan
  <2>3. CASE "top" \notin DOMAIN Menus[m].leaves /\ st.top # 13
    <3>1. Left(m).top = st.top
      BY <2>1, <2>3, LeftIs DEF Slots
    <3> QED BY <1>5, <1>9, <2>1, <2>3, <3>1 DEF Settled, NavOk, OnLan
  <2>4. CASE "top" \notin DOMAIN Menus[m].leaves /\ st.top = 13
    <3>1. Left(m).top = 13
      BY <2>1, <2>4, LeftIs DEF Slots
    <3>0. Paths[m].top = 13
      BY <1>0, <1>8, <2>4 DEF WellFormed, OnPath
    <3>2. \A x \in {"main", "code", "user"} : x \notin DOMAIN Menus[m].leaves
      BY <1>0, <1>8, <3>0 DEF WellFormed
    <3>3. Left(m).main = st.main /\ Left(m).code = st.code /\ Left(m).user = st.user
      BY <2>1, <3>2, LeftIs DEF Slots
    <3>4. CASE "sub" \in DOMAIN Menus[m].leaves
      <4>1. /\ Menus[m].leaves.sub \in 0..5 /\ "pos" \in DOMAIN Menus[m].leaves
            /\ Menus[m].leaves.pos \in 0..5
        BY <1>0, <1>8, <3>0, <3>4 DEF WellFormed
      <4>2. Left(m).sub \in 0..5 /\ Left(m).pos \in 0..5
        BY <3>4, <4>1, LeftIs DEF Slots
      <4> QED BY <1>5, <1>9, <2>4, <3>1, <3>3, <4>2 DEF Settled, NavOk, OnLan
    <3>5. CASE "sub" \notin DOMAIN Menus[m].leaves
      <4>1. Left(m).sub = st.sub
        BY <2>1, <2>4, <3>5, LeftIs DEF Slots
      <4>2. m # "LAN_SETUP"
        BY <3>5, MenuOf DEF networkSettings, Menu
      <4> QED BY <1>5, <1>9, <2>1, <2>4, <3>1, <3>3, <4>1, <4>2 DEF Settled, NavOk, OnLan
    <3> QED BY <3>4, <3>5
  <2> QED BY <2>2, <2>3, <2>4
<1> QED BY <1>6, <1>7, <1>8

\* The passes outside the menus
LEMMA AskedOutside ==
  ASSUME AskedInv, st.top # 13, NEW s, s \in [Slots -> Int], s.top = st.top \/ s.top = 0,
         s.main = 1 /\ s.code = 2 /\ s.user = 2 =>
           (s.top = st.top /\ s.pos = st.pos /\ InMenus) \/ s.pos = 0,
         s.main = 1 /\ s.code \in {0, 1} => s.pos \in 0..1
  PROVE  Settled(s)
BY DEF AskedInv, Settled, NavOk, OnLan, InMenus

LEMMA AskedEndPass ==
  ASSUME NEW s, NEW m, Settled(s), EndPass(s, m)
  PROVE  AskedNext
<1>1. Settled(st')
  BY ExitMenuAutoNav DEF EndPass, Settled
<1> QED BY <1>1, SettledAsked

\* A pass of a menu that leaves hostDhcp alone
LEMMA AskedMenu ==
  ASSUME AskedInv, InMenus, NEW k \in Keys, NEW m, m = Active, NEW v, v = st[Menus[m].slot],
         MenuPass(k, m, v)
  PROVE  AskedNext
<1> USE DEF ScreenKeys
<1>0. /\ NavOk(st) /\ m \in DOMAIN Menus /\ WellFormed(m) /\ OnPath(m)
      /\ st \in [Slots -> Int] /\ st.main = 1 /\ st.code = 2 /\ st.user = 2
  BY ActiveOnPath, MenuTree DEF AskedInv, NavOk, InMenus
<1>1. ASSUME NEW d, Restart(d) PROVE AskedNext
  <2>1. st' = [x \in Slots |-> 0]
    BY <1>1 DEF Restart
  <2>2. Settled(st')
    BY <2>1 DEF Settled, NavOk, OnLan, Slots
  <2> QED BY <2>2, SettledAsked
<1>2. ASSUME NEW c, rebootPanel(c) PROVE AskedNext
  BY <1>1, <1>2 DEF rebootPanel
<1>3. ASSUME NEW p \in Int, m \notin {"PROG", "NETWORK_COMMUNICATION", "LAN_SETUP"}
      PROVE  Settled(Assign(st, Cursor(Menus[m].slot, p)))
  <2> DEFINE s == Assign(st, Cursor(Menus[m].slot, p))
  <2>1. \A x \in Slots : s[x] = IF x \in {Menus[m].slot, "pos"} THEN p ELSE st[x]
    BY CursorIs
  <2>2. s = [x \in Slots |-> s[x]]
    BY DEF Assign
  <2>3. \A x \in Slots : s[x] \in Int
    BY <2>1, <1>0
  <2>4. s \in [Slots -> Int]
    BY <2>2, <2>3
  <2>5. /\ Menus[m].slot \notin {"top", "pos", "main", "code", "user"}
        /\ st.top = 13 => Menus[m].slot # "sub"
    BY <1>0, <1>3, Elsewhere
  <2>6. s.top = st.top /\ s.main = st.main /\ s.code = st.code /\ s.user = st.user
    BY <2>1, <2>5, SlotNames
  <2>7. st.top = 13 => s.sub = st.sub
    BY <2>1, <2>5, SlotNames
  <2> QED BY <1>0, <1>3, <2>4, <2>6, <2>7, ElsewhereSettles
<1>4. CASE OpenMenu(k, m, v)
  <2>1. PICK o \in Menus[m].opens :
          /\ o.v = v
          /\ EndPass(Assign(Assign(st, o.sets),
                       [x \in {"pos", Menus[m].slot} |-> IF x = "pos" THEN 0 ELSE o.at]),
                     o.menu)
    BY <1>4 DEF OpenMenu
  <2> DEFINE s == Assign(Assign(st, o.sets),
                    [x \in {"pos", Menus[m].slot} |-> IF x = "pos" THEN 0 ELSE o.at])
  <2>2. Fits(m, o) /\ Fits(m, o)
    BY <1>0, MenuTree
  <2>3. /\ \A x \in DOMAIN o.sets : o.sets[x] = 0
        /\ o.at \in Int /\ o.at > Menus[m].exit /\ o.menu \in DOMAIN Menus
        /\ \A x \in {"user", "main", "code", "pos", "top"} : x \notin DOMAIN o.sets
        /\ \A x \in DOMAIN Paths[o.menu] : x \notin DOMAIN o.sets
        /\ DOMAIN Paths[o.menu] = DOMAIN Paths[m] \cup {Menus[m].slot}
    BY <2>2 DEF Fits
  <2>4. Menus[m].slot \notin {"pos", "main", "code", "user"}
    BY <1>0 DEF WellFormed
  <2>5. \A x \in Slots : s[x] = IF x = "pos" THEN 0 ELSE IF x = Menus[m].slot THEN o.at
                                ELSE IF x \in DOMAIN o.sets THEN 0 ELSE st[x]
    BY <2>3 DEF Assign
  <2>6. s = [x \in Slots |-> s[x]]
    BY DEF Assign
  <2>7. \A x \in Slots : s[x] \in Int
    BY <2>5, <2>3, <1>0
  <2>8. s \in [Slots -> Int]
    BY <2>6, <2>7
  <2>9. s.pos = 0 /\ s.main = 1 /\ s.code = 2 /\ s.user = 2
    BY <2>5, <2>4, <2>3, <1>0, SlotNames
  <2>10. CASE m = "PROG"
    <3>1. Menus[m].slot = "top"
      BY <2>10, MenuOf DEF progStateMachineSubState, Menu
    <3>2. s.top = o.at
      BY <2>5, <3>1, SlotNames
    <3>3. o.at = 13 => s.sub = 0
      <4>1. o.at = 13 => "sub" \in DOMAIN o.sets
        BY <2>2, <2>10 DEF Fits
      <4> QED BY <2>5, <3>1, <4>1, SlotNames
    <3> QED BY <2>1, <2>8, <2>9, <3>2, <3>3, AskedEndPass DEF Settled, NavOk, OnLan
  <2>11. CASE m = "NETWORK_COMMUNICATION"
    <3>1. /\ Menus[m].slot = "sub" /\ st.top = 13
      BY <2>11, OnNetworkMenu, MenuOf DEF NETWORK_COMMUNICATION_SETTINGS, Menu
    <3>2. s.sub = o.at /\ s.top = 13
      BY <2>5, <2>3, <3>1, SlotNames
    <3>3. o.at \in 6..10 /\ (o.at = 9 => "ssub" \in DOMAIN o.sets)
      BY <2>11, MenuOf DEF NETWORK_COMMUNICATION_SETTINGS, Menu, Opens
    <3>4. o.at = 9 => s.ssub = 0
      BY <2>5, <3>1, <3>3, SlotNames
    <3>5. Settled(s)
      BY <2>8, <2>9, <3>2, <3>3, <3>4 DEF Settled, NavOk, OnLan
    <3> QED BY <2>1, <3>5, AskedEndPass
  <2>12. CASE m = "LAN_SETUP"
    <3>1. Menus[m].opens = {}
      BY <2>12, MenuOf DEF networkSettings, Menu
    <3> QED BY <3>1
  <2>13. CASE m \notin {"PROG", "NETWORK_COMMUNICATION", "LAN_SETUP"}
    <3>1. /\ Menus[m].slot \notin {"top", "pos", "main", "code", "user"} /\ st.top \in 11..20
          /\ st.top = 13 => Menus[m].slot # "sub"
      BY <1>0, <2>13, Elsewhere
    <3>2. s.top = st.top
      BY <2>5, <2>3, <3>1, SlotNames
    <3>3. st.top = 13 => s.sub = st.sub
      <4>1. st.top = 13 => "sub" \in DOMAIN Paths[m]
        BY <1>0, <2>13 DEF WellFormed, OnPath
      <4> QED BY <4>1, <2>3, <2>5, <3>1, SlotNames
    <3>4. Settled(s)
      BY <1>0, <2>8, <2>9, <2>13, <3>2, <3>3, ElsewhereSettles
    <3> QED BY <2>1, <3>4, AskedEndPass
  <2> QED BY <2>10, <2>11, <2>12, <2>13
<1>5. CASE LeaveMenu(k, m, v)
  <2>1. Settled(Left(m))
    BY <1>0, <1>5, LeftSettles DEF LeaveMenu
  <2> QED BY <1>5, <2>1, AskedEndPass DEF LeaveMenu
<1>6. CASE LeaveAndReboot(k, m, v)
  <2>1. Settled(Left(m))
    BY <1>0, <1>6, LeftSettles DEF LeaveAndReboot
  <2> QED BY <1>6, <2>1, AskedEndPass, SettledAsked DEF LeaveAndReboot
<1>7. CASE ExitReboots(k, m, v)
  BY <1>2, <1>7 DEF ExitReboots
<1>8. CASE ChangeModem(k, m, v)
  <2>1. Menus[m].slot = "ssub" /\ st.pos \in Int /\ m = "eSIM_SETTINGS"
    BY <1>0, <1>8, MenuOf, SlotNames DEF ChangeModem, eSIMSettings, Menu
  <2>2. Settled(Assign(st, Cursor("ssub", st.pos)))
    BY <1>3, <2>1
  <2> QED BY <1>8, <2>2, AskedEndPass DEF ChangeModem
<1>9. CASE Provision(k, m, v)
  <2> DEFINE s == Assign(st, [rtc |-> 0, ssub |-> 0, pos |-> 0])
  <2>1. \A x \in Slots : s[x] = IF x \in {"rtc", "ssub", "pos"} THEN 0 ELSE st[x]
    BY DEF Assign
  <2>2. s \in [Slots -> Int]
    BY <1>0 DEF Assign
  <2>3. Settled(s)
    BY <1>0, <1>9, <2>1, <2>2, ElsewhereSettles, SlotNames DEF Provision
  <2> QED BY <1>9, <2>3, AskedEndPass DEF Provision
<1>10. CASE PowerCommand(k, m, v)
  BY <1>1, <1>10 DEF PowerCommand
<1>11. CASE ResetToDefault(k, m, v)
  <2>1. Menus[m].slot = "ssub" /\ st.pos \in Int /\ m = "ADVANCE_SETTINGS"
    BY <1>0, <1>11, MenuOf, SlotNames DEF ResetToDefault, ADVANCE_SETTINGS_PROG, Menu
  <2>2. Settled(Assign(st, Cursor("ssub", st.pos)))
    BY <1>3, <2>1
  <2> QED BY <1>2, <1>11, <2>2, AskedEndPass DEF ResetToDefault
<1>12. CASE Walk(k, m, v)
  <2> DEFINE p == menuPositionUpDn(k, 0, Menus[m].last)
             s == Assign(st, Cursor(Menus[m].slot, p))
  <2>1. \E q : EndPass(s, q)
    BY <1>12 DEF Walk
  <2>2. st.pos \in Int /\ Menus[m].last \in Nat
    BY <1>0, SlotNames DEF WellFormed
  <2>3. p \in Int /\ \A n \in Nat : Menus[m].last = n /\ st.pos \in 0..n => p \in 0..n
    BY <2>2 DEF menuPositionUpDn
  <2>4. \A x \in Slots : s[x] = IF x \in {Menus[m].slot, "pos"} THEN p ELSE st[x]
    BY CursorIs
  <2>5. s = [x \in Slots |-> s[x]]
    BY DEF Assign
  <2>6. \A x \in Slots : s[x] \in Int
    BY <2>3, <2>4, <1>0
  <2>7. s \in [Slots -> Int]
    BY <2>5, <2>6
  <2>8. Settled(s)
    <3>1. CASE m = "PROG"
      <4>1. Menus[m].slot = "top" /\ Menus[m].exit = 10 /\ Menus[m].last = 10
        BY <3>1, MenuOf DEF progStateMachineSubState, Menu
      <4>2. st.pos \in 0..10
        BY <1>0, <1>12, <4>1 DEF Walk, NavOk
      <4>3. p \in 0..10
        BY <2>3, <4>1, <4>2
      <4>4. s.top = p /\ s.pos = p /\ s.code = 2
        BY <1>0, <2>4, <4>1, SlotNames
      <4> QED BY <2>7, <4>3, <4>4 DEF Settled, NavOk, OnLan
    <3>2. CASE m = "NETWORK_COMMUNICATION"
      <4>1. Menus[m].slot = "sub" /\ Menus[m].exit = 5 /\ Menus[m].last = 5 /\ st.top = 13
        BY <3>2, OnNetworkMenu DEF NETWORK_COMMUNICATION_SETTINGS, Menu
      <4>2. st.pos \in 0..5
        BY <1>0, <1>12, <4>1 DEF Walk, NavOk
      <4>3. p \in 0..5
        BY <2>3, <4>1, <4>2
      <4>4. /\ s.sub = p /\ s.pos = p /\ s.top = 13
            /\ s.main = 1 /\ s.code = 2 /\ s.user = 2
        BY <1>0, <2>4, <4>1, SlotNames
      <4> QED BY <2>7, <4>3, <4>4 DEF Settled, NavOk, OnLan
    <3>3. CASE m = "LAN_SETUP"
      BY <1>12, <3>3 DEF Walk, Screens
    <3> QED BY <1>3, <2>3, <3>1, <3>2, <3>3
  <2> QED BY <2>1, <2>8, AskedEndPass
<1>13. CASE NoScreen(k, m, v)
  <2>1. EndPass(st, shown) /\ asked' = asked /\ UNCHANGED <<entry, lan>>
    BY <1>13 DEF NoScreen
  <2>2. m # "LAN_SETUP"
    <3>1. ASSUME m = "LAN_SETUP" PROVE v \in 0..28 /\ Menus[m].exit = 28
      BY <1>0, <3>1, Elsewhere, MenuOf DEF NavOk, OnLan, networkSettings, Menu
    <3> QED BY <3>1, <1>13 DEF NoScreen
  <2>3. ~ OnLan(st) \/ m \in {"PROG", "NETWORK_COMMUNICATION"}
    BY <1>0, <2>2, Elsewhere
  <2>4. st' = exitMenuAuto(st) /\ NavOk(st')
    BY <1>0, <2>1, ExitMenuAutoNav DEF EndPass
  <2> QED BY <2>1, <2>4, <1>0, ExitMenuAutoNav DEF AskedInv, AskedNext, LanReached, OnLan, entry, lan
<1>14. CASE LanPass(k, m, v)
  <2>1. m = "LAN_SETUP" /\ v \in 0..28 /\ UNCHANGED hostDhcp
    BY <1>14 DEF LanPass
  <2>2. OnLan(st) /\ v = st.ssub /\ st.pos = st.ssub /\ Menus[m].slot = "ssub"
    BY <1>0, <2>1, Elsewhere DEF NavOk, OnLan
  <2>3. CASE v = 28 /\ k = "B"
    <3>1. EndPass(Left(m), Parent[m])
      BY <1>14, <2>3 DEF LanPass
    <3>2. Settled(Left(m))
      <4>1. Menus[m].exit = 28
        BY <2>1, MenuOf DEF networkSettings, Menu
      <4> QED BY <1>0, <2>3, <4>1, LeftSettles
    <3> QED BY <3>1, <3>2, AskedEndPass
  <2>4. CASE ~ (v = 28 /\ k = "B")
    <3> DEFINE p == menuPositionUpDn(k, 0, 28)
               s == Assign(st, Cursor("ssub", p))
    <3>1. EndPass(s, m)
      BY <1>14, <2>4 DEF LanPass
    <3>2. p \in 0..28
      BY <2>1, <2>2 DEF menuPositionUpDn
    <3>3. \A x \in Slots : s[x] = IF x \in {"ssub", "pos"} THEN p ELSE st[x]
      BY CursorIs
    <3>4. s = [x \in Slots |-> s[x]]
      BY DEF Assign
    <3>5. \A x \in Slots : s[x] \in Int
      BY <3>2, <3>3, <1>0
    <3>6. s \in [Slots -> Int]
      BY <3>4, <3>5
    <3>7. /\ s.ssub = p /\ s.pos = p /\ s.top = 13 /\ s.sub = 9
          /\ s.main = 1 /\ s.code = 2 /\ s.user = 2
      BY <1>0, <2>2, <3>3, SlotNames DEF OnLan
    <3>8. NavOk(s)
      BY <3>2, <3>6, <3>7 DEF NavOk
    <3>9. st' = exitMenuAuto(s) /\ NavOk(st')
      BY <3>1, <3>8, ExitMenuAutoNav DEF EndPass
    <3>10. OnLan(st') => st'.ssub = p
      BY <3>7, <3>8, <3>9, ExitMenuAutoNav
    <3>11. p = 24 /\ dhcp_enabled' = "True" => asked' = 24
      <4>1. CASE v = 24 /\ k = "B"
        BY <4>1, <1>14 DEF LanPass
      <4>2. CASE v = 24 /\ k # "B"
        <5>1. k \in {"@", "*"} => p # 24
          BY <2>2, <4>2 DEF menuPositionUpDn
        <5>2. dhcp_enabled' = dhcp_enabled
          BY <1>14, <4>2 DEF LanPass, PendingDhcp
        <5>3. k \notin {"@", "*"} => asked' = asked
          BY <1>14, <4>2 DEF LanPass
        <5> QED BY <2>2, <4>2, <5>1, <5>2, <5>3 DEF AskedInv
      <4>3. CASE v # 24
        <5>1. dhcp_enabled' = PendingDhcp(v)
          BY <1>14, <4>3 DEF LanPass
        <5> QED BY <4>3, <5>1 DEF PendingDhcp
      <4> QED BY <4>1, <4>2, <4>3
    <3>12. p = 25 /\ netwoek_setting_configuration' = 2 => asked' = 25
      <4>1. CASE v = 25 /\ k = "B"
        BY <4>1, <1>14 DEF LanPass
      <4>2. CASE v = 25 /\ k # "B"
        <5>1. k \in {"@", "*"} => p # 25
          BY <2>2, <4>2 DEF menuPositionUpDn
        <5>2. netwoek_setting_configuration' = netwoek_setting_configuration
          BY <1>14, <4>2 DEF LanPass, PendingStatic
        <5>3. k \notin {"@", "*"} => asked' = asked
          BY <1>14, <4>2 DEF LanPass
        <5> QED BY <2>2, <4>2, <5>1, <5>2, <5>3 DEF AskedInv
      <4>3. CASE v # 25
        <5>1. netwoek_setting_configuration' = PendingStatic(v)
          BY <1>14, <2>4, <4>3 DEF LanPass
        <5> QED BY <4>3, <5>1 DEF PendingStatic
      <4> QED BY <4>1, <4>2, <4>3
    <3>13. p \in v - 1 .. v + 1
      BY <2>1, <2>2 DEF menuPositionUpDn
    <3>14. TextPass(k, "LAN_SETUP", st.ssub)
      BY <1>14, <2>1, <2>2 DEF LanPass
    <3>15. LanReached
      BY <2>2, <3>10, <3>13, <3>14 DEF LanReached
    <3> QED BY <3>9, <3>10, <3>11, <3>12, <3>15 DEF AskedInv, AskedNext
  <2> QED BY <2>3, <2>4
<1>15. CASE TypePastTheEnd(k, m, v)
  BY <1>1, <1>15 DEF TypePastTheEnd
<1>16. CASE ConfigureReboots(k, m, v)
  BY <1>2, <1>16 DEF ConfigureReboots
<1>17. CASE ConfigureOnly(k, m, v)
  <2>1. m = "LAN_SETUP" /\ v \in {24, 25}
    BY <1>17 DEF ConfigureOnly, SecondB
  <2>2. OnLan(st) /\ v = st.ssub /\ st.pos = st.ssub
    BY <1>0, <2>1, Elsewhere DEF NavOk, OnLan
  <2> DEFINE s == Assign(st, Cursor("ssub", st.pos))
  <2>3. EndPass(s, m) /\ dhcp_enabled' # "True" /\ netwoek_setting_configuration' # 2
    BY <1>17, <2>1 DEF ConfigureOnly, PendingDhcp, PendingStatic
  <2>4. \A x \in Slots : s[x] = IF x \in {"ssub", "pos"} THEN st.pos ELSE st[x]
    BY CursorIs
  <2>5. s = [x \in Slots |-> s[x]]
    BY DEF Assign
  <2>6. s = st
    BY <1>0, <2>2, <2>4, <2>5
  <2>7. NavOk(st')
    BY <1>0, <2>3, <2>6, ExitMenuAutoNav DEF EndPass
  <2>8. UNCHANGED <<clearKey, text>>
    BY <1>17 DEF ConfigureOnly, entry
  <2>9. LanReached
    BY <1>0, <2>2, <2>3, <2>6, <2>8, ExitMenuAutoNav DEF LanReached, EndPass
  <2> QED BY <2>3, <2>7, <2>9 DEF AskedInv, AskedNext
<1>18. CASE EntryPass(k, m, v)
  <2>1. PICK n \in NextScreens(k, m, v) :
          EndPass(Assign(st, [x \in {"pos", Menus[m].slot} |-> IF x = "pos" THEN n.pos ELSE n.v]), m)
    BY <1>18 DEF EntryPass
  <2> DEFINE s == Assign(st, [x \in {"pos", Menus[m].slot} |-> IF x = "pos" THEN n.pos ELSE n.v])
  <2>2. m \notin {"PROG", "NETWORK_COMMUNICATION", "LAN_SETUP"}
    BY <1>18 DEF EntryPass, Screens
  <2>3. n.v \in Int /\ n.pos \in Int
    <3>1. st.pos \in Int /\ v \in Nat
      BY <1>0, <1>18, SlotNames DEF EntryPass, WellFormed
    <3>2. \A a, b \in Int : menuPositionUpDn(k, a, b) \in Int
      BY <3>1 DEF menuPositionUpDn
    <3>3. Menus[m].last \in Int
      BY <1>0 DEF WellFormed
    <3> QED BY <2>1, <3>1, <3>2, <3>3 DEF NextScreens
  <2>4. Menus[m].slot \notin {"top", "pos", "main", "code", "user"}
        /\ (st.top = 13 => Menus[m].slot # "sub")
    BY <1>0, <2>2, Elsewhere
  <2>5. \A x \in Slots : s[x] = IF x = "pos" THEN n.pos ELSE IF x = Menus[m].slot THEN n.v
                                ELSE st[x]
    BY DEF Assign
  <2>6. s = [x \in Slots |-> s[x]]
    BY DEF Assign
  <2>7. \A x \in Slots : s[x] \in Int
    BY <2>3, <2>5, <1>0
  <2>8. s \in [Slots -> Int]
    BY <2>6, <2>7
  <2>9. s.top = st.top /\ s.main = st.main /\ s.code = st.code /\ s.user = st.user
        /\ (st.top = 13 => s.sub = st.sub)
    BY <2>4, <2>5, SlotNames
  <2>10. Settled(s)
    BY <1>0, <2>2, <2>8, <2>9, ElsewhereSettles
  <2> QED BY <2>1, <2>10, AskedEndPass
<1> QED BY <1>4, <1>5, <1>6, <1>7, <1>8, <1>9, <1>10, <1>11, <1>12, <1>13, <1>14,
           <1>15, <1>16, <1>17, <1>18 DEF MenuPass

LEMMA AskedStep == ASSUME AskedInv, [Next]_vars PROVE AskedNext
<1>0. st \in [Slots -> Int] /\ NavOk(st)
  BY DEF AskedInv, NavOk
<1>1. ASSUME NEW c, rebootPanel(c) PROVE AskedNext
  <2>1. st' = [x \in Slots |-> 0]
    BY <1>1 DEF rebootPanel, Restart
  <2>2. Settled(st')
    BY <2>1 DEF Settled, NavOk, OnLan, Slots
  <2> QED BY <2>2, SettledAsked
<1>2. ASSUME UNCHANGED <<st, entry, lan, asked>> PROVE AskedNext
  BY <1>2 DEF AskedInv, AskedNext, LanReached, entry, lan, OnLan
<1>3. ASSUME NEW r, \A x \in DOMAIN r : r[x] \in Int, st.top # 13,
             Assign(st, r).top = st.top \/ Assign(st, r).top = 0,
             LET s == Assign(st, r)
             IN  /\ s.main = 1 /\ s.code = 2 /\ s.user = 2 =>
                      (s.top = st.top /\ s.pos = st.pos /\ InMenus) \/ s.pos = 0
                 /\ s.main = 1 /\ s.code \in {0, 1} => s.pos \in 0..1
      PROVE  Settled(Assign(st, r))
  <2>1. Assign(st, r) \in [Slots -> Int]
    BY <1>0, <1>3 DEF Assign
  <2> QED BY <1>3, <2>1, AskedOutside
<1>4. st.main # 1 \/ st.code # 2 \/ st.user # 2 => st.top # 13
  BY DEF AskedInv, NavOk
<1>5. CASE TickTimer
  BY <1>2, <1>5 DEF TickTimer
<1>6. CASE dispStateMachine
  BY <1>2, <1>6 DEF dispStateMachine, vars, nav
<1>7. CASE KeyA
  <2>1. CASE st.main = 0
    <3> DEFINE s == Assign(st, [main |-> 1, pos |-> 0, code |-> 0])
    <3>1. s.code = 0 /\ s.pos = 0 /\ s.top = st.top /\ st.top # 13
      BY <1>4, <2>1, SlotNames DEF Assign
    <3>2. Settled(s)
      BY <1>3, <3>1
    <3> QED BY <1>7, <2>1, <3>2, AskedEndPass DEF KeyA
  <2>2. CASE st.main # 0
    <3>1. st' = returnToDisplayScan(st)
      BY <1>7, <2>2 DEF KeyA
    <3>2. st' \in [Slots -> Int] /\ st'.top = 0 /\ st'.main = 0
      BY <1>0, <3>1, SlotNames DEF returnToDisplayScan, Assign
    <3>3. Settled(st')
      BY <3>2 DEF Settled, NavOk, OnLan
    <3> QED BY <3>3, SettledAsked
  <2> QED BY <2>1, <2>2
<1>8. CASE KeyDOrUp
  <2>1. st.top # 13
    BY <1>4, <1>8 DEF KeyDOrUp
  <2>2. CASE st' = Assign(st, [main |-> 2, pos |-> 0, test |-> 0])
    <3>1. st' \in [Slots -> Int] /\ st'.top = st.top /\ st'.main = 2
      BY <1>0, <2>2, SlotNames DEF Assign
    <3>2. Settled(st')
      BY <2>1, <3>1 DEF Settled, NavOk, OnLan
    <3> QED BY <3>2, SettledAsked
  <2>3. CASE st' = Assign(st, [main |-> 3, pos |-> 0])
    <3>1. st' \in [Slots -> Int] /\ st'.top = st.top /\ st'.main = 3
      BY <1>0, <2>3, SlotNames DEF Assign
    <3>2. Settled(st')
      BY <2>1, <3>1 DEF Settled, NavOk, OnLan
    <3> QED BY <3>2, SettledAsked
  <2> QED BY <1>8, <2>2, <2>3 DEF KeyDOrUp
<1>9. CASE RebootButtonReboots
  BY <1>1, <1>9 DEF RebootButtonReboots
<1>10. ASSUME NEW k \in Keys, Pass(k) PROVE AskedNext
  <2>1. CASE progMainStateMachine(k)
    <3> DEFINE p == menuPositionUpDn(k, 0, 1)
    <3>0. st.main = 1 /\ st.code \in {0, 1} /\ st.top # 13 /\ st.pos \in Int
      BY <2>1, <1>0, <1>4, SlotNames DEF progMainStateMachine
    <3>1. CASE k = "B" /\ st.code = 0
      <4>1. st' = Assign(st, [code |-> 2, pos |-> 0])
        BY <2>1, <3>1 DEF progMainStateMachine
      <4>2. st'.top = st.top /\ st'.pos = 0
        BY <4>1, SlotNames DEF Assign
      <4>3. Settled(st')
        BY <1>3, <3>0, <4>1, <4>2
      <4> QED BY <4>3, SettledAsked
    <3>2. CASE k = "B" /\ st.code = 1
      <4> DEFINE s == Assign(st, [pos |-> 0, code |-> 0, main |-> 0])
      <4>1. EndPass(s, shown)
        BY <2>1, <3>2 DEF progMainStateMachine
      <4>2. s.top = st.top /\ s.main = 0
        BY SlotNames DEF Assign
      <4>3. Settled(s)
        BY <1>3, <3>0, <4>2
      <4> QED BY <4>1, <4>3, AskedEndPass
    <3>3. CASE ~ (k = "B" /\ st.code \in {0, 1})
      <4> DEFINE s == Assign(st, Cursor("code", p))
      <4>1. EndPass(s, shown)
        BY <2>1, <3>3 DEF progMainStateMachine
      <4>2. p \in Int
        BY <3>0 DEF menuPositionUpDn
      <4>3. \A x \in Slots : s[x] = IF x \in {"code", "pos"} THEN p ELSE st[x]
        BY CursorIs
      <4>4. s.top = st.top /\ s.code = p /\ s.pos = p
        BY <4>3, SlotNames
      <4>5. s \in [Slots -> Int]
        BY <1>0, <4>2, <4>3 DEF Assign
      <4>6. Settled(s)
        BY <3>0, <4>4, <4>5 DEF Settled, NavOk, OnLan
      <4> QED BY <4>1, <4>6, AskedEndPass
    <3> QED BY <3>0, <3>1, <3>2, <3>3
  <2>2. CASE Login(k)
    <3>0. st.user \in {0, 1} /\ st.top # 13 /\ st.code = 2
      BY <2>2, <1>4 DEF Login
    <3>1. CASE EndPass(Assign(st, [user |-> 2, pos |-> 0, top |-> 0]), "PROG")
      <4> DEFINE s == Assign(st, [user |-> 2, pos |-> 0, top |-> 0])
      <4>1. s.top = 0 /\ s.pos = 0
        BY SlotNames DEF Assign
      <4>2. Settled(s)
        BY <1>3, <3>0, <4>1
      <4> QED BY <3>1, <4>2, AskedEndPass
    <3>2. CASE EndPass(Assign(st, [user |-> 1]), shown)
      <4> DEFINE s == Assign(st, [user |-> 1])
      <4>1. s.top = st.top /\ s.user = 1 /\ s.code = 2
        BY <3>0, SlotNames DEF Assign
      <4>2. Settled(s)
        BY <1>3, <3>0, <4>1
      <4> QED BY <3>2, <4>2, AskedEndPass
    <3> QED BY <2>2, <3>1, <3>2 DEF Login
  <2>3. CASE proLampTestExt(k)
    <3> DEFINE p == menuPositionUpDn(k, 0, 4)
    <3>0. st.main = 2 /\ st.top # 13 /\ st.pos \in Int
      BY <2>3, <1>0, <1>4, SlotNames DEF proLampTestExt
    <3>1. CASE st.test = 4 /\ k = "B"
      <4>1. st' = Assign(st, [test |-> 0, main |-> 0, pos |-> 0, user |-> 0,
                              code |-> 0, top |-> 0, sub |-> 0])
        BY <2>3, <3>1 DEF proLampTestExt
      <4>2. st'.top = 0 /\ st'.main = 0
        BY <4>1, SlotNames DEF Assign
      <4>3. Settled(st')
        BY <1>3, <3>0, <4>1, <4>2
      <4> QED BY <4>3, SettledAsked
    <3>2. CASE ~ (st.test = 4 /\ k = "B")
      <4>1. st' = Assign(st, Cursor("test", p))
        BY <2>3, <3>2 DEF proLampTestExt
      <4>2. p \in Int
        BY <3>0 DEF menuPositionUpDn
      <4>3. \A x \in Slots : st'[x] = IF x \in {"test", "pos"} THEN p ELSE st[x]
        BY <4>1, CursorIs
      <4>4. st'.top = st.top /\ st'.main = 2
        BY <3>0, <4>3, SlotNames
      <4>5. st' \in [Slots -> Int]
        BY <1>0, <4>1, <4>2, <4>3 DEF Assign
      <4>6. Settled(st')
        BY <3>0, <4>4, <4>5, AskedOutside
      <4> QED BY <4>6, SettledAsked
    <3> QED BY <3>1, <3>2
  <2>4. CASE rebootButton(k)
    <3>0. st.main = 3 /\ st.top # 13
      BY <2>4, <1>4 DEF rebootButton
    <3>1. CASE st' = Assign(st, [user |-> 2, pos |-> 0, top |-> 0])
      <4>1. st'.top = 0 /\ st'.main = 3
        BY <3>0, <3>1, SlotNames DEF Assign
      <4>2. Settled(st')
        BY <1>3, <3>0, <3>1, <4>1
      <4> QED BY <4>2, SettledAsked
    <3>2. CASE st' = Assign(st, [user |-> 1])
      <4>1. st'.top = st.top /\ st'.main = 3
        BY <3>0, <3>2, SlotNames DEF Assign
      <4>2. Settled(st')
        BY <1>3, <3>0, <3>2, <4>1
      <4> QED BY <4>2, SettledAsked
    <3>3. CASE st' = st
      BY <1>2, <2>4, <3>3 DEF rebootButton
    <3> QED BY <2>4, <3>1, <3>2, <3>3 DEF rebootButton
  <2>5. CASE InMenus /\ \E m \in {Active} : MenuPass(k, m, st[Menus[m].slot])
    BY <2>5, AskedMenu
  <2> QED BY <1>10, <2>1, <2>2, <2>3, <2>4, <2>5 DEF Pass
<1>11. CASE UNCHANGED vars
  BY <1>2, <1>11 DEF vars, nav
<1> QED BY <1>5, <1>6, <1>7, <1>8, <1>9, <1>10, <1>11 DEF Next

LEMMA AskedInvariant == Spec => []AskedInv
<1>1. Init => AskedInv
  BY DEF Init, AskedInv, NavOk, OnLan, Slots
<1>2. AskedInv /\ [Next]_vars => AskedInv'
  BY AskedStep DEF AskedNext
<1> QED BY <1>1, <1>2, PTL DEF Spec

\* resetDHCP and configureStaticNetwork run only on a second B on the screen
\* that asked, with no other key that moves, and no exit or time-out, between.
THEOREM NetworkModeAlwaysConfirmed == Spec => NetworkModeIsConfirmed
<1> DEFINE A == hostDhcp' # hostDhcp => asked = st.ssub /\ st.ssub \in {24, 25}
<1>1. AskedInv /\ [Next]_vars => A
  <2> SUFFICES ASSUME AskedInv, [Next]_vars, hostDhcp' # hostDhcp
               PROVE  asked = st.ssub /\ st.ssub \in {24, 25}
    OBVIOUS
  <2>1. ASSUME UNCHANGED lan PROVE FALSE
    BY <2>1 DEF lan
  <2>2. ASSUME Restart(hostDhcp) PROVE FALSE
    BY <2>2 DEF Restart
  <2>3. ASSUME rebootPanel({hostDhcp}) PROVE FALSE
    BY <2>2, <2>3 DEF rebootPanel
  <2>4. PICK k \in Keys : Pass(k)
    BY <2>1, <2>3 DEF Next, TickTimer, dispStateMachine, KeyA, KeyDOrUp, RebootButtonReboots, vars
  <2>5. ~ (progMainStateMachine(k) \/ Login(k) \/ proLampTestExt(k) \/ rebootButton(k))
    BY <2>1 DEF progMainStateMachine, Login, proLampTestExt, rebootButton
  <2> DEFINE m == Active
             v == st[Menus[m].slot]
  <2>6. InMenus /\ MenuPass(k, m, v)
    BY <2>4, <2>5 DEF Pass
  <2> HIDE DEF m
  <2>7. ~ (OpenMenu(k, m, v) \/ LeaveMenu(k, m, v) \/ LeaveAndReboot(k, m, v) \/ ChangeModem(k, m, v)
           \/ Provision(k, m, v) \/ Walk(k, m, v) \/ NoScreen(k, m, v))
    BY <2>1 DEF OpenMenu, LeaveMenu, LeaveAndReboot, ChangeModem, Provision, Walk, NoScreen
  <2>8. ~ (ExitReboots(k, m, v) \/ PowerCommand(k, m, v) \/ ResetToDefault(k, m, v)
           \/ TypePastTheEnd(k, m, v))
    BY <2>1, <2>2, <2>3 DEF ExitReboots, PowerCommand, ResetToDefault, TypePastTheEnd
  <2>9. ~ (LanPass(k, m, v) \/ EntryPass(k, m, v))
    BY DEF LanPass, EntryPass
  <2>10. SecondB(k, m, v)
    BY <2>6, <2>7, <2>8, <2>9 DEF MenuPass, ConfigureReboots, ConfigureOnly
  <2>11. m = "LAN_SETUP" /\ v \in {24, 25}
    BY <2>10 DEF SecondB
  <2>12. OnLan(st) /\ v = st.ssub
    <3>1. m = Active
      BY DEF m
    <3> QED BY <2>11, <3>1, Elsewhere DEF AskedInv
  <2> QED BY <2>10, <2>11, <2>12 DEF AskedInv, SecondB, PendingDhcp, PendingStatic
<1> QED BY <1>1, AskedInvariant, PTL DEF NetworkModeIsConfirmed, Spec

-----------------------------------------------------------------------------
(* The screens in front of a stored text.                                  *)

Kind(s, d) == "does" \in DOMAIN s /\ s.does = d

LEMMA ScreenKind ==
  ASSUME NEW d
  PROVE  /\ \A c : Kind(Screen(c, d), d)
         /\ \A s : Kind(s, d) => Kind(Home(s), d)
         /\ \A s, cells : Kind(s, d) => Kind(Emptied(s, cells), d)
         /\ \A s, b, f : Kind(s, d) => Kind(For(s, b, f), d)
<1>1. \A c : Kind(Screen(c, d), d)
  BY DEF Screen, Kind
<1>2. \A s : Kind(s, d) => Kind(Home(s), d)
  BY DEF Home, Kind
<1>3. \A s, cells : Kind(s, d) => Kind(Emptied(s, cells), d)
  BY DEF Emptied, Kind
<1>4. \A s, b, f : Kind(s, d) => Kind(For(s, b, f), d)
  BY DEF For, Kind
<1> QED BY <1>1, <1>2, <1>3, <1>4

List(a, n) == a = [i \in 1..n |-> a[i]]

\* A list of n screens, in which what leads past a text leads at most to
\* position z
Within(a, n, z) ==
  /\ List(a, n)
  /\ \A i \in 1..n : /\ a[i].does = "ask" => i + 5 <= z
                     /\ a[i].does = "answer" => i + 4 <= z
                     /\ a[i].does \in {"secret", "shown"} => i + 3 <= z

\* c is the list a followed by the list b.
Joins(c, a, b, n, k) ==
  /\ List(c, n + k)
  /\ \A i \in 1..n : c[i] = a[i]
  /\ \A i \in 1..k : c[n + i] = b[i]

LEMMA Joined ==
  ASSUME NEW a, NEW b, NEW n \in Nat, NEW k \in Nat, List(a, n), List(b, k)
  PROVE  Joins(a \o b, a, b, n, k)
<1> DEFINE S == { a[i] : i \in 1..n } \cup { b[i] : i \in 1..k }
<1>1. a \in [1..n -> S] /\ b \in [1..k -> S]
  BY DEF List
<1> HIDE DEF S
<1>2. a \in Seq(S) /\ Len(a) = n /\ b \in Seq(S) /\ Len(b) = k
  BY <1>1
<1>3. /\ a \o b \in Seq(S) /\ Len(a \o b) = n + k
      /\ \A i \in 1..n : (a \o b)[i] = a[i]
      /\ \A i \in 1..k : (a \o b)[n + i] = b[i]
  BY <1>2
<1>4. List(a \o b, n + k)
  BY <1>3 DEF List
<1> QED BY <1>3, <1>4 DEF Joins

\* A position of a joined list is one of the first or one of the second list.
LEMMA JoinedPosition ==
  ASSUME NEW n \in Nat, NEW k \in Nat, NEW i \in 1..n + k
  PROVE  i \in 1..n \/ \E j \in 1..k : i = n + j
<1>1. CASE i <= n
  BY <1>1
<1>2. CASE i > n
  <2>1. i - n \in 1..k /\ i = n + (i - n)
    BY <1>2
  <2> QED BY <2>1
<1> QED BY <1>1, <1>2

LEMMA WithinJoin ==
  ASSUME NEW a, NEW b, NEW n \in Nat, NEW k \in Nat, NEW y \in Nat, NEW z \in Nat,
         NEW w \in Nat, Within(a, n, y), Within(b, k, z), y <= w, n + z <= w
  PROVE  Within(a \o b, n + k, w)
<1>0. List(a, n) /\ List(b, k)
  BY DEF Within
<1>1. Joins(a \o b, a, b, n, k)
  BY <1>0, Joined
<1>2. ASSUME NEW i \in 1..n + k
      PROVE  /\ (a \o b)[i].does = "ask" => i + 5 <= w
             /\ (a \o b)[i].does = "answer" => i + 4 <= w
             /\ (a \o b)[i].does \in {"secret", "shown"} => i + 3 <= w
  <2>1. CASE i \in 1..n
    <3>1. (a \o b)[i] = a[i]
      BY <1>1, <2>1 DEF Joins
    <3>2. /\ a[i].does = "ask" => i + 5 <= y
          /\ a[i].does = "answer" => i + 4 <= y
          /\ a[i].does \in {"secret", "shown"} => i + 3 <= y
      BY <2>1 DEF Within
    <3> QED BY <2>1, <3>1, <3>2
  <2>2. ASSUME NEW j \in 1..k, i = n + j
        PROVE  /\ (a \o b)[i].does = "ask" => i + 5 <= w
               /\ (a \o b)[i].does = "answer" => i + 4 <= w
               /\ (a \o b)[i].does \in {"secret", "shown"} => i + 3 <= w
    <3>1. (a \o b)[i] = b[j]
      BY <1>1, <2>2 DEF Joins
    <3>2. /\ b[j].does = "ask" => j + 5 <= z
          /\ b[j].does = "answer" => j + 4 <= z
          /\ b[j].does \in {"secret", "shown"} => j + 3 <= z
      BY DEF Within
    <3> QED BY <2>2, <3>1, <3>2
  <2> QED BY <2>1, <2>2, JoinedPosition
<1> QED BY <1>1, <1>2 DEF Joins, Within

LEMMA DeviceIpIs == ASSUME NEW d
  PROVE  Within(DeviceIp(d), 4, 0)
<1> DEFINE p == Screen(1, "choose")
           q == Home(Screen(0, "show"))
           r == Home(Emptied(For(Screen(1, "type"), "number", <<d, "ip">>), 0..DeviceLen - 1))
           s == Home(For(Screen(0, "save"), "number", <<d, "ip">>))
<1>1. Kind(p, "choose")
  BY ScreenKind
<1>2. Kind(q, "show")
  BY ScreenKind
<1>3. Kind(r, "type")
  BY ScreenKind
<1>4. Kind(s, "save")
  BY ScreenKind
<1>5. DeviceIp(d) = <<p, q, r, s>>
  BY DEF DeviceIp
<1> HIDE DEF p, q, r, s
<1> QED BY <1>1, <1>2, <1>3, <1>4, <1>5 DEF Kind, List, Within

LEMMA DeviceNameIs == ASSUME NEW d, NEW c
  PROVE  Within(DeviceName(d, c), 3, 0)
<1> DEFINE p == Home(For(Screen(c, "load"), "line", <<d, "name">>))
           q == Home(For(Screen(0, "type"), "line", <<d, "name">>))
           r == Home(For(Screen(1, "save"), "line", <<d, "name">>))
<1>1. Kind(p, "load")
  BY ScreenKind
<1>2. Kind(q, "type")
  BY ScreenKind
<1>3. Kind(r, "save")
  BY ScreenKind
<1>4. DeviceName(d, c) = <<p, q, r>>
  BY DEF DeviceName
<1> HIDE DEF p, q, r
<1> QED BY <1>1, <1>2, <1>3, <1>4 DEF Kind, List, Within

LEMMA DevicePortIs == ASSUME NEW c
  PROVE  Within(DevicePort(c), 2, 0)
<1> DEFINE p == Screen(1, "choose")
           q == Screen(c, "exit")
<1>1. Kind(p, "choose")
  BY ScreenKind
<1>2. Kind(q, "exit")
  BY ScreenKind
<1>3. DevicePort(c) = <<p, q>>
  BY DEF DevicePort
<1> HIDE DEF p, q
<1> QED BY <1>1, <1>2, <1>3 DEF Kind, List, Within

LEMMA NameTextIs == ASSUME NEW m
  PROVE  Within(NameText(m), 4, 0)
<1> DEFINE p == Home(Screen(1, "show"))
           q == Home(For(Screen(0, "type"), "line", <<m, "name">>))
           r == Home(For(Screen(1, "file"), "line", <<m, "name">>))
           s == Screen(-1, "exit")
<1>1. Kind(p, "show")
  BY ScreenKind
<1>2. Kind(q, "type")
  BY ScreenKind
<1>3. Kind(r, "file")
  BY ScreenKind
<1>4. Kind(s, "exit")
  BY ScreenKind
<1>5. NameText(m) = <<p, q, r, s>>
  BY DEF NameText
<1> HIDE DEF p, q, r, s
<1> QED BY <1>1, <1>2, <1>3, <1>4, <1>5 DEF Kind, List, Within

LEMMA SolTextIs ==
  Within(SolText, 4, 0)
<1> DEFINE p == Home(Emptied(For(Screen(1, "show"), "line", <<"SOL_ID", "name">>), Cells))
           q == Home(Emptied(For(Screen(1, "type"), "line", <<"SOL_ID", "name">>), Cells))
           r == Home(For(Screen(1, "id"), "line", <<"SOL_ID", "name">>))
           s == Screen(-1, "exit")
<1>1. Kind(p, "show")
  BY ScreenKind
<1>2. Kind(q, "type")
  BY ScreenKind
<1>3. Kind(r, "id")
  BY ScreenKind
<1>4. Kind(s, "exit")
  BY ScreenKind
<1>5. SolText = <<p, q, r, s>>
  BY DEF SolText
<1> HIDE DEF p, q, r, s
<1> QED BY <1>1, <1>2, <1>3, <1>4, <1>5 DEF Kind, List, Within

LEMMA CredentialTextIs == ASSUME NEW c, NEW cells
  PROVE  Within(CredentialText(c, cells), 4, 4)
<1> DEFINE p == Home(Emptied(For(Screen(0, "shown"), "credential", <<c, "credential">>), cells))
           q == Home(Emptied(For(Screen(1, "type"), "credential", <<c, "credential">>), Cells))
           r == Home(For(Screen(1, "save"), "credential", <<c, "credential">>))
           s == Screen(-1, "exit")
<1>1. Kind(p, "shown")
  BY ScreenKind
<1>2. Kind(q, "type")
  BY ScreenKind
<1>3. Kind(r, "save")
  BY ScreenKind
<1>4. Kind(s, "exit")
  BY ScreenKind
<1>5. CredentialText(c, cells) = <<p, q, r, s>>
  BY DEF CredentialText
<1> HIDE DEF p, q, r, s
<1> QED BY <1>1, <1>2, <1>3, <1>4, <1>5 DEF Kind, List, Within

LEMMA CredentialGateIs ==
  Within(CredentialGate, 2, 6)
<1> DEFINE p == Screen(-1, "ask")
           q == Screen(-1, "answer")
<1>1. Kind(p, "ask")
  BY ScreenKind
<1>2. Kind(q, "answer")
  BY ScreenKind
<1>3. CredentialGate = <<p, q>>
  BY DEF CredentialGate
<1> HIDE DEF p, q
<1> QED BY <1>1, <1>2, <1>3 DEF Kind, List, Within

LEMMA DevicePassIs == ASSUME NEW d, NEW e, Kind(e, "type") \/ Kind(e, "save")
  PROVE  Within(DevicePass(d, e), 5, 6)
<1> DEFINE p == Screen(-1, "ask")
           q == Screen(-1, "answer")
           r == Home(For(Screen(1, "secret"), "line", <<d, "password">>))
           s == Home(DeviceTyped(d))
<1>1. Kind(p, "ask")
  BY ScreenKind
<1>2. Kind(q, "answer")
  BY ScreenKind
<1>3. Kind(r, "secret")
  BY ScreenKind
<1>4. Kind(s, "type")
  BY ScreenKind DEF DeviceTyped
<1>5. DevicePass(d, e) = <<p, q, r, s, e>>
  BY DEF DevicePass
<1> HIDE DEF p, q, r, s
<1> QED BY <1>1, <1>2, <1>3, <1>4, <1>5 DEF Kind, List, Within

LEMMA ScreensWithin ==
  ASSUME NEW m \in DOMAIN Screens \ {"LAN_SETUP"}
  PROVE  /\ Within(Screens[m], Menus[m].exit + 1, Menus[m].exit + 1)
         /\ m \notin {"PROG", "NETWORK_COMMUNICATION", "DEVICE_PROVISIONING", "SYSTEM_TEST"}
<1>1. /\ Menus["TEXECOM_BAS"].exit = 10
      /\ \A d \in {"HIKVISION_NVR", "HIKVISION_BACS", "DAHUA_NVR", "CP_PLUS_NVR", "HIK_BAS"} :
           Menus[d].exit = 13
      /\ \A d \in CredentialMenus : Menus[d].exit = 5
      /\ \A d \in {"SITE_NAME", "BRAND_NAME", "SOL_ID"} : Menus[d].exit = 3
  BY MenuOf DEF Menu, CredentialMenus, HIKVISION_NVR_PROG, HIKVISION_BACS_PROG, DAHUA_NVR_PROG,
     CP_PLUS_NVR_PROG, TEXECOM_BAS_PROG, HIK_BAS_PROG, SubMenuClientAddress, SubMenuUserName,
     SubMenuPassword, SubMenuAccessToken, SubMenuBranchAddress, SubMenuBrandAddress, SOL_ID_PROG
<1>2. ASSUME NEW d, NEW c, NEW e, Kind(e, "type") \/ Kind(e, "save"), NEW x
      PROVE  /\ Within(DeviceIp(d) \o DeviceName(d, c) \o DevicePass(d, e) \o DevicePort(x), 14, 14)
             /\ Within(DeviceIp(d) \o DevicePass(d, e) \o DevicePort(x), 11, 11)
  <2>1. Within(DeviceIp(d) \o DeviceName(d, c), 4 + 3, 7)
    BY DeviceIpIs, DeviceNameIs, WithinJoin
  <2>2. Within(DeviceIp(d) \o DeviceName(d, c) \o DevicePass(d, e), 7 + 5, 13)
    BY <1>2, <2>1, DevicePassIs, WithinJoin
  <2>3. Within(DeviceIp(d) \o DeviceName(d, c) \o DevicePass(d, e) \o DevicePort(x), 12 + 2, 14)
    BY <2>2, DevicePortIs, WithinJoin
  <2>4. Within(DeviceIp(d) \o DevicePass(d, e), 4 + 5, 10)
    BY <1>2, DeviceIpIs, DevicePassIs, WithinJoin
  <2>5. Within(DeviceIp(d) \o DevicePass(d, e) \o DevicePort(x), 9 + 2, 11)
    BY <2>4, DevicePortIs, WithinJoin
  <2> QED BY <2>3, <2>5
<1>3. ASSUME NEW c, NEW cells
      PROVE  Within(CredentialGate \o CredentialText(c, cells), 6, 6)
  <2>1. Within(CredentialGate \o CredentialText(c, cells), 2 + 4, 6)
    BY CredentialGateIs, CredentialTextIs, WithinJoin
  <2> QED BY <2>1
<1>4. \A d : Kind(DeviceTyped(d), "type") /\ Kind(DeviceStored(d), "save")
  BY ScreenKind DEF DeviceTyped, DeviceStored
<1>5. /\ Within(Screens["HIKVISION_NVR"], 14, 14) /\ Within(Screens["HIKVISION_BACS"], 14, 14)
      /\ Within(Screens["DAHUA_NVR"], 14, 14) /\ Within(Screens["CP_PLUS_NVR"], 14, 14)
  BY <1>2, <1>4 DEF Screens, HIKVISION_NVR_Ip, HIKVISION_NVR_Name, HIKVISION_NVR_Pass,
     HIKVISION_NVR_Port, HIKVISION_BACS_Ip, HIKVISION_BACS_Name, HIKVISION_BACS_Pass,
     HIKVISION_BACS_Port, DAHUA_NVR_Ip, DAHUA_NVR_Name, DAHUA_NVR_Pass, DAHUA_NVR_Port,
     CP_PLUS_NVR_Ip, CP_PLUS_NVR_Name, CP_PLUS_NVR_Pass, CP_PLUS_NVR_Port
<1>6. Within(Screens["TEXECOM_BAS"], 11, 11) /\ Within(Screens["HIK_BAS"], 14, 14)
  BY <1>2, <1>4 DEF Screens, TEXECOM_BAS_Ip, TEXECOM_BAS_Pass, TEXECOM_BAS_Port, HIK_BAS_Ip,
     HIK_BAS_Name, HIK_BAS_Pass, HIK_BAS_Port
<1>7. \A d \in CredentialMenus : Within(Screens[d], 6, 6)
  <2>1. /\ Screens["CLIENT_ID"] = CredentialGate \o ClientText
        /\ Screens["USER_NAME"] = CredentialGate \o UserText
        /\ Screens["PASSWORD"] = CredentialGate \o PasswordText
        /\ Screens["ACCESS_TOKEN"] = CredentialGate \o TokenText
    BY DEF Screens
  <2> QED BY <1>3, <2>1 DEF CredentialMenus, ClientText, UserText, PasswordText, TokenText
<1>8. \A d \in {"SITE_NAME", "BRAND_NAME", "SOL_ID"} : Within(Screens[d], 4, 0)
  BY NameTextIs, SolTextIs DEF Screens
<1>9. \A d \in {"SITE_NAME", "BRAND_NAME", "SOL_ID"} : Within(Screens[d], 4, 4)
  BY <1>8 DEF Within
<1>10. m \in {"HIKVISION_NVR", "HIKVISION_BACS", "DAHUA_NVR", "CP_PLUS_NVR", "TEXECOM_BAS",
              "HIK_BAS", "SITE_NAME", "BRAND_NAME", "SOL_ID"} \cup CredentialMenus
  BY DEF Screens, CredentialMenus
<1>11. m \notin {"PROG", "NETWORK_COMMUNICATION", "DEVICE_PROVISIONING", "SYSTEM_TEST"}
  BY <1>10 DEF CredentialMenus
<1> QED BY <1>1, <1>5, <1>6, <1>7, <1>9, <1>10, <1>11

-----------------------------------------------------------------------------
(* The menu on the LCD.                                                    *)

\* The globals s with menu h on the LCD: the variables above h hold its path,
\* its own variable a screen of h, the cursor a screen of h; the variable of
\* the second level, which four menus are opened without resetting, is clean on
\* the first menu and outside the menus.
ShownOk(s, h) ==
  /\ h \in DOMAIN Menus
  /\ h \in {"PROG", "SYSTEM_TEST"} \/ s.user # 2 => s.sub = 0
  /\ s.user = 2 /\ s.main # 3 =>
       /\ \A x \in DOMAIN Paths[h] : s[x] = Paths[h][x]
       /\ h = "SYSTEM_TEST" \/ s[Menus[h].slot] \in 0..Menus[h].exit
  /\ s.main = 1 /\ s.code = 2 /\ s.user = 2 => s.pos \in 0..Menus[h].last

ShownInv == shown # Unknown => ShownOk(st, shown)

LEMMA ShownEndPass ==
  ASSUME NEW s, NEW h, shown # Unknown /\ h # Unknown => ShownOk(s, h), EndPass(s, h)
  PROVE  ShownInv'
<1> SUFFICES ASSUME shown' # Unknown PROVE ShownOk(st', shown')
  BY DEF ShownInv
<1>1. shown # Unknown /\ ~ (tick10Min /\ s.user = 2) /\ shown' = h
  BY DEF EndPass
<1>2. CASE ~ tick10Min
  BY <1>1, <1>2 DEF EndPass, exitMenuAuto
<1>3. CASE tick10Min
  <2>1. st' = Assign(s, [code |-> 0, main |-> 0, pos |-> 0, user |-> 0, top |-> 0])
    BY <1>3 DEF EndPass, exitMenuAuto
  <2>2. st'.user = 0 /\ st'.main = 0 /\ st'.sub = s.sub
    BY <2>1, SlotNames DEF Assign
  <2> QED BY <1>1, <1>3, <2>2 DEF ShownOk
<1> QED BY <1>2, <1>3

LEMMA ShownActive ==
  ASSUME ShownInv, InMenus, shown # Unknown
  PROVE  Active = shown /\ ShownOk(st, shown)
<1>1. ShownOk(st, shown) /\ st.user = 2 /\ st.main = 1
  BY DEF ShownInv, InMenus
<1>2. OnPath(shown)
  BY <1>1 DEF ShownOk, OnPath
<1>3. Menus["SYSTEM_TEST"].opens = {}
  BY MenuOf DEF SYSTEM_TEST, Menu
<1>4. Called(shown) = shown
  BY <1>1, <1>3, CalledStays DEF ShownOk
<1> QED BY <1>1, <1>2, <1>4, ActiveIs DEF ShownOk

LEMMA PathSlots ==
  ASSUME NEW m \in DOMAIN Menus
  PROVE  /\ \A x \in DOMAIN Paths[m] : x \in Slots \ {"pos", "main", "code", "user", "rtc", "test"}
         /\ Menus[m].slot \in Slots \ {"pos", "main", "code", "user"}
         /\ Menus[m].slot \notin DOMAIN Paths[m]
<1>1. WellFormed(m)
  BY MenuTree
<1>2. DOMAIN Paths[m] \subseteq {"top", "sub", "ssub", "sssub"}
  BY <1>1 DEF WellFormed
<1>3. {"top", "sub", "ssub", "sssub"} \subseteq Slots \ {"pos", "main", "code", "user", "rtc", "test"}
  BY DEF Slots
<1> QED BY <1>1, <1>2, <1>3 DEF WellFormed

\* The cursor and the screen move; no menu keeps its number in rtcProgSetMenu.
LEMMA ShownMoves ==
  ASSUME InMenus, NEW m, ShownOk(st, m), NEW s,
         \A x \in Slots \ {Menus[m].slot, "pos", "rtc"} : s[x] = st[x],
         s.pos \in 0..Menus[m].last, s[Menus[m].slot] \in 0..Menus[m].exit
  PROVE  ShownOk(s, m)
<1>1. m \in DOMAIN Menus
  BY DEF ShownOk
<1>2. s.user = 2 /\ s.main = 1
  BY <1>1, PathSlots, SlotNames DEF InMenus
<1>3. \A x \in DOMAIN Paths[m] : s[x] = Paths[m][x]
  BY <1>1, PathSlots DEF ShownOk, InMenus
<1>4. m \in {"PROG", "SYSTEM_TEST"} => s.sub = 0
  <2>1. m \in {"PROG", "SYSTEM_TEST"} => Menus[m].slot # "sub"
    BY MenuOf DEF progStateMachineSubState, SYSTEM_TEST, Menu
  <2> QED BY <2>1, SlotNames DEF ShownOk
<1> QED BY <1>1, <1>2, <1>3, <1>4 DEF ShownOk

\* The cursor steps: the screen is the cursor's.
LEMMA ShownCursor ==
  ASSUME InMenus, NEW m, ShownOk(st, m), NEW p, p \in 0..Menus[m].last, p \in 0..Menus[m].exit
  PROVE  ShownOk(Assign(st, Cursor(Menus[m].slot, p)), m)
<1> DEFINE s == Assign(st, Cursor(Menus[m].slot, p))
<1>1. \A x \in Slots : s[x] = IF x \in {Menus[m].slot, "pos"} THEN p ELSE st[x]
  BY CursorIs
<1>2. Menus[m].slot \in Slots
  BY PathSlots DEF ShownOk
<1>3. s.pos = p /\ s[Menus[m].slot] = p /\ \A x \in Slots \ {Menus[m].slot, "pos"} : s[x] = st[x]
  BY <1>1, <1>2, SlotNames
<1> HIDE DEF s
<1>4. ShownOk(s, m)
  BY <1>3, ShownMoves
<1> QED BY <1>4 DEF s

LEMMA CursorRange ==
  ASSUME InMenus, NavOk(st), NEW m, ShownOk(st, m), NEW k
  PROVE  menuPositionUpDn(k, 0, Menus[m].last) \in 0..Menus[m].last
<1>1. st.pos \in 0..Menus[m].last /\ Menus[m].last \in Nat
  BY MenuTree DEF ShownOk, InMenus, WellFormed
<1> QED BY <1>1 DEF menuPositionUpDn

LEMMA ShownOpens ==
  ASSUME InMenus, NEW m, ShownOk(st, m), NEW o \in Menus[m].opens
  PROVE  ShownOk(Assign(Assign(st, o.sets),
                   [x \in {"pos", Menus[m].slot} |-> IF x = "pos" THEN 0 ELSE o.at]), o.menu)
<1> DEFINE s == Assign(Assign(st, o.sets),
                  [x \in {"pos", Menus[m].slot} |-> IF x = "pos" THEN 0 ELSE o.at])
           c == o.menu
<1>0. m \in DOMAIN Menus /\ Fits(m, o)
  BY MenuTree DEF ShownOk
<1>1. c \in DOMAIN Menus /\ WellFormed(c)
  BY <1>0, MenuTree DEF Fits
<1>2. /\ \A x \in DOMAIN o.sets : o.sets[x] = 0
      /\ DOMAIN Paths[c] = DOMAIN Paths[m] \cup {Menus[m].slot}
      /\ Paths[c][Menus[m].slot] = o.at
      /\ \A x \in DOMAIN Paths[m] : Paths[c][x] = Paths[m][x]
      /\ \A x \in DOMAIN Paths[c] \cup {"user", "main", "code", "pos"} : x \notin DOMAIN o.sets
      /\ Menus[c].slot \in DOMAIN o.sets \/ c = "SYSTEM_TEST" \/ (m = "PROG" /\ Menus[c].slot = "sub")
      /\ c = "SYSTEM_TEST" => m = "PROG" /\ "sub" \in DOMAIN o.sets
  BY <1>0 DEF Fits
<1>3. \A x \in Slots : s[x] = IF x = "pos" THEN 0 ELSE IF x = Menus[m].slot THEN o.at
                              ELSE IF x \in DOMAIN o.sets THEN 0 ELSE st[x]
  BY <1>2 DEF Assign
<1>4. s.pos = 0 /\ s.user = 2 /\ s.main = 1 /\ s.code = 2
  BY <1>0, <1>2, <1>3, PathSlots, SlotNames DEF InMenus
<1>5. ASSUME NEW x \in DOMAIN Paths[c] PROVE s[x] = Paths[c][x]
  <2>1. CASE x = Menus[m].slot
    BY <1>0, <1>2, <1>3, <2>1, PathSlots
  <2>2. CASE x \in DOMAIN Paths[m]
    <3>1. x \in Slots /\ x # "pos" /\ x # Menus[m].slot
      BY <1>0, <2>2, PathSlots
    <3>2. s[x] = st[x]
      BY <1>2, <1>3, <3>1
    <3>3. st[x] = Paths[m][x]
      BY <2>2 DEF ShownOk, InMenus
    <3> QED BY <1>2, <2>2, <3>2, <3>3
  <2> QED BY <1>2, <2>1, <2>2
<1>6. c # "PROG"
  BY <1>1, <1>2 DEF WellFormed
<1>7. c = "SYSTEM_TEST" => s.sub = 0
  <2>1. c = "SYSTEM_TEST" => Menus[m].slot = "top"
    BY <1>2, MenuOf DEF progStateMachineSubState, Menu
  <2> QED BY <1>2, <1>3, <2>1, SlotNames
<1>8. c = "SYSTEM_TEST" \/ s[Menus[c].slot] \in 0..Menus[c].exit
  <2>1. /\ Menus[c].slot \in Slots /\ Menus[c].slot # "pos" /\ Menus[c].slot # Menus[m].slot
        /\ Menus[c].exit \in Nat
    BY <1>1, <1>2, PathSlots DEF WellFormed
  <2>2. CASE Menus[c].slot \in DOMAIN o.sets
    BY <1>3, <2>1, <2>2
  <2>3. CASE m = "PROG" /\ Menus[c].slot = "sub"
    <3>1. st.sub = 0
      BY <2>3 DEF ShownOk
    <3> QED BY <1>3, <2>1, <2>3, <3>1
  <2> QED BY <1>2, <2>2, <2>3
<1>9. s.pos \in 0..Menus[c].last
  BY <1>1, <1>4 DEF WellFormed
<1> HIDE DEF s, c
<1>10. ShownOk(s, c)
  BY <1>1, <1>4, <1>5, <1>6, <1>7, <1>8, <1>9 DEF ShownOk
<1> QED BY <1>10 DEF s, c

LEMMA ParentOpens ==
  ASSUME NEW m \in DOMAIN Menus, m # "PROG"
  PROVE  Parent[m] \in DOMAIN Menus /\ \E o \in Menus[Parent[m]].opens : o.menu = m
<1>1. \E p \in DOMAIN Menus : \E o \in Menus[p].opens : o.menu = m
  BY MenuTree
<1>2. Parent[m] = CHOOSE p \in DOMAIN Menus : \E o \in Menus[p].opens : o.menu = m
  BY DEF Parent
<1> QED BY <1>1, <1>2

\* EXIT
LEMMA ShownLeaves ==
  ASSUME InMenus, NEW m, ShownOk(st, m), m # "DEVICE_PVSN"
  PROVE  ShownOk(Left(m), Parent[m])
<1> DEFINE s == Left(m)
<1>0. m \in DOMAIN Menus
  BY DEF ShownOk
<1>1. CASE m = "PROG"
  <2>1. Parent[m] = "PROG" /\ "PROG" \in DOMAIN Menus
    BY <1>0, <1>1 DEF Parent
  <2>2. /\ Menus[m].leaves = [main |-> 0, pos |-> 0, user |-> 0, code |-> 0]
        /\ Menus[m].slot = "top"
    BY <1>1, MenuOf DEF progStateMachineSubState, Menu
  <2>3. s.main = 0 /\ s.user = 0 /\ s.sub = st.sub
    BY <2>2, LeftIs, SlotNames
  <2>4. st.sub = 0
    BY <1>1 DEF ShownOk
  <2> QED BY <2>1, <2>3, <2>4 DEF ShownOk
<1>2. CASE m # "PROG"
  <2> DEFINE p == Parent[m]
  <2>1. p \in DOMAIN Menus /\ \E o \in Menus[p].opens : o.menu = m
    BY <1>0, <1>2, ParentOpens
  <2>2. PICK o \in Menus[p].opens : o.menu = m
    BY <2>1
  <2>3. Fits(p, o)
    BY <2>1, <2>2, MenuTree
  <2> HIDE DEF p
  <2>4. /\ DOMAIN Paths[m] = DOMAIN Paths[p] \cup {Menus[p].slot}
        /\ \A x \in DOMAIN Paths[p] : Paths[m][x] = Paths[p][x]
        /\ Menus[p].slot \in DOMAIN Menus[m].leaves
        /\ Menus[m].leaves[Menus[p].slot] \in 0..Menus[p].exit
        /\ "pos" \in DOMAIN Menus[m].leaves /\ Menus[m].leaves.pos \in 0..Menus[p].last
        /\ DOMAIN Menus[m].leaves \cap (DOMAIN Paths[p] \cup {"main", "user"}) = {}
        /\ p = "PROG" => "sub" \in DOMAIN Menus[m].leaves /\ Menus[m].leaves.sub = 0
    BY <2>2, <2>3 DEF Fits
  <2>5. s.user = 2 /\ s.main = 1
    BY <1>0, <2>4, LeftIs, PathSlots, SlotNames DEF InMenus
  <2>6. s.pos \in 0..Menus[p].last
    BY <2>4, LeftIs, SlotNames
  <2>7. s[Menus[p].slot] \in 0..Menus[p].exit
    BY <2>1, <2>4, LeftIs, PathSlots
  <2>8. ASSUME NEW x \in DOMAIN Paths[p] PROVE s[x] = Paths[p][x]
    <3>1. x \in Slots /\ x \notin {Menus[m].slot, "pos"} /\ x \notin DOMAIN Menus[m].leaves
      BY <1>0, <2>4, PathSlots
    <3>2. s[x] = st[x]
      BY <3>1, LeftIs
    <3>3. st[x] = Paths[m][x]
      BY <2>4 DEF ShownOk, InMenus
    <3> QED BY <2>4, <3>2, <3>3
  <2>9. p # "SYSTEM_TEST"
    BY <2>2, MenuOf DEF SYSTEM_TEST, Menu
  <2>10. p = "PROG" => s.sub = 0
    BY <2>4, LeftIs, SlotNames
  <2> HIDE DEF s
  <2>11. ShownOk(s, p)
    BY <2>1, <2>5, <2>6, <2>7, <2>8, <2>9, <2>10 DEF ShownOk
  <2> QED BY <2>11 DEF s, p
<1> QED BY <1>1, <1>2

\* The screens and the cursor positions a key leads to in a text entry
LEMMA EntryRange ==
  ASSUME NEW k, NEW m \in DOMAIN Screens \ {"LAN_SETUP"}, NEW v \in 0..Menus[m].exit,
         Menus[m].exit \in Nat, Menus[m].last = Menus[m].exit, st.pos \in 0..Menus[m].exit,
         NEW n \in NextScreens(k, m, v)
  PROVE  n.v \in 0..Menus[m].exit /\ n.pos \in 0..Menus[m].exit
<1> DEFINE e == Menus[m].exit
           low == IF m \in CredentialMenus THEN 2
                  ELSE IF m = "TEXECOM_BAS" /\ At(m, v).does = "secret" THEN v ELSE 0
           walked == menuPositionUpDn(k, low, Menus[m].last)
           gated == menuPositionUpDn(k, v, v + 1)
           does == At(m, v).does
<1>1. /\ does = "ask" => v + 5 <= e
      /\ does = "answer" => v + 4 <= e
      /\ does \in {"secret", "shown"} => v + 3 <= e
  <2>1. /\ v + 1 \in 1..Menus[m].exit + 1
        /\ Within(Screens[m], Menus[m].exit + 1, Menus[m].exit + 1)
    BY ScreensWithin
  <2> QED BY <2>1 DEF Within, At
<1>2. low \in Nat
  OBVIOUS
<1>3. walked \in 0..e
  <2> HIDE DEF low
  <2> QED BY <1>2 DEF menuPositionUpDn
<1>4. does = "ask" => gated \in 0..e
  BY <1>1 DEF menuPositionUpDn
<1>5. \/ does = "ask" /\ n \in {[v |-> gated, pos |-> gated], [v |-> v + 2, pos |-> v + 2],
                                [v |-> v + 5, pos |-> st.pos]}
      \/ does = "answer" /\ n \in {[v |-> v, pos |-> st.pos], [v |-> v + 1, pos |-> v + 1],
                                   [v |-> v + 4, pos |-> st.pos]}
      \/ does \in {"secret", "shown"} /\ n \in {[v |-> walked, pos |-> walked], [v |-> v + 3, pos |-> v + 3],
                                                [v |-> v + 3, pos |-> st.pos]}
      \/ n \in {[v |-> walked, pos |-> walked], [v |-> v, pos |-> st.pos]}
  BY DEF NextScreens
<1> HIDE DEF low, walked, gated, does
<1> QED BY <1>1, <1>3, <1>4, <1>5

\* A pass of a menu
LEMMA ShownMenu ==
  ASSUME NavOk(st), ShownInv, InMenus, NEW k \in Keys, NEW m, m = Active,
         NEW v, v = st[Menus[m].slot], MenuPass(k, m, v)
  PROVE  ShownInv'
<1>0. shown # Unknown => m = shown /\ ShownOk(st, m) /\ m \in DOMAIN Menus /\ WellFormed(m)
  BY ShownActive, MenuTree DEF ShownOk
<1>1. ASSUME NEW d, Restart(d) PROVE ShownInv'
  <2>1. st' = [x \in Slots |-> 0] /\ shown' = "PROG"
    BY <1>1 DEF Restart
  <2>2. st'.user = 0 /\ st'.main = 0 /\ st'.sub = 0
    BY <2>1, SlotNames
  <2> QED BY <2>1, <2>2, RootOnPath DEF ShownInv, ShownOk
<1>2. ASSUME NEW c, rebootPanel(c) PROVE ShownInv'
  BY <1>1, <1>2 DEF rebootPanel
<1>3. ASSUME NEW p, p \in 0..Menus[m].last, p \in 0..Menus[m].exit,
             EndPass(Assign(st, Cursor(Menus[m].slot, p)), m)
      PROVE  ShownInv'
  <2>1. shown # Unknown => ShownOk(Assign(st, Cursor(Menus[m].slot, p)), m)
    BY <1>0, <1>3, ShownCursor
  <2> QED BY <1>3, <2>1, ShownEndPass
<1>4. ASSUME m # "DEVICE_PVSN", EndPass(Left(m), Parent[m]) PROVE ShownInv'
  <2>1. shown # Unknown => ShownOk(Left(m), Parent[m])
    BY <1>0, <1>4, ShownLeaves
  <2> QED BY <1>4, <2>1, ShownEndPass
<1>5. ASSUME shown = Unknown, NEW s, NEW h, EndPass(s, h) PROVE ShownInv'
  BY <1>5 DEF EndPass, ShownInv
<1>6. CASE OpenMenu(k, m, v)
  <2>1. PICK o \in Menus[m].opens :
          EndPass(Assign(Assign(st, o.sets),
                    [x \in {"pos", Menus[m].slot} |-> IF x = "pos" THEN 0 ELSE o.at]), o.menu)
    BY <1>6 DEF OpenMenu
  <2>2. shown # Unknown =>
          ShownOk(Assign(Assign(st, o.sets),
                    [x \in {"pos", Menus[m].slot} |-> IF x = "pos" THEN 0 ELSE o.at]), o.menu)
    BY <1>0, ShownOpens
  <2> QED BY <2>1, <2>2, ShownEndPass
<1>7. CASE LeaveMenu(k, m, v)
  BY <1>4, <1>7 DEF LeaveMenu, PlainExit
<1>8. CASE LeaveAndReboot(k, m, v)
  <2>1. CASE m = "DEVICE_PVSN"
    <3>1. st' = Left(m) /\ shown' = "PROG"
      BY <1>8, <2>1 DEF LeaveAndReboot
    <3>2. Menus[m].leaves = [sub |-> 0, ssub |-> 0, main |-> 0, pos |-> 0, user |-> 0,
                             top |-> 0, code |-> 0, zone |-> 0]
      BY <2>1, MenuOf DEF DEVICE_PVSN_PROG, Menu
    <3>3. st'.sub = 0 /\ st'.main = 0 /\ st'.user = 0
      BY <3>1, <3>2, LeftIs, SlotNames
    <3> QED BY <3>1, <3>3, RootOnPath DEF ShownInv, ShownOk
  <2>2. CASE m # "DEVICE_PVSN"
    BY <1>4, <1>8, <2>2 DEF LeaveAndReboot
  <2> QED BY <2>1, <2>2
<1>9. shown # Unknown => st.pos \in 0..Menus[m].last
  BY <1>0 DEF ShownOk, InMenus
<1>10. CASE ChangeModem(k, m, v) \/ ResetToDefault(k, m, v) \/ ConfigureOnly(k, m, v)
  <2>1. \/ \E c : rebootPanel(c)
        \/ /\ EndPass(Assign(st, Cursor("ssub", st.pos)), m)
           /\ m \in {"eSIM_SETTINGS", "ADVANCE_SETTINGS", "LAN_SETUP"}
    BY <1>10 DEF ChangeModem, ResetToDefault, ConfigureOnly, SecondB
  <2>2. m \in {"eSIM_SETTINGS", "ADVANCE_SETTINGS", "LAN_SETUP"} =>
          Menus[m].slot = "ssub" /\ Menus[m].exit = Menus[m].last
    BY MenuOf DEF eSIMSettings, ADVANCE_SETTINGS_PROG, networkSettings, Menu
  <2> QED BY <1>2, <1>3, <1>5, <1>9, <2>1, <2>2
<1>11. CASE Provision(k, m, v)
  <2> DEFINE s == Assign(st, [rtc |-> 0, ssub |-> 0, pos |-> 0])
  <2>1. EndPass(s, m) /\ m = "DEVICE_PVSN"
    BY <1>11 DEF Provision
  <2>2. Menus[m].slot = "ssub" /\ Menus[m].exit = 1 /\ Menus[m].last = 1
    BY <2>1, MenuOf DEF DEVICE_PVSN_PROG, Menu
  <2>3. s.pos = 0 /\ s.ssub = 0 /\ \A x \in Slots \ {"ssub", "pos", "rtc"} : s[x] = st[x]
    BY SlotNames DEF Assign
  <2> HIDE DEF s
  <2>4. shown # Unknown => ShownOk(s, m)
    BY <1>0, <2>2, <2>3, ShownMoves
  <2> QED BY <2>1, <2>4, ShownEndPass
<1>12. CASE Walk(k, m, v)
  <2> DEFINE p == menuPositionUpDn(k, 0, Menus[m].last)
  <2>1. EndPass(Assign(st, Cursor(Menus[m].slot, p)), IF p \in DOMAIN Child[m] THEN Unknown ELSE m)
    BY <1>12 DEF Walk
  <2>2. CASE shown = Unknown
    BY <1>5, <2>1, <2>2
  <2>3. CASE shown # Unknown /\ p \in DOMAIN Child[m]
    BY <2>1, <2>3, ShownEndPass
  <2>4. CASE shown # Unknown /\ p \notin DOMAIN Child[m]
    <3>1. p \in 0..Menus[m].last
      BY <1>0, <2>4, CursorRange
    <3>2. p \in 0..Menus[m].exit
      <4>1. CASE m # "DEVICE_PROVISIONING"
        BY <1>0, <2>4, <3>1, <4>1 DEF WellFormed
      <4>2. CASE m = "DEVICE_PROVISIONING"
        <5>1. /\ Menus[m].last = 4 /\ Menus[m].exit = 2
              /\ Menus[m].opens = { Opens(0, "SOL_ID", 3, [ssub |-> 0]),
                                    Opens(1, "DEVICE_PVSN", 4, [rtc |-> 0, ssub |-> 0]) }
          BY <4>2, MenuOf DEF DEVICE_PROVISIONING, Menu
        <5>2. { o.at : o \in Menus[m].opens } = {3, 4}
          BY <5>1 DEF Opens
        <5>3. DOMAIN Child[m] = {3, 4}
          BY <1>0, <2>4, <5>2, ChildIs
        <5> QED BY <2>4, <3>1, <5>1, <5>3
      <4> QED BY <4>1, <4>2
    <3> QED BY <1>3, <2>1, <2>4, <3>1, <3>2
  <2> QED BY <2>2, <2>3, <2>4
<1>13. CASE NoScreen(k, m, v)
  BY <1>13, ShownEndPass DEF NoScreen, ShownInv
<1>14. CASE LanPass(k, m, v)
  <2>1. m = "LAN_SETUP"
    BY <1>14 DEF LanPass
  <2>2. Menus[m].slot = "ssub" /\ Menus[m].exit = 28 /\ Menus[m].last = 28
    BY <2>1, MenuOf DEF networkSettings, Menu
  <2>3. \/ EndPass(Left(m), Parent[m])
        \/ EndPass(Assign(st, Cursor("ssub", menuPositionUpDn(k, 0, 28))), m)
    BY <1>14 DEF LanPass
  <2>4. shown # Unknown => menuPositionUpDn(k, 0, 28) \in 0..28
    BY <1>0, <2>2, CursorRange
  <2> QED BY <1>3, <1>4, <1>5, <2>1, <2>2, <2>3, <2>4
<1>15. CASE EntryPass(k, m, v)
  <2>1. m \in DOMAIN Screens \ {"LAN_SETUP"} /\ v \in 0..Menus[m].exit
    BY <1>15 DEF EntryPass
  <2>2. PICK n \in NextScreens(k, m, v) :
          EndPass(Assign(st, [x \in {"pos", Menus[m].slot} |-> IF x = "pos" THEN n.pos ELSE n.v]), m)
    BY <1>15 DEF EntryPass
  <2> DEFINE s == Assign(st, [x \in {"pos", Menus[m].slot} |-> IF x = "pos" THEN n.pos ELSE n.v])
  <2>3. CASE shown = Unknown
    BY <1>5, <2>2, <2>3
  <2>4. CASE shown # Unknown
    <3>1. /\ Menus[m].last = Menus[m].exit /\ Menus[m].exit \in Nat
          /\ Menus[m].slot \in Slots \ {"pos"} /\ st.pos \in 0..Menus[m].exit
      BY <1>0, <1>9, <2>1, <2>4, ScreensWithin DEF WellFormed
    <3>2. n.v \in 0..Menus[m].exit /\ n.pos \in 0..Menus[m].exit
      BY <2>1, <2>2, <3>1, EntryRange
    <3>3. \A x \in Slots : s[x] = IF x = "pos" THEN n.pos ELSE IF x = Menus[m].slot THEN n.v
                                  ELSE st[x]
      BY DEF Assign
    <3>4. s.pos = n.pos /\ s[Menus[m].slot] = n.v
          /\ \A x \in Slots \ {Menus[m].slot, "pos", "rtc"} : s[x] = st[x]
      BY <3>1, <3>3, SlotNames
    <3> HIDE DEF s
    <3>5. ShownOk(s, m)
      BY <1>0, <2>4, <3>1, <3>2, <3>4, ShownMoves
    <3> QED BY <2>2, <3>5, ShownEndPass DEF s
  <2> QED BY <2>3, <2>4
<1>16. CASE ExitReboots(k, m, v) \/ PowerCommand(k, m, v) \/ TypePastTheEnd(k, m, v)
            \/ ConfigureReboots(k, m, v)
  BY <1>1, <1>2, <1>16 DEF ExitReboots, PowerCommand, TypePastTheEnd, ConfigureReboots
<1> QED BY <1>6, <1>7, <1>8, <1>10, <1>11, <1>12, <1>13, <1>14, <1>15, <1>16 DEF MenuPass

\* A pass that leaves the variables of the menus alone
LEMMA ShownKeeps ==
  ASSUME ShownInv, shown # Unknown, NEW s,
         \A x \in Slots \ {"pos", "main", "code", "test"} : s[x] = st[x],
         st.main = 3 => s.main = 3,
         s.main = 1 /\ s.code = 2 /\ s.user = 2 => s.pos = 0
  PROVE  ShownOk(s, shown)
<1>1. ShownOk(st, shown) /\ shown \in DOMAIN Menus /\ WellFormed(shown)
  BY MenuTree DEF ShownInv, ShownOk
<1>2. s.user = st.user /\ s.sub = st.sub
  BY SlotNames
<1>3. \A x \in DOMAIN Paths[shown] : s[x] = st[x]
  BY <1>1, PathSlots
<1>4. shown # "SYSTEM_TEST" => s[Menus[shown].slot] = st[Menus[shown].slot]
  <2>1. shown # "SYSTEM_TEST" => Menus[shown].slot # "test"
    BY <1>1 DEF WellFormed
  <2> QED BY <1>1, <2>1, PathSlots
<1>5. Menus[shown].last \in Nat
  BY <1>1 DEF WellFormed
<1> QED BY <1>1, <1>2, <1>3, <1>4, <1>5 DEF ShownOk

LEMMA ShownInvariant == Spec => []ShownInv
<1>1. Init => ShownInv
  <2> SUFFICES ASSUME Init PROVE ShownInv
    OBVIOUS
  <2>1. st.user = 0 /\ st.main = 0 /\ st.sub = 0 /\ shown = "PROG"
    BY SlotNames DEF Init
  <2> QED BY <2>1, RootOnPath DEF ShownInv, ShownOk
<1>2. AskedInv /\ ShownInv /\ [Next]_vars => ShownInv'
  <2> SUFFICES ASSUME AskedInv, ShownInv, [Next]_vars PROVE ShownInv'
    OBVIOUS
  <2>0. NavOk(st)
    BY DEF AskedInv
  <2>1. ASSUME NEW c, rebootPanel(c) PROVE ShownInv'
    <3>1. st' = [x \in Slots |-> 0] /\ shown' = "PROG"
      BY <2>1 DEF rebootPanel, Restart
    <3>2. st'.user = 0 /\ st'.main = 0 /\ st'.sub = 0
      BY <3>1, SlotNames
    <3> QED BY <3>1, <3>2, RootOnPath DEF ShownInv, ShownOk
  <2>2. ASSUME UNCHANGED <<st, shown>> PROVE ShownInv'
    BY <2>2 DEF ShownInv, ShownOk
  <2>3. ASSUME UNCHANGED shown,
               \A x \in Slots \ {"pos", "main", "code", "test"} : st'[x] = st[x],
               st.main = 3 => st'.main = 3,
               st'.main = 1 /\ st'.code = 2 /\ st'.user = 2 => st'.pos = 0
        PROVE  ShownInv'
    BY <2>3, ShownKeeps DEF ShownInv
  <2>4. ASSUME NEW s, EndPass(s, shown),
               \A x \in Slots \ {"pos", "main", "code", "test"} : s[x] = st[x],
               st.main = 3 => s.main = 3,
               s.main = 1 /\ s.code = 2 /\ s.user = 2 => s.pos = 0
        PROVE  ShownInv'
    <3>1. shown # Unknown => ShownOk(s, shown)
      BY <2>4, ShownKeeps
    <3> QED BY <2>4, <3>1, ShownEndPass
  <2>5. CASE TickTimer
    BY <2>2, <2>5 DEF TickTimer
  <2>6. CASE dispStateMachine
    BY <2>2, <2>6 DEF dispStateMachine, vars, nav
  <2>7. CASE KeyA
    <3>1. CASE st.main = 0
      <4> DEFINE s == Assign(st, [main |-> 1, pos |-> 0, code |-> 0])
      <4>1. /\ \A x \in Slots \ {"pos", "main", "code", "test"} : s[x] = st[x]
            /\ s.main = 1 /\ s.pos = 0
        BY SlotNames DEF Assign
      <4>2. EndPass(s, shown)
        BY <2>7, <3>1 DEF KeyA
      <4> HIDE DEF s
      <4> QED BY <2>4, <3>1, <4>1, <4>2
    <3>2. CASE st.main # 0
      <4>1. st' = returnToDisplayScan(st) /\ shown' = "PROG"
        BY <2>7, <3>2 DEF KeyA
      <4>2. st'.user = 0 /\ st'.main = 0 /\ st'.sub = 0
        BY <4>1, SlotNames DEF returnToDisplayScan, Assign
      <4> QED BY <4>1, <4>2, RootOnPath DEF ShownInv, ShownOk
    <3> QED BY <3>1, <3>2
  <2>8. CASE KeyDOrUp
    <3>1. /\ \A x \in Slots \ {"pos", "main", "code", "test"} : st'[x] = st[x]
          /\ st'.main \in {2, 3} /\ st.main = 0
      BY <2>8, SlotNames DEF KeyDOrUp, Assign
    <3>2. UNCHANGED shown
      BY <2>8 DEF KeyDOrUp
    <3> QED BY <2>3, <3>1, <3>2
  <2>9. CASE RebootButtonReboots
    BY <2>1, <2>9 DEF RebootButtonReboots
  <2>10. ASSUME NEW k \in Keys, Pass(k) PROVE ShownInv'
    <3>1. CASE progMainStateMachine(k)
      <4> DEFINE p == menuPositionUpDn(k, 0, 1)
      <4>0. st.main = 1 /\ st.code \in {0, 1} /\ st.pos \in 0..1
        BY <2>0, <3>1 DEF progMainStateMachine, NavOk
      <4>1. CASE k = "B" /\ st.code = 0
        <5>1. st' = Assign(st, [code |-> 2, pos |-> 0]) /\ UNCHANGED shown
          BY <3>1, <4>1 DEF progMainStateMachine
        <5>2. /\ \A x \in Slots \ {"pos", "main", "code", "test"} : st'[x] = st[x]
              /\ st'.main = 1 /\ st'.pos = 0
          BY <4>0, <5>1, SlotNames DEF Assign
        <5> QED BY <2>3, <4>0, <5>1, <5>2
      <4>2. CASE k = "B" /\ st.code = 1
        <5> DEFINE s == Assign(st, [pos |-> 0, code |-> 0, main |-> 0])
        <5>1. EndPass(s, shown)
          BY <3>1, <4>2 DEF progMainStateMachine
        <5>2. /\ \A x \in Slots \ {"pos", "main", "code", "test"} : s[x] = st[x]
              /\ s.main = 0
          BY SlotNames DEF Assign
        <5> HIDE DEF s
        <5> QED BY <2>4, <4>0, <5>1, <5>2
      <4>3. CASE ~ (k = "B" /\ st.code \in {0, 1})
        <5> DEFINE s == Assign(st, Cursor("code", p))
        <5>1. EndPass(s, shown)
          BY <3>1, <4>3 DEF progMainStateMachine
        <5>2. p \in 0..1
          BY <4>0 DEF menuPositionUpDn
        <5>3. \A x \in Slots : s[x] = IF x \in {"code", "pos"} THEN p ELSE st[x]
          BY CursorIs
        <5>4. /\ \A x \in Slots \ {"pos", "main", "code", "test"} : s[x] = st[x]
              /\ s.main = 1 /\ s.code # 2
          BY <4>0, <5>2, <5>3, SlotNames
        <5> HIDE DEF s
        <5> QED BY <2>4, <4>0, <5>1, <5>4
      <4> QED BY <4>0, <4>1, <4>2, <4>3
    <3>2. CASE Login(k)
      <4>0. st.user \in {0, 1}
        BY <3>2 DEF Login
      <4>1. shown # Unknown => ShownOk(st, shown) /\ st.sub = 0
        BY <4>0 DEF ShownInv, ShownOk
      <4>2. CASE EndPass(Assign(st, [user |-> 2, pos |-> 0, top |-> 0]), "PROG")
        <5> DEFINE s == Assign(st, [user |-> 2, pos |-> 0, top |-> 0])
        <5>1. s.top = 0 /\ s.pos = 0 /\ s.sub = st.sub
          BY SlotNames DEF Assign
        <5>2. /\ Menus["PROG"].slot = "top" /\ Menus["PROG"].exit = 10
              /\ Menus["PROG"].last = 10
          BY MenuOf DEF progStateMachineSubState, Menu
        <5>3. DOMAIN Paths["PROG"] = {}
          BY RootOnPath, MenuTree DEF WellFormed
        <5> HIDE DEF s
        <5>4. shown # Unknown => ShownOk(s, "PROG")
          BY <4>1, <5>1, <5>2, <5>3, RootOnPath DEF ShownOk
        <5> QED BY <4>2, <5>4, ShownEndPass DEF s
      <4>3. CASE EndPass(Assign(st, [user |-> 1]), shown)
        <5> DEFINE s == Assign(st, [user |-> 1])
        <5>1. s.user = 1 /\ s.sub = st.sub
          BY SlotNames DEF Assign
        <5> HIDE DEF s
        <5>2. shown # Unknown => ShownOk(s, shown)
          BY <4>1, <5>1 DEF ShownOk
        <5> QED BY <4>3, <5>2, ShownEndPass DEF s
      <4> QED BY <3>2, <4>2, <4>3 DEF Login
    <3>3. CASE proLampTestExt(k)
      <4> DEFINE p == menuPositionUpDn(k, 0, 4)
      <4>0. st.main = 2 /\ UNCHANGED shown
        BY <3>3 DEF proLampTestExt
      <4>1. CASE st.test = 4 /\ k = "B"
        <5>1. st' = Assign(st, [test |-> 0, main |-> 0, pos |-> 0, user |-> 0,
                                code |-> 0, top |-> 0, sub |-> 0])
          BY <3>3, <4>1 DEF proLampTestExt
        <5>2. st'.main = 0 /\ st'.user = 0 /\ st'.sub = 0
          BY <5>1, SlotNames DEF Assign
        <5> QED BY <4>0, <5>2 DEF ShownInv, ShownOk
      <4>2. CASE ~ (st.test = 4 /\ k = "B")
        <5>1. st' = Assign(st, Cursor("test", p))
          BY <3>3, <4>2 DEF proLampTestExt
        <5>2. \A x \in Slots : st'[x] = IF x \in {"test", "pos"} THEN p ELSE st[x]
          BY <5>1, CursorIs
        <5>3. /\ \A x \in Slots \ {"pos", "main", "code", "test"} : st'[x] = st[x]
              /\ st'.main = 2
          BY <4>0, <5>2, SlotNames
        <5> QED BY <2>3, <4>0, <5>3
      <4> QED BY <4>1, <4>2
    <3>4. CASE rebootButton(k)
      <4>0. st.main = 3 /\ UNCHANGED shown
        BY <3>4 DEF rebootButton
      <4>1. CASE st.user < 2 /\ \/ st' = Assign(st, [user |-> 2, pos |-> 0, top |-> 0])
                                \/ st' = Assign(st, [user |-> 1])
        <5>1. shown # Unknown => ShownOk(st, shown) /\ st.sub = 0
          BY <2>0, <4>1, SlotNames DEF ShownInv, ShownOk, NavOk
        <5>2. st'.main = 3 /\ st'.sub = st.sub
          BY <4>0, <4>1, SlotNames DEF Assign
        <5> QED BY <4>0, <5>1, <5>2 DEF ShownInv, ShownOk
      <4>2. CASE st' = st
        BY <2>2, <4>0, <4>2
      <4> QED BY <3>4, <4>1, <4>2 DEF rebootButton
    <3>5. CASE InMenus /\ \E m \in {Active} : MenuPass(k, m, st[Menus[m].slot])
      BY <2>0, <3>5, ShownMenu
    <3> QED BY <2>10, <3>1, <3>2, <3>3, <3>4, <3>5 DEF Pass
  <2>11. CASE UNCHANGED vars
    BY <2>2, <2>11 DEF vars, nav
  <2> QED BY <2>5, <2>6, <2>7, <2>8, <2>9, <2>10, <2>11 DEF Next
<1> QED BY <1>1, <1>2, AskedInvariant, PTL DEF Spec

\* The function that runs is the one of the menu the keys pressed have opened,
\* and its variable holds one of its screens, for all the menus, screens and
\* visits the code allows, the ten-minute return apart.
THEOREM MenuShownAlwaysMenuOpened == Spec => []MenuShownIsMenuOpened
<1>1. ShownInv => MenuShownIsMenuOpened
  BY ShownActive DEF MenuShownIsMenuOpened, ShownOk, InMenus
<1> QED BY <1>1, ShownInvariant, PTL

-----------------------------------------------------------------------------
(* The screens of networkSettings.                                         *)

\* What screen s does to clearKey, to the buffer of the numbers and for whom
Shape(s, clear, does, blank, of) ==
  /\ s.clear = clear /\ s.does = does /\ s.blank = blank /\ s.of = of
  /\ s.buffer = "number"

LEMMA ChoiceShape ==
  ASSUME NEW c, NEW d
  PROVE  /\ Shape(Screen(c, d), c, d, {}, Blank)
         /\ Shape(Emptied(Screen(c, d), Cells), c, d, Cells, Blank)
         /\ Shape(Home(Emptied(Screen(c, d), Cells)), c, d, Cells, Blank)
BY DEF Shape, Screen, Emptied, Home

\* The screen a number is typed on, and the one that stores it
LEMMA TypingShape ==
  ASSUME NEW f, NEW c
  PROVE  /\ List(LanTyping(f, c), 2)
         /\ Shape(LanTyping(f, c)[1], c, "type", Cells, <<"LAN_SETUP", f>>)
         /\ Shape(LanTyping(f, c)[2], 1 - c, "save", {}, <<"LAN_SETUP", f>>)
<1> DEFINE p == Home(Emptied(For(Screen(c, "type"), "number", <<"LAN_SETUP", f>>), Cells))
           q == For(Screen(1 - c, "save"), "number", <<"LAN_SETUP", f>>)
<1>1. LanTyping(f, c) = <<p, q>>
  BY DEF LanTyping
<1>2. Shape(p, c, "type", Cells, <<"LAN_SETUP", f>>)
  BY DEF Shape, Screen, For, Emptied, Home
<1>3. Shape(q, 1 - c, "save", {}, <<"LAN_SETUP", f>>)
  BY DEF Shape, Screen, For
<1> HIDE DEF p, q
<1> QED BY <1>1, <1>2, <1>3 DEF List

\* l is the list a followed by the two screens of a typing.
Typing(l, a, n, f, c) ==
  /\ List(l, n + 2)
  /\ \A i \in 1..n : l[i] = a[i]
  /\ Shape(l[n + 1], c, "type", Cells, <<"LAN_SETUP", f>>)
  /\ Shape(l[n + 2], 1 - c, "save", {}, <<"LAN_SETUP", f>>)

LEMMA TypingJoins ==
  ASSUME NEW a, NEW n \in Nat, List(a, n), NEW f, NEW c
  PROVE  Typing(a \o LanTyping(f, c), a, n, f, c)
<1>1. Joins(a \o LanTyping(f, c), a, LanTyping(f, c), n, 2)
  BY Joined, TypingShape
<1> DEFINE l == a \o LanTyping(f, c)
           t == LanTyping(f, c)
<1>2. /\ Shape(t[1], c, "type", Cells, <<"LAN_SETUP", f>>)
      /\ Shape(t[2], 1 - c, "save", {}, <<"LAN_SETUP", f>>)
  BY TypingShape
<1> HIDE DEF l, t
<1>3. Joins(l, a, t, n, 2)
  BY <1>1 DEF l, t
<1>4. 1 \in 1..2 /\ 2 \in 1..2
  OBVIOUS
<1>5. l[n + 1] = t[1] /\ l[n + 2] = t[2]
  BY <1>3, <1>4 DEF Joins
<1>6. Typing(l, a, n, f, c)
  BY <1>2, <1>3, <1>5 DEF Joins, Typing
<1> QED BY <1>6 DEF l

LEMMA LanAddressIs ==
  /\ List(LanAddress, 5)
  /\ Shape(LanAddress[1], -1, "choose", {}, Blank)
  /\ Shape(LanAddress[2], 1, "choose", {}, Blank)
  /\ Shape(LanAddress[3], 0, "show", Cells, Blank)
  /\ Shape(LanAddress[4], 1, "type", Cells, <<"LAN_SETUP", "address">>)
  /\ Shape(LanAddress[5], 0, "save", {}, <<"LAN_SETUP", "address">>)
<1> DEFINE p == Screen(-1, "choose")
           q == Screen(1, "choose")
           r == Home(Emptied(Screen(0, "show"), Cells))
           a == <<p, q, r>>
<1>1. /\ Shape(p, -1, "choose", {}, Blank)
      /\ Shape(q, 1, "choose", {}, Blank)
      /\ Shape(r, 0, "show", Cells, Blank)
  BY ChoiceShape
<1>2. LanAddress = a \o LanTyping("address", 1)
  BY DEF LanAddress
<1> HIDE DEF p, q, r
<1>3. List(a, 3) /\ a[1] = p /\ a[2] = q /\ a[3] = r
  BY DEF List
<1> HIDE DEF a
<1>4. Typing(LanAddress, a, 3, "address", 1)
  BY <1>2, <1>3, TypingJoins
<1> QED BY <1>1, <1>3, <1>4 DEF Typing

LEMMA LanGatewayIs ==
  /\ List(LanGateway, 4)
  /\ Shape(LanGateway[1], 1, "choose", {}, Blank)
  /\ Shape(LanGateway[2], 0, "show", Cells, Blank)
  /\ Shape(LanGateway[3], 1, "type", Cells, <<"LAN_SETUP", "gateway">>)
  /\ Shape(LanGateway[4], 0, "save", {}, <<"LAN_SETUP", "gateway">>)
<1> DEFINE p == Screen(1, "choose")
           q == Home(Emptied(Screen(0, "show"), Cells))
           a == <<p, q>>
<1>1. /\ Shape(p, 1, "choose", {}, Blank)
      /\ Shape(q, 0, "show", Cells, Blank)
  BY ChoiceShape
<1>2. LanGateway = a \o LanTyping("gateway", 1)
  BY DEF LanGateway
<1> HIDE DEF p, q
<1>3. List(a, 2) /\ a[1] = p /\ a[2] = q
  BY DEF List
<1> HIDE DEF a
<1>4. Typing(LanGateway, a, 2, "gateway", 1)
  BY <1>2, <1>3, TypingJoins
<1> QED BY <1>1, <1>3, <1>4 DEF Typing

LEMMA LanMaskIs ==
  /\ List(LanMask, 4)
  /\ Shape(LanMask[1], 1, "choose", {}, Blank)
  /\ Shape(LanMask[2], 0, "show", Cells, Blank)
  /\ Shape(LanMask[3], 1, "type", Cells, <<"LAN_SETUP", "mask">>)
  /\ Shape(LanMask[4], 0, "save", {}, <<"LAN_SETUP", "mask">>)
<1> DEFINE p == Screen(1, "choose")
           q == Emptied(Screen(0, "show"), Cells)
           a == <<p, q>>
<1>1. /\ Shape(p, 1, "choose", {}, Blank)
      /\ Shape(q, 0, "show", Cells, Blank)
  BY ChoiceShape
<1>2. LanMask = a \o LanTyping("mask", 1)
  BY DEF LanMask
<1> HIDE DEF p, q
<1>3. List(a, 2) /\ a[1] = p /\ a[2] = q
  BY DEF List
<1> HIDE DEF a
<1>4. Typing(LanMask, a, 2, "mask", 1)
  BY <1>2, <1>3, TypingJoins
<1> QED BY <1>1, <1>3, <1>4 DEF Typing

LEMMA LanServerIs ==
  /\ List(LanServer, 8)
  /\ Shape(LanServer[1], 1, "choose", Cells, Blank)
  /\ Shape(LanServer[2], 0, "choose", {}, Blank)
  /\ \A i \in 3..5 : Shape(LanServer[i], -1, "choose", {}, Blank)
  /\ Shape(LanServer[6], 1, "show", Cells, Blank)
  /\ Shape(LanServer[7], 0, "type", Cells, <<"LAN_SETUP", "dns">>)
  /\ Shape(LanServer[8], 1, "save", {}, <<"LAN_SETUP", "dns">>)
<1> DEFINE p == Emptied(Screen(1, "choose"), Cells)
           q == Screen(0, "choose")
           r == Screen(-1, "choose")
           s == Emptied(Screen(1, "show"), Cells)
           a == <<p, q, r, r, r, s>>
<1>1. /\ Shape(p, 1, "choose", Cells, Blank)
      /\ Shape(q, 0, "choose", {}, Blank)
      /\ Shape(r, -1, "choose", {}, Blank)
      /\ Shape(s, 1, "show", Cells, Blank)
  BY ChoiceShape
<1>2. LanServer = a \o LanTyping("dns", 0)
  BY DEF LanServer
<1> HIDE DEF p, q, r, s
<1>3. List(a, 6) /\ a[1] = p /\ a[2] = q /\ a[3] = r /\ a[4] = r /\ a[5] = r /\ a[6] = s
  BY DEF List
<1> HIDE DEF a
<1>4. Typing(LanServer, a, 6, "dns", 0)
  BY <1>2, <1>3, TypingJoins
<1> QED BY <1>1, <1>3, <1>4 DEF Typing

LEMMA LanAlternateIs ==
  /\ List(LanAlternate, 3)
  /\ Shape(LanAlternate[1], 0, "show", Cells, Blank)
  /\ Shape(LanAlternate[2], 1, "type", Cells, <<"LAN_SETUP", "alternate">>)
  /\ Shape(LanAlternate[3], 0, "save", {}, <<"LAN_SETUP", "alternate">>)
<1> DEFINE p == Emptied(Screen(0, "show"), Cells)
           a == <<p>>
<1>1. /\ Shape(p, 0, "show", Cells, Blank)
  BY ChoiceShape
<1>2. LanAlternate = a \o LanTyping("alternate", 1)
  BY DEF LanAlternate
<1> HIDE DEF p
<1>3. List(a, 1) /\ a[1] = p
  BY DEF List
<1> HIDE DEF a
<1>4. Typing(LanAlternate, a, 1, "alternate", 1)
  BY <1>2, <1>3, TypingJoins
<1> QED BY <1>1, <1>3, <1>4 DEF Typing

LEMMA LanModesIs ==
  /\ List(LanModes, 5)
  /\ \A i \in 1..4 : Shape(LanModes[i], -1, "choose", {}, Blank)
  /\ Shape(LanModes[5], 1, "exit", {}, Blank)
<1> DEFINE p == Screen(-1, "choose")
           q == Screen(1, "exit")
<1>1. Shape(p, -1, "choose", {}, Blank) /\ Shape(q, 1, "exit", {}, Blank)
  BY ChoiceShape
<1>2. LanModes = [i \in 1..5 |-> IF i = 5 THEN q ELSE p]
  BY DEF LanModes
<1> HIDE DEF p, q
<1> QED BY <1>1, <1>2 DEF List

LEMMA LanScreens ==
  /\ Shape(At("LAN_SETUP", 0), -1, "choose", {}, Blank)
  /\ Shape(At("LAN_SETUP", 1), 1, "choose", {}, Blank)
  /\ Shape(At("LAN_SETUP", 2), 0, "show", Cells, Blank)
  /\ Shape(At("LAN_SETUP", 3), 1, "type", Cells, <<"LAN_SETUP", "address">>)
  /\ Shape(At("LAN_SETUP", 4), 0, "save", {}, <<"LAN_SETUP", "address">>)
  /\ Shape(At("LAN_SETUP", 5), 1, "choose", {}, Blank)
  /\ Shape(At("LAN_SETUP", 6), 0, "show", Cells, Blank)
  /\ Shape(At("LAN_SETUP", 7), 1, "type", Cells, <<"LAN_SETUP", "gateway">>)
  /\ Shape(At("LAN_SETUP", 8), 0, "save", {}, <<"LAN_SETUP", "gateway">>)
  /\ Shape(At("LAN_SETUP", 9), 1, "choose", {}, Blank)
  /\ Shape(At("LAN_SETUP", 10), 0, "show", Cells, Blank)
  /\ Shape(At("LAN_SETUP", 11), 1, "type", Cells, <<"LAN_SETUP", "mask">>)
  /\ Shape(At("LAN_SETUP", 12), 0, "save", {}, <<"LAN_SETUP", "mask">>)
  /\ Shape(At("LAN_SETUP", 13), 1, "choose", Cells, Blank)
  /\ Shape(At("LAN_SETUP", 14), 0, "choose", {}, Blank)
  /\ Shape(At("LAN_SETUP", 15), -1, "choose", {}, Blank)
  /\ Shape(At("LAN_SETUP", 16), -1, "choose", {}, Blank)
  /\ Shape(At("LAN_SETUP", 17), -1, "choose", {}, Blank)
  /\ Shape(At("LAN_SETUP", 18), 1, "show", Cells, Blank)
  /\ Shape(At("LAN_SETUP", 19), 0, "type", Cells, <<"LAN_SETUP", "dns">>)
  /\ Shape(At("LAN_SETUP", 20), 1, "save", {}, <<"LAN_SETUP", "dns">>)
  /\ Shape(At("LAN_SETUP", 21), 0, "show", Cells, Blank)
  /\ Shape(At("LAN_SETUP", 22), 1, "type", Cells, <<"LAN_SETUP", "alternate">>)
  /\ Shape(At("LAN_SETUP", 23), 0, "save", {}, <<"LAN_SETUP", "alternate">>)
  /\ Shape(At("LAN_SETUP", 24), -1, "choose", {}, Blank)
  /\ Shape(At("LAN_SETUP", 25), -1, "choose", {}, Blank)
  /\ Shape(At("LAN_SETUP", 26), -1, "choose", {}, Blank)
  /\ Shape(At("LAN_SETUP", 27), -1, "choose", {}, Blank)
  /\ Shape(At("LAN_SETUP", 28), 1, "exit", {}, Blank)
<1> DEFINE l2 == LanAddress \o LanGateway
           l3 == l2 \o LanMask
           l4 == l3 \o LanServer
           l5 == l4 \o LanAlternate
           l6 == l5 \o LanModes
<1>0. \A v \in 0..28 : At("LAN_SETUP", v) = l6[v + 1]
  BY DEF At, Screens
<1>1. Joins(l2, LanAddress, LanGateway, 5, 4)
  BY Joined, LanAddressIs, LanGatewayIs
<1> HIDE DEF l2
<1>2. Joins(l3, l2, LanMask, 9, 4)
  <2>1. List(l2, 9)
    BY <1>1 DEF Joins
  <2> QED BY <2>1, Joined, LanMaskIs
<1> HIDE DEF l3
<1>3. Joins(l4, l3, LanServer, 13, 8)
  <2>1. List(l3, 13)
    BY <1>2 DEF Joins
  <2> QED BY <2>1, Joined, LanServerIs
<1> HIDE DEF l4
<1>4. Joins(l5, l4, LanAlternate, 21, 3)
  <2>1. List(l4, 21)
    BY <1>3 DEF Joins
  <2> QED BY <2>1, Joined, LanAlternateIs
<1> HIDE DEF l5
<1>5. Joins(l6, l5, LanModes, 24, 5)
  <2>1. List(l5, 24)
    BY <1>4 DEF Joins
  <2> QED BY <2>1, Joined, LanModesIs
<1> HIDE DEF l6
<1>6. /\ \A i \in 1..5 : l6[i] = LanAddress[i]
      /\ \A i \in 1..4 : l6[5 + i] = LanGateway[i]
      /\ \A i \in 1..4 : l6[9 + i] = LanMask[i]
      /\ \A i \in 1..8 : l6[13 + i] = LanServer[i]
      /\ \A i \in 1..3 : l6[21 + i] = LanAlternate[i]
      /\ \A i \in 1..5 : l6[24 + i] = LanModes[i]
  <2>1. \A i \in 1..24 : l6[i] = l5[i]
    BY <1>5 DEF Joins
  <2>2. \A i \in 1..21 : l5[i] = l4[i]
    BY <1>4 DEF Joins
  <2>3. \A i \in 1..13 : l4[i] = l3[i]
    BY <1>3 DEF Joins
  <2>4. \A i \in 1..9 : l3[i] = l2[i]
    BY <1>2 DEF Joins
  <2>5. \A i \in 1..5 : l6[i] = LanAddress[i]
    BY <1>1, <2>1, <2>2, <2>3, <2>4 DEF Joins
  <2>6. \A i \in 1..4 : l6[5 + i] = LanGateway[i]
    BY <1>1, <2>1, <2>2, <2>3, <2>4 DEF Joins
  <2>7. \A i \in 1..4 : l6[9 + i] = LanMask[i]
    BY <1>2, <2>1, <2>2, <2>3 DEF Joins
  <2>8. \A i \in 1..8 : l6[13 + i] = LanServer[i]
    BY <1>3, <2>1, <2>2 DEF Joins
  <2>9. \A i \in 1..3 : l6[21 + i] = LanAlternate[i]
    BY <1>4, <2>1 DEF Joins
  <2>10. \A i \in 1..5 : l6[24 + i] = LanModes[i]
    BY <1>5 DEF Joins
  <2> QED BY <2>5, <2>6, <2>7, <2>8, <2>9, <2>10
<1>7. /\ At("LAN_SETUP", 0) = LanAddress[1]
      /\ At("LAN_SETUP", 1) = LanAddress[2]
      /\ At("LAN_SETUP", 2) = LanAddress[3]
      /\ At("LAN_SETUP", 3) = LanAddress[4]
      /\ At("LAN_SETUP", 4) = LanAddress[5]
  BY <1>0, <1>6
<1>8. /\ Shape(At("LAN_SETUP", 0), -1, "choose", {}, Blank)
      /\ Shape(At("LAN_SETUP", 1), 1, "choose", {}, Blank)
      /\ Shape(At("LAN_SETUP", 2), 0, "show", Cells, Blank)
      /\ Shape(At("LAN_SETUP", 3), 1, "type", Cells, <<"LAN_SETUP", "address">>)
      /\ Shape(At("LAN_SETUP", 4), 0, "save", {}, <<"LAN_SETUP", "address">>)
  BY <1>7, LanAddressIs
<1>9. /\ At("LAN_SETUP", 5) = LanGateway[1]
      /\ At("LAN_SETUP", 6) = LanGateway[2]
      /\ At("LAN_SETUP", 7) = LanGateway[3]
      /\ At("LAN_SETUP", 8) = LanGateway[4]
  BY <1>0, <1>6
<1>10. /\ Shape(At("LAN_SETUP", 5), 1, "choose", {}, Blank)
       /\ Shape(At("LAN_SETUP", 6), 0, "show", Cells, Blank)
       /\ Shape(At("LAN_SETUP", 7), 1, "type", Cells, <<"LAN_SETUP", "gateway">>)
       /\ Shape(At("LAN_SETUP", 8), 0, "save", {}, <<"LAN_SETUP", "gateway">>)
  BY <1>9, LanGatewayIs
<1>11. /\ At("LAN_SETUP", 9) = LanMask[1]
       /\ At("LAN_SETUP", 10) = LanMask[2]
       /\ At("LAN_SETUP", 11) = LanMask[3]
       /\ At("LAN_SETUP", 12) = LanMask[4]
  BY <1>0, <1>6
<1>12. /\ Shape(At("LAN_SETUP", 9), 1, "choose", {}, Blank)
       /\ Shape(At("LAN_SETUP", 10), 0, "show", Cells, Blank)
       /\ Shape(At("LAN_SETUP", 11), 1, "type", Cells, <<"LAN_SETUP", "mask">>)
       /\ Shape(At("LAN_SETUP", 12), 0, "save", {}, <<"LAN_SETUP", "mask">>)
  BY <1>11, LanMaskIs
<1>13. /\ At("LAN_SETUP", 13) = LanServer[1]
       /\ At("LAN_SETUP", 14) = LanServer[2]
       /\ At("LAN_SETUP", 15) = LanServer[3]
       /\ At("LAN_SETUP", 16) = LanServer[4]
       /\ At("LAN_SETUP", 17) = LanServer[5]
       /\ At("LAN_SETUP", 18) = LanServer[6]
       /\ At("LAN_SETUP", 19) = LanServer[7]
       /\ At("LAN_SETUP", 20) = LanServer[8]
  BY <1>0, <1>6
<1>14. /\ Shape(At("LAN_SETUP", 13), 1, "choose", Cells, Blank)
       /\ Shape(At("LAN_SETUP", 14), 0, "choose", {}, Blank)
       /\ Shape(At("LAN_SETUP", 15), -1, "choose", {}, Blank)
       /\ Shape(At("LAN_SETUP", 16), -1, "choose", {}, Blank)
       /\ Shape(At("LAN_SETUP", 17), -1, "choose", {}, Blank)
       /\ Shape(At("LAN_SETUP", 18), 1, "show", Cells, Blank)
       /\ Shape(At("LAN_SETUP", 19), 0, "type", Cells, <<"LAN_SETUP", "dns">>)
       /\ Shape(At("LAN_SETUP", 20), 1, "save", {}, <<"LAN_SETUP", "dns">>)
  BY <1>13, LanServerIs
<1>15. /\ At("LAN_SETUP", 21) = LanAlternate[1]
       /\ At("LAN_SETUP", 22) = LanAlternate[2]
       /\ At("LAN_SETUP", 23) = LanAlternate[3]
  BY <1>0, <1>6
<1>16. /\ Shape(At("LAN_SETUP", 21), 0, "show", Cells, Blank)
       /\ Shape(At("LAN_SETUP", 22), 1, "type", Cells, <<"LAN_SETUP", "alternate">>)
       /\ Shape(At("LAN_SETUP", 23), 0, "save", {}, <<"LAN_SETUP", "alternate">>)
  BY <1>15, LanAlternateIs
<1>17. /\ At("LAN_SETUP", 24) = LanModes[1]
       /\ At("LAN_SETUP", 25) = LanModes[2]
       /\ At("LAN_SETUP", 26) = LanModes[3]
       /\ At("LAN_SETUP", 27) = LanModes[4]
       /\ At("LAN_SETUP", 28) = LanModes[5]
  BY <1>0, <1>6
<1>18. /\ Shape(At("LAN_SETUP", 24), -1, "choose", {}, Blank)
       /\ Shape(At("LAN_SETUP", 25), -1, "choose", {}, Blank)
       /\ Shape(At("LAN_SETUP", 26), -1, "choose", {}, Blank)
       /\ Shape(At("LAN_SETUP", 27), -1, "choose", {}, Blank)
       /\ Shape(At("LAN_SETUP", 28), 1, "exit", {}, Blank)
  BY <1>17, LanModesIs
<1> QED BY <1>8, <1>10, <1>12, <1>14, <1>16, <1>18

-----------------------------------------------------------------------------
(* What a pass makes of the text.                                          *)

OnlyOf(cells, x) == \A i \in Cells : cells[i] \in {x, Blank}

\* The two buffers that the settings of the LAN and the names are typed into
Lines == {"number", "line"}

TextForm(t) == DOMAIN t = Buffers /\ \A b \in Lines : DOMAIN t[b] = Cells

LEMMA LinesAre == \A b \in Lines : b \in Buffers /\ CellsOf(b) = Cells
BY DEF Lines, Buffers, CellsOf

LEMMA EnteredIs ==
  ASSUME TextForm(text), clearKey \in {0, 1}, NEW s
  PROVE  /\ DOMAIN Entered(s) = {"clear", "text", "pos"}
         /\ Entered(s).clear = IF s.clear \in {0, 1} THEN s.clear ELSE clearKey
         /\ TextForm(Entered(s).text)
         /\ \A b \in Lines : s.buffer # b => \A i \in Cells : Entered(s).text[b][i] = text[b][i]
         /\ s.buffer \in Lines /\ s.does \notin {"load", "secret"} =>
              \A i \in Cells :
                Entered(s).text[s.buffer][i] =
                  IF s.clear \in {0, 1} \ {clearKey} /\ i \in s.blank THEN Blank
                  ELSE text[s.buffer][i]
<1> DEFINE switches == s.clear \in {0, 1} \ {clearKey}
           emptied == [text EXCEPT ![s.buffer] =
                        [i \in CellsOf(s.buffer) |-> IF i \in s.blank THEN Blank ELSE text[s.buffer][i]]]
           kept == IF switches THEN emptied ELSE text
           loaded == [kept EXCEPT ![s.buffer] = [i \in Cells |-> IF i = 0 THEN s.of ELSE Blank]]
           final == IF s.does \in {"load", "secret"} THEN loaded ELSE kept
           clear == IF switches THEN s.clear ELSE clearKey
           pos == IF switches /\ s.home THEN 0 ELSE keyPos
<1>1. Entered(s) = [clear |-> clear, text |-> final, pos |-> pos]
  BY DEF Entered
<1>2. clear = IF s.clear \in {0, 1} THEN s.clear ELSE clearKey
  OBVIOUS
<1>3. /\ DOMAIN kept = Buffers /\ \A b \in Lines : DOMAIN kept[b] = Cells
      /\ \A b \in Lines : s.buffer # b => \A i \in Cells : kept[b][i] = text[b][i]
      /\ s.buffer \in Lines =>
           \A i \in Cells : kept[s.buffer][i] =
             IF switches /\ i \in s.blank THEN Blank ELSE text[s.buffer][i]
  <2>1. /\ DOMAIN emptied = Buffers /\ \A b \in Lines : DOMAIN emptied[b] = Cells
        /\ \A b \in Lines : s.buffer # b => \A i \in Cells : emptied[b][i] = text[b][i]
        /\ s.buffer \in Lines =>
             \A i \in Cells : emptied[s.buffer][i] = IF i \in s.blank THEN Blank ELSE text[s.buffer][i]
    BY LinesAre DEF TextForm
  <2> HIDE DEF emptied, switches
  <2> QED BY <2>1 DEF TextForm
<1> HIDE DEF kept
<1>4. TextForm(loaded) /\ \A b \in Lines : s.buffer # b => \A i \in Cells : loaded[b][i] = kept[b][i]
  BY <1>3, LinesAre DEF TextForm
<1> HIDE DEF loaded, switches, clear, pos
<1>5. TextForm(final) /\ \A b \in Lines : s.buffer # b => \A i \in Cells : final[b][i] = text[b][i]
  BY <1>3, <1>4 DEF TextForm
<1>6. s.does \notin {"load", "secret"} => final = kept
  OBVIOUS
<1> HIDE DEF final
<1>7. /\ DOMAIN Entered(s) = {"clear", "text", "pos"}
      /\ Entered(s).clear = clear /\ Entered(s).text = final
  BY <1>1
<1> QED BY <1>2, <1>3, <1>5, <1>6, <1>7 DEF switches

\* A key on a screen to type on fills cells for its setting, or blanks them.
LEMMA PressedIs ==
  ASSUME NEW k, NEW n, NEW s, NEW e, DOMAIN e = {"clear", "text", "pos"}, TextForm(e.text),
         NEW t \in Pressed(k, n, s, e)
  PROVE  /\ t.clear = e.clear /\ TextForm(t.text)
         /\ \A b \in Lines : \A i \in Cells :
              t.text[b][i] = e.text[b][i] \/ (s.buffer = b /\ t.text[b][i] \in {s.of, Blank})
<1>1. CASE k = "B"
  <2>1. t = [e EXCEPT !.pos = IF @ + 1 > n THEN 0 ELSE @ + 1]
    BY <1>1 DEF Pressed
  <2> QED BY <2>1
<1>2. CASE k = "C"
  <2>1. t = [e EXCEPT !.text[s.buffer] = BlankText(s.buffer), !.pos = 0]
    BY <1>2 DEF Pressed
  <2>2. t.clear = e.clear /\ t.text = [e.text EXCEPT ![s.buffer] = BlankText(s.buffer)]
    BY <2>1
  <2>3. s.buffer \in Lines => BlankText(s.buffer) = [i \in Cells |-> Blank]
    BY LinesAre DEF BlankText
  <2> QED BY <2>2, <2>3, LinesAre DEF TextForm
<1>3. CASE k = "digit"
  <2>1. PICK c \in {s.of, Blank} : t = [e EXCEPT !.text[s.buffer][e.pos] = c]
    BY <1>3 DEF Pressed
  <2>2. t.clear = e.clear
        /\ t.text = [e.text EXCEPT ![s.buffer] = [e.text[s.buffer] EXCEPT ![e.pos] = c]]
    BY <2>1
  <2> QED BY <2>2, LinesAre DEF TextForm
<1>4. CASE k \notin {"B", "C", "digit"}
  BY <1>4 DEF Pressed
<1> QED BY <1>1, <1>2, <1>3, <1>4

LEMMA ScannedIs ==
  ASSUME NEW k, NEW m, NEW s, NEW e, DOMAIN e = {"clear", "text", "pos"}, TextForm(e.text),
         NEW t \in Scanned(k, m, s, e)
  PROVE  /\ t.clear = e.clear /\ TextForm(t.text)
         /\ \A b \in Lines : \A i \in Cells :
              \/ t.text[b][i] = e.text[b][i]
              \/ s.does = "type" /\ s.buffer = b /\ t.text[b][i] \in {s.of, Blank}
<1>1. t = e \/ (s.does = "type" /\ \E n : t \in Pressed(k, n, s, e))
  <2>1. CASE s.does # "type"
    BY <2>1 DEF Scanned
  <2>2. CASE s.does = "type" /\ s.buffer = "number"
    <3> DEFINE n == IF m = "LAN_SETUP" THEN TextLen ELSE DeviceLen
    <3>1. Scanned(k, m, s, e) = keypadScanningMultiNumKeyWithDot(k, n, s, e)
      BY <2>2 DEF Scanned
    <3> HIDE DEF n
    <3>2. t \in keypadScanningMultiNumKeyWithDot(k, n, s, e)
      BY <3>1
    <3>3. t \in Pressed(k, n, s, e)
      BY <3>2 DEF keypadScanningMultiNumKeyWithDot
    <3> QED BY <2>2, <3>3
  <2>3. CASE s.does = "type" /\ s.buffer # "number"
    <3>1. t \in Pressed(k, TextLen, s, e) \/ t \in Pressed(k, TextLen - 1, s, e)
      BY <2>3 DEF Scanned, keypadScanningMultiKey_crediential, keypadScanningMultiKeyWithSmallCaps,
         keypadScanningMultiKey
    <3> QED BY <2>3, <3>1
  <2> QED BY <2>1, <2>2, <2>3
<1>2. CASE t = e
  BY <1>2
<1>3. CASE s.does = "type" /\ \E n : t \in Pressed(k, n, s, e)
  BY <1>3, PressedIs
<1> QED BY <1>1, <1>2, <1>3

\* A pass on screen v of menu m
LEMMA TextPassIs ==
  ASSUME TextForm(text), clearKey \in {0, 1}, NEW k, NEW m, NEW v, TextPass(k, m, v),
         NEW s, s = At(m, v)
  PROVE  /\ TextForm(text') /\ clearKey' \in {0, 1}
         /\ s.does # "id" => clearKey' = IF s.clear \in {0, 1} THEN s.clear ELSE clearKey
         /\ \A b \in Lines : \A i \in Cells :
              \/ text'[b][i] = Entered(s).text[b][i]
              \/ s.does = "type" /\ s.buffer = b /\ text'[b][i] \in {s.of, Blank}
<1> DEFINE e == Entered(s)
<1>1. PICK t \in Scanned(k, m, s, e) :
        /\ text' = t.text
        /\ clearKey' = IF k = "B" /\ s.does = "id" /\ Stored(k, s, e) = {} THEN 0 ELSE t.clear
  BY DEF TextPass
<1>2. DOMAIN e = {"clear", "text", "pos"} /\ TextForm(e.text)
      /\ e.clear = IF s.clear \in {0, 1} THEN s.clear ELSE clearKey
  BY EnteredIs
<1> HIDE DEF e
<1>3. /\ t.clear = e.clear /\ TextForm(t.text)
      /\ \A b \in Lines : \A i \in Cells :
           \/ t.text[b][i] = e.text[b][i]
           \/ s.does = "type" /\ s.buffer = b /\ t.text[b][i] \in {s.of, Blank}
  BY <1>2, ScannedIs
<1>4. TextForm(text')
  BY <1>1, <1>3 DEF TextForm
<1>5. clearKey' \in {0, 1} /\ (s.does # "id" => clearKey' = IF s.clear \in {0, 1} THEN s.clear ELSE clearKey)
  BY <1>1, <1>2, <1>3
<1> QED BY <1>1, <1>3, <1>4, <1>5 DEF e

\* A buffer with the text of x only keeps it on a screen that types nothing or x.
LEMMA KeepsText ==
  ASSUME TextForm(text), clearKey \in {0, 1}, NEW k, NEW m, NEW v, TextPass(k, m, v),
         NEW s, s = At(m, v), s.does \notin {"load", "secret"}, NEW b \in Lines, NEW x,
         OnlyOf(text[b], x), s.does = "type" /\ s.buffer = b => s.of = x
  PROVE  OnlyOf(Entered(s).text[b], x) /\ OnlyOf(text'[b], x)
<1>1. OnlyOf(Entered(s).text[b], x)
  BY EnteredIs DEF OnlyOf
<1> QED BY <1>1, TextPassIs DEF OnlyOf

\* A buffer is emptied where clearKey switches.
LEMMA EmptiesText ==
  ASSUME TextForm(text), clearKey \in {0, 1}, NEW k, NEW m, NEW v, TextPass(k, m, v),
         NEW s, s = At(m, v), s.does \notin {"load", "secret"}, s.buffer \in Lines,
         s.clear \in {0, 1}, s.blank = Cells,
         clearKey = s.clear => OnlyOf(text[s.buffer], s.of)
  PROVE  OnlyOf(text'[s.buffer], s.of)
<1>1. OnlyOf(Entered(s).text[s.buffer], s.of)
  BY EnteredIs DEF OnlyOf
<1> QED BY <1>1, TextPassIs DEF OnlyOf

-----------------------------------------------------------------------------
(* The addresses of the board.                                             *)

\* The address whose text the buffer holds on screen v where one is typed or
\* stored, and behind the last of them
LanField(v) ==
  <<"LAN_SETUP", IF v <= 5 THEN "address" ELSE IF v <= 9 THEN "gateway"
                 ELSE IF v <= 12 THEN "mask" ELSE IF v <= 20 THEN "dns" ELSE "alternate">>

\* What the buffer holds when networkSettings comes to screen v: where the pass
\* will not switch clearKey, and so empty nothing, it is empty already or was
\* typed for the address of the screen.
LanText(v, clear, cells) ==
  /\ v \in {3, 7, 11, 22} /\ clear = 1 => OnlyOf(cells, LanField(v))
  /\ v = 19 /\ clear = 0 => OnlyOf(cells, LanField(v))
  /\ v \in {4, 5, 8, 9, 12, 20} \cup 23..28 => OnlyOf(cells, LanField(v))
  /\ v \in {2, 6, 10, 21} /\ clear = 0 => OnlyOf(cells, Blank)
  /\ v \in {13} \cup 15..18 /\ clear = 1 => OnlyOf(cells, Blank)

LEMMA LanEmptying ==
  ASSUME TextForm(text), clearKey \in {0, 1}, NEW k, NEW v, TextPass(k, "LAN_SETUP", v),
         NEW c \in {0, 1}, NEW d \in {"choose", "show", "type"}, NEW of,
         Shape(At("LAN_SETUP", v), c, d, Cells, of),
         clearKey = c => OnlyOf(text["number"], of)
  PROVE  clearKey' = c /\ OnlyOf(text'["number"], of)
<1> DEFINE s == At("LAN_SETUP", v)
<1>1. /\ s.does \notin {"load", "secret", "id"} /\ s.buffer = "number" /\ s.buffer \in Lines
      /\ s.clear = c /\ s.blank = Cells /\ s.of = of
  BY DEF Shape, Lines
<1> HIDE DEF s
<1>2. s = At("LAN_SETUP", v)
  BY DEF s
<1>3. clearKey' = c
  BY <1>1, <1>2, TextPassIs
<1>4. OnlyOf(text'[s.buffer], s.of)
  BY <1>1, <1>2, EmptiesText
<1> QED BY <1>1, <1>3, <1>4

LEMMA LanKeeping ==
  ASSUME TextForm(text), clearKey \in {0, 1}, NEW k, NEW v, TextPass(k, "LAN_SETUP", v),
         NEW c, NEW d \in {"choose", "save", "exit"}, NEW of,
         Shape(At("LAN_SETUP", v), c, d, {}, of)
  PROVE  /\ clearKey' = IF c \in {0, 1} THEN c ELSE clearKey
         /\ \A x : OnlyOf(text["number"], x) => OnlyOf(text'["number"], x)
         /\ \A x : OnlyOf(text["number"], x) => OnlyOf(Entered(At("LAN_SETUP", v)).text["number"], x)
<1> DEFINE s == At("LAN_SETUP", v)
<1>1. s.does \notin {"load", "secret", "id", "type"} /\ s.clear = c /\ "number" \in Lines
  BY DEF Shape, Lines
<1> HIDE DEF s
<1>2. s = At("LAN_SETUP", v)
  BY DEF s
<1>3. clearKey' = IF c \in {0, 1} THEN c ELSE clearKey
  BY <1>1, <1>2, TextPassIs
<1>4. ASSUME NEW x, OnlyOf(text["number"], x)
      PROVE  OnlyOf(Entered(s).text["number"], x) /\ OnlyOf(text'["number"], x)
  BY <1>1, <1>2, <1>4, KeepsText
<1> QED BY <1>3, <1>4 DEF s

LEMMA BlankIsAny == ASSUME NEW cells, OnlyOf(cells, Blank), NEW x PROVE OnlyOf(cells, x)
BY DEF OnlyOf

\* A pass of networkSettings keeps it so on its screen and the two beside it.
LEMMA LanTextPass ==
  ASSUME TextForm(text), clearKey \in {0, 1}, NEW k, NEW v \in 0..28,
         TextPass(k, "LAN_SETUP", v), LanText(v, clearKey, text["number"]),
         NEW w \in 0..28, w \in v - 1 .. v + 1
  PROVE  LanText(w, clearKey', text'["number"])
<1> DEFINE a == text["number"]
           b == text'["number"]
           c == clearKey
           d == clearKey'
           address == <<"LAN_SETUP", "address">>
           gateway == <<"LAN_SETUP", "gateway">>
           mask == <<"LAN_SETUP", "mask">>
           dns == <<"LAN_SETUP", "dns">>
           alternate == <<"LAN_SETUP", "alternate">>
<1>1. d \in {0, 1}
  BY TextPassIs
<1>2. OnlyOf(b, Blank) =>
        /\ OnlyOf(b, address) /\ OnlyOf(b, gateway) /\ OnlyOf(b, mask)
        /\ OnlyOf(b, dns) /\ OnlyOf(b, alternate)
  BY BlankIsAny
<1>3. CASE v = 0
  <2>1. w \in {0, 1}
    BY <1>3
  <2>2. d = c
        /\ \A x : OnlyOf(a, x) => OnlyOf(b, x)
    <3>1. Shape(At("LAN_SETUP", v), -1, "choose", {}, Blank)
      BY <1>3, LanScreens
    <3> QED BY <3>1, LanKeeping
  <2> HIDE DEF a, b, c, d
  <2>4. LanText(w, d, b)
    BY <1>1, <1>2, <2>1, <2>2 DEF LanText, LanField
  <2> QED BY <2>4 DEF b, d
<1>4. CASE v = 1
  <2>1. w \in {0, 1, 2}
    BY <1>4
  <2>2. d = 1
        /\ \A x : OnlyOf(a, x) => OnlyOf(b, x)
    BY <1>4, LanScreens, LanKeeping
  <2> HIDE DEF a, b, c, d
  <2>4. LanText(w, d, b)
    BY <1>1, <1>2, <2>1, <2>2 DEF LanText, LanField
  <2> QED BY <2>4 DEF b, d
<1>5. CASE v = 2
  <2>1. w \in {1, 2, 3}
    BY <1>5
  <2>2. c = 0 => OnlyOf(a, Blank)
    BY <1>5 DEF LanText, LanField
  <2>3. d = 0 /\ OnlyOf(b, Blank)
    BY <1>5, <2>2, LanScreens, LanEmptying
  <2> HIDE DEF a, b, c, d
  <2>4. LanText(w, d, b)
    BY <1>1, <1>2, <2>1, <2>3 DEF LanText, LanField
  <2> QED BY <2>4 DEF b, d
<1>6. CASE v = 3
  <2>1. w \in {2, 3, 4}
    BY <1>6
  <2>2. c = 1 => OnlyOf(a, address)
    BY <1>6 DEF LanText, LanField
  <2>3. d = 1 /\ OnlyOf(b, address)
    BY <1>6, <2>2, LanScreens, LanEmptying
  <2> HIDE DEF a, b, c, d
  <2>4. LanText(w, d, b)
    BY <1>1, <1>2, <2>1, <2>3 DEF LanText, LanField
  <2> QED BY <2>4 DEF b, d
<1>7. CASE v = 4
  <2>1. w \in {3, 4, 5}
    BY <1>7
  <2>2. d = 0
        /\ \A x : OnlyOf(a, x) => OnlyOf(b, x)
    BY <1>7, LanScreens, LanKeeping
  <2>3. OnlyOf(b, address)
    BY <1>7, <2>2 DEF LanText, LanField
  <2> HIDE DEF a, b, c, d
  <2>4. LanText(w, d, b)
    BY <1>1, <1>2, <2>1, <2>2, <2>3 DEF LanText, LanField
  <2> QED BY <2>4 DEF b, d
<1>8. CASE v = 5
  <2>1. w \in {4, 5, 6}
    BY <1>8
  <2>2. d = 1
        /\ \A x : OnlyOf(a, x) => OnlyOf(b, x)
    BY <1>8, LanScreens, LanKeeping
  <2>3. OnlyOf(b, address)
    BY <1>8, <2>2 DEF LanText, LanField
  <2> HIDE DEF a, b, c, d
  <2>4. LanText(w, d, b)
    BY <1>1, <1>2, <2>1, <2>2, <2>3 DEF LanText, LanField
  <2> QED BY <2>4 DEF b, d
<1>9. CASE v = 6
  <2>1. w \in {5, 6, 7}
    BY <1>9
  <2>2. c = 0 => OnlyOf(a, Blank)
    BY <1>9 DEF LanText, LanField
  <2>3. d = 0 /\ OnlyOf(b, Blank)
    BY <1>9, <2>2, LanScreens, LanEmptying
  <2> HIDE DEF a, b, c, d
  <2>4. LanText(w, d, b)
    BY <1>1, <1>2, <2>1, <2>3 DEF LanText, LanField
  <2> QED BY <2>4 DEF b, d
<1>10. CASE v = 7
  <2>1. w \in {6, 7, 8}
    BY <1>10
  <2>2. c = 1 => OnlyOf(a, gateway)
    BY <1>10 DEF LanText, LanField
  <2>3. d = 1 /\ OnlyOf(b, gateway)
    BY <1>10, <2>2, LanScreens, LanEmptying
  <2> HIDE DEF a, b, c, d
  <2>4. LanText(w, d, b)
    BY <1>1, <1>2, <2>1, <2>3 DEF LanText, LanField
  <2> QED BY <2>4 DEF b, d
<1>11. CASE v = 8
  <2>1. w \in {7, 8, 9}
    BY <1>11
  <2>2. d = 0
        /\ \A x : OnlyOf(a, x) => OnlyOf(b, x)
    BY <1>11, LanScreens, LanKeeping
  <2>3. OnlyOf(b, gateway)
    BY <1>11, <2>2 DEF LanText, LanField
  <2> HIDE DEF a, b, c, d
  <2>4. LanText(w, d, b)
    BY <1>1, <1>2, <2>1, <2>2, <2>3 DEF LanText, LanField
  <2> QED BY <2>4 DEF b, d
<1>12. CASE v = 9
  <2>1. w \in {8, 9, 10}
    BY <1>12
  <2>2. d = 1
        /\ \A x : OnlyOf(a, x) => OnlyOf(b, x)
    BY <1>12, LanScreens, LanKeeping
  <2>3. OnlyOf(b, gateway)
    BY <1>12, <2>2 DEF LanText, LanField
  <2> HIDE DEF a, b, c, d
  <2>4. LanText(w, d, b)
    BY <1>1, <1>2, <2>1, <2>2, <2>3 DEF LanText, LanField
  <2> QED BY <2>4 DEF b, d
<1>13. CASE v = 10
  <2>1. w \in {9, 10, 11}
    BY <1>13
  <2>2. c = 0 => OnlyOf(a, Blank)
    BY <1>13 DEF LanText, LanField
  <2>3. d = 0 /\ OnlyOf(b, Blank)
    BY <1>13, <2>2, LanScreens, LanEmptying
  <2> HIDE DEF a, b, c, d
  <2>4. LanText(w, d, b)
    BY <1>1, <1>2, <2>1, <2>3 DEF LanText, LanField
  <2> QED BY <2>4 DEF b, d
<1>14. CASE v = 11
  <2>1. w \in {10, 11, 12}
    BY <1>14
  <2>2. c = 1 => OnlyOf(a, mask)
    BY <1>14 DEF LanText, LanField
  <2>3. d = 1 /\ OnlyOf(b, mask)
    BY <1>14, <2>2, LanScreens, LanEmptying
  <2> HIDE DEF a, b, c, d
  <2>4. LanText(w, d, b)
    BY <1>1, <1>2, <2>1, <2>3 DEF LanText, LanField
  <2> QED BY <2>4 DEF b, d
<1>15. CASE v = 12
  <2>1. w \in {11, 12, 13}
    BY <1>15
  <2>2. d = 0
        /\ \A x : OnlyOf(a, x) => OnlyOf(b, x)
    BY <1>15, LanScreens, LanKeeping
  <2>3. OnlyOf(b, mask)
    BY <1>15, <2>2 DEF LanText, LanField
  <2> HIDE DEF a, b, c, d
  <2>4. LanText(w, d, b)
    BY <1>1, <1>2, <2>1, <2>2, <2>3 DEF LanText, LanField
  <2> QED BY <2>4 DEF b, d
<1>16. CASE v = 13
  <2>1. w \in {12, 13, 14}
    BY <1>16
  <2>2. c = 1 => OnlyOf(a, Blank)
    BY <1>16 DEF LanText, LanField
  <2>3. d = 1 /\ OnlyOf(b, Blank)
    BY <1>16, <2>2, LanScreens, LanEmptying
  <2> HIDE DEF a, b, c, d
  <2>4. LanText(w, d, b)
    BY <1>1, <1>2, <2>1, <2>3 DEF LanText, LanField
  <2> QED BY <2>4 DEF b, d
<1>17. CASE v = 14
  <2>1. w \in {13, 14, 15}
    BY <1>17
  <2>2. d = 0
        /\ \A x : OnlyOf(a, x) => OnlyOf(b, x)
    BY <1>17, LanScreens, LanKeeping
  <2> HIDE DEF a, b, c, d
  <2>4. LanText(w, d, b)
    BY <1>1, <1>2, <2>1, <2>2 DEF LanText, LanField
  <2> QED BY <2>4 DEF b, d
<1>18. CASE v = 15
  <2>1. w \in {14, 15, 16}
    BY <1>18
  <2>2. d = c
        /\ \A x : OnlyOf(a, x) => OnlyOf(b, x)
    BY <1>18, LanScreens, LanKeeping
  <2>3. d = 1 => OnlyOf(b, Blank)
    BY <1>18, <2>2 DEF LanText
  <2> HIDE DEF a, b, c, d
  <2>4. LanText(w, d, b)
    BY <1>1, <1>2, <2>1, <2>2, <2>3 DEF LanText, LanField
  <2> QED BY <2>4 DEF b, d
<1>19. CASE v = 16
  <2>1. w \in {15, 16, 17}
    BY <1>19
  <2>2. d = c
        /\ \A x : OnlyOf(a, x) => OnlyOf(b, x)
    BY <1>19, LanScreens, LanKeeping
  <2>3. d = 1 => OnlyOf(b, Blank)
    BY <1>19, <2>2 DEF LanText
  <2> HIDE DEF a, b, c, d
  <2>4. LanText(w, d, b)
    BY <1>1, <1>2, <2>1, <2>2, <2>3 DEF LanText, LanField
  <2> QED BY <2>4 DEF b, d
<1>20. CASE v = 17
  <2>1. w \in {16, 17, 18}
    BY <1>20
  <2>2. d = c
        /\ \A x : OnlyOf(a, x) => OnlyOf(b, x)
    BY <1>20, LanScreens, LanKeeping
  <2>3. d = 1 => OnlyOf(b, Blank)
    BY <1>20, <2>2 DEF LanText
  <2> HIDE DEF a, b, c, d
  <2>4. LanText(w, d, b)
    BY <1>1, <1>2, <2>1, <2>2, <2>3 DEF LanText, LanField
  <2> QED BY <2>4 DEF b, d
<1>21. CASE v = 18
  <2>1. w \in {17, 18, 19}
    BY <1>21
  <2>2. c = 1 => OnlyOf(a, Blank)
    BY <1>21 DEF LanText, LanField
  <2>3. d = 1 /\ OnlyOf(b, Blank)
    BY <1>21, <2>2, LanScreens, LanEmptying
  <2> HIDE DEF a, b, c, d
  <2>4. LanText(w, d, b)
    BY <1>1, <1>2, <2>1, <2>3 DEF LanText, LanField
  <2> QED BY <2>4 DEF b, d
<1>22. CASE v = 19
  <2>1. w \in {18, 19, 20}
    BY <1>22
  <2>2. c = 0 => OnlyOf(a, dns)
    BY <1>22 DEF LanText, LanField
  <2>3. d = 0 /\ OnlyOf(b, dns)
    BY <1>22, <2>2, LanScreens, LanEmptying
  <2> HIDE DEF a, b, c, d
  <2>4. LanText(w, d, b)
    BY <1>1, <1>2, <2>1, <2>3 DEF LanText, LanField
  <2> QED BY <2>4 DEF b, d
<1>23. CASE v = 20
  <2>1. w \in {19, 20, 21}
    BY <1>23
  <2>2. d = 1
        /\ \A x : OnlyOf(a, x) => OnlyOf(b, x)
    BY <1>23, LanScreens, LanKeeping
  <2>3. OnlyOf(b, dns)
    BY <1>23, <2>2 DEF LanText, LanField
  <2> HIDE DEF a, b, c, d
  <2>4. LanText(w, d, b)
    BY <1>1, <1>2, <2>1, <2>2, <2>3 DEF LanText, LanField
  <2> QED BY <2>4 DEF b, d
<1>24. CASE v = 21
  <2>1. w \in {20, 21, 22}
    BY <1>24
  <2>2. c = 0 => OnlyOf(a, Blank)
    BY <1>24 DEF LanText, LanField
  <2>3. d = 0 /\ OnlyOf(b, Blank)
    BY <1>24, <2>2, LanScreens, LanEmptying
  <2> HIDE DEF a, b, c, d
  <2>4. LanText(w, d, b)
    BY <1>1, <1>2, <2>1, <2>3 DEF LanText, LanField
  <2> QED BY <2>4 DEF b, d
<1>25. CASE v = 22
  <2>1. w \in {21, 22, 23}
    BY <1>25
  <2>2. c = 1 => OnlyOf(a, alternate)
    BY <1>25 DEF LanText, LanField
  <2>3. d = 1 /\ OnlyOf(b, alternate)
    BY <1>25, <2>2, LanScreens, LanEmptying
  <2> HIDE DEF a, b, c, d
  <2>4. LanText(w, d, b)
    BY <1>1, <1>2, <2>1, <2>3 DEF LanText, LanField
  <2> QED BY <2>4 DEF b, d
<1>26. CASE v = 23
  <2>1. w \in {22, 23, 24}
    BY <1>26
  <2>2. d = 0
        /\ \A x : OnlyOf(a, x) => OnlyOf(b, x)
    BY <1>26, LanScreens, LanKeeping
  <2>3. OnlyOf(b, alternate)
    BY <1>26, <2>2 DEF LanText, LanField
  <2> HIDE DEF a, b, c, d
  <2>4. LanText(w, d, b)
    BY <1>1, <1>2, <2>1, <2>2, <2>3 DEF LanText, LanField
  <2> QED BY <2>4 DEF b, d
<1>27. CASE v = 24
  <2>1. w \in {23, 24, 25}
    BY <1>27
  <2>2. d = c
        /\ \A x : OnlyOf(a, x) => OnlyOf(b, x)
    BY <1>27, LanScreens, LanKeeping
  <2>3. OnlyOf(b, alternate)
    BY <1>27, <2>2 DEF LanText, LanField
  <2> HIDE DEF a, b, c, d
  <2>4. LanText(w, d, b)
    BY <1>1, <1>2, <2>1, <2>2, <2>3 DEF LanText, LanField
  <2> QED BY <2>4 DEF b, d
<1>28. CASE v = 25
  <2>1. w \in {24, 25, 26}
    BY <1>28
  <2>2. d = c
        /\ \A x : OnlyOf(a, x) => OnlyOf(b, x)
    BY <1>28, LanScreens, LanKeeping
  <2>3. OnlyOf(b, alternate)
    BY <1>28, <2>2 DEF LanText, LanField
  <2> HIDE DEF a, b, c, d
  <2>4. LanText(w, d, b)
    BY <1>1, <1>2, <2>1, <2>2, <2>3 DEF LanText, LanField
  <2> QED BY <2>4 DEF b, d
<1>29. CASE v = 26
  <2>1. w \in {25, 26, 27}
    BY <1>29
  <2>2. d = c
        /\ \A x : OnlyOf(a, x) => OnlyOf(b, x)
    BY <1>29, LanScreens, LanKeeping
  <2>3. OnlyOf(b, alternate)
    BY <1>29, <2>2 DEF LanText, LanField
  <2> HIDE DEF a, b, c, d
  <2>4. LanText(w, d, b)
    BY <1>1, <1>2, <2>1, <2>2, <2>3 DEF LanText, LanField
  <2> QED BY <2>4 DEF b, d
<1>30. CASE v = 27
  <2>1. w \in {26, 27, 28}
    BY <1>30
  <2>2. d = c
        /\ \A x : OnlyOf(a, x) => OnlyOf(b, x)
    BY <1>30, LanScreens, LanKeeping
  <2>3. OnlyOf(b, alternate)
    BY <1>30, <2>2 DEF LanText, LanField
  <2> HIDE DEF a, b, c, d
  <2>4. LanText(w, d, b)
    BY <1>1, <1>2, <2>1, <2>2, <2>3 DEF LanText, LanField
  <2> QED BY <2>4 DEF b, d
<1>31. CASE v = 28
  <2>1. w \in {27, 28}
    BY <1>31
  <2>2. d = 1
        /\ \A x : OnlyOf(a, x) => OnlyOf(b, x)
    BY <1>31, LanScreens, LanKeeping
  <2>3. OnlyOf(b, alternate)
    BY <1>31, <2>2 DEF LanText, LanField
  <2> HIDE DEF a, b, c, d
  <2>4. LanText(w, d, b)
    BY <1>1, <1>2, <2>1, <2>2, <2>3 DEF LanText, LanField
  <2> QED BY <2>4 DEF b, d
<1> QED BY <1>3, <1>4, <1>5, <1>6, <1>7, <1>8, <1>9, <1>10, <1>11, <1>12, <1>13, <1>14, <1>15, <1>16, <1>17, <1>18, <1>19, <1>20, <1>21, <1>22, <1>23, <1>24, <1>25, <1>26, <1>27, <1>28, <1>29, <1>30, <1>31

\* What B stores from a buffer that holds the text of x only
LEMMA StoredIs ==
  ASSUME NEW k, NEW s, NEW e, TextForm(e.text), s.buffer \in Lines, NEW x,
         OnlyOf(e.text[s.buffer], x)
  PROVE  Stored(k, s, e) \subseteq {x}
<1> DEFINE cells == e.text[s.buffer]
<1>1. DOMAIN cells = Cells /\ Cells \subseteq Nat
  BY PanelAssumption DEF TextForm, Cells
<1>2. ASSUME NEW i \in Cells, cells[i] # Blank PROVE cells[i] = x
  BY <1>2 DEF OnlyOf
<1> HIDE DEF cells
<1>3. SavedCells(cells) \subseteq {x}
  <2> SUFFICES ASSUME NEW i \in { j \in DOMAIN cells : \A l \in 0..j : cells[l] # Blank }
               PROVE  cells[i] = x
    BY DEF SavedCells
  <2>1. i \in Cells /\ \A l \in 0..i : cells[l] # Blank
    BY <1>1
  <2>2. i \in Nat
    BY <1>1, <2>1
  <2>3. i \in 0..i
    BY <2>2
  <2> QED BY <1>2, <2>1, <2>3
<1>4. { cells[i] : i \in Cells } \ {Blank} \subseteq {x}
  BY <1>2
<1> QED BY <1>3, <1>4 DEF Stored, cells

\* The screens of networkSettings that store find the text of their address.
LEMMA LanStored ==
  ASSUME TextForm(text), clearKey \in {0, 1}, NEW k, NEW v \in 0..28,
         TextPass(k, "LAN_SETUP", v), LanText(v, clearKey, text["number"])
  PROVE  mixed' = mixed
<1> DEFINE s == At("LAN_SETUP", v)
<1>1. ASSUME NEW c, NEW d, d \notin {"save", "id", "file"}, NEW blank, NEW of,
             Shape(s, c, d, blank, of)
      PROVE  Stored(k, s, Entered(s)) = {}
  BY <1>1 DEF Shape, Stored
<1>2. ASSUME NEW c, NEW of, Shape(s, c, "save", {}, of), OnlyOf(text["number"], of)
      PROVE  Stored(k, s, Entered(s)) \subseteq {s.of}
  <2>1. OnlyOf(Entered(s).text["number"], of)
    BY <1>2, LanKeeping
  <2>2. TextForm(Entered(s).text)
    BY EnteredIs
  <2>3. s.of = of /\ s.buffer = "number" /\ s.buffer \in Lines
    BY <1>2 DEF Shape, Lines
  <2> HIDE DEF s
  <2> QED BY <2>1, <2>2, <2>3, StoredIs
<1>3. Stored(k, s, Entered(s)) \subseteq {s.of}
  <2>1. CASE v = 4
    <3>1. Shape(s, 0, "save", {}, <<"LAN_SETUP", "address">>)
      BY <2>1, LanScreens
    <3>2. OnlyOf(text["number"], <<"LAN_SETUP", "address">>)
      BY <2>1 DEF LanText, LanField
    <3> QED BY <1>2, <3>1, <3>2
  <2>2. CASE v = 8
    <3>1. Shape(s, 0, "save", {}, <<"LAN_SETUP", "gateway">>)
      BY <2>2, LanScreens
    <3>2. OnlyOf(text["number"], <<"LAN_SETUP", "gateway">>)
      BY <2>2 DEF LanText, LanField
    <3> QED BY <1>2, <3>1, <3>2
  <2>3. CASE v = 12
    <3>1. Shape(s, 0, "save", {}, <<"LAN_SETUP", "mask">>)
      BY <2>3, LanScreens
    <3>2. OnlyOf(text["number"], <<"LAN_SETUP", "mask">>)
      BY <2>3 DEF LanText, LanField
    <3> QED BY <1>2, <3>1, <3>2
  <2>4. CASE v = 20
    <3>1. Shape(s, 1, "save", {}, <<"LAN_SETUP", "dns">>)
      BY <2>4, LanScreens
    <3>2. OnlyOf(text["number"], <<"LAN_SETUP", "dns">>)
      BY <2>4 DEF LanText, LanField
    <3> QED BY <1>2, <3>1, <3>2
  <2>5. CASE v = 23
    <3>1. Shape(s, 0, "save", {}, <<"LAN_SETUP", "alternate">>)
      BY <2>5, LanScreens
    <3>2. OnlyOf(text["number"], <<"LAN_SETUP", "alternate">>)
      BY <2>5 DEF LanText, LanField
    <3> QED BY <1>2, <3>1, <3>2
  <2>6. CASE v \notin {4, 8, 12, 20, 23}
    <3>1. \E c, blank, of : \E d \in {"choose", "show", "type", "exit"} : Shape(s, c, d, blank, of)
      <4>1. CASE v \in 0..14
        BY <2>6, <4>1, LanScreens
      <4>2. CASE v \in 15..28
        BY <2>6, <4>2, LanScreens
      <4> QED BY <4>1, <4>2
    <3> QED BY <1>1, <3>1
  <2> QED BY <2>1, <2>2, <2>3, <2>4, <2>5, <2>6
<1> QED BY <1>3 DEF TextPass

-----------------------------------------------------------------------------
(* The names, and whose setting a screen stores.                           *)

\* Screen s stores, if anything, a setting of menu m.
Own(s, m) == s.does \in {"save", "id", "file"} => s.of[1] = m

LEMMA OwnScreen ==
  ASSUME NEW m, NEW c, NEW d, NEW b, NEW x, NEW cells
  PROVE  /\ d \notin {"save", "id", "file"} => Own(Screen(c, d), m) /\ Own(Home(Screen(c, d)), m)
         /\ Own(For(Screen(c, d), b, <<m, x>>), m)
         /\ Own(Home(For(Screen(c, d), b, <<m, x>>)), m)
         /\ Own(Home(Emptied(For(Screen(c, d), b, <<m, x>>), cells)), m)
BY DEF Own, Screen, Home, For, Emptied

Owned(a, n, m) == List(a, n) /\ \A i \in 1..n : Own(a[i], m)

LEMMA OwnedJoin ==
  ASSUME NEW a, NEW b, NEW m, NEW n \in Nat, NEW k \in Nat, Owned(a, n, m), Owned(b, k, m)
  PROVE  Owned(a \o b, n + k, m)
<1>1. Joins(a \o b, a, b, n, k)
  BY Joined DEF Owned
<1> DEFINE l == a \o b
<1>2. Joins(l, a, b, n, k)
  BY <1>1
<1> HIDE DEF l
<1>3. ASSUME NEW i \in 1..n + k PROVE Own(l[i], m)
  <2>1. CASE i \in 1..n
    BY <1>2, <2>1 DEF Joins, Owned
  <2>2. ASSUME NEW j \in 1..k, i = n + j PROVE Own(l[i], m)
    BY <1>2, <2>2 DEF Joins, Owned
  <2> QED BY <2>1, <2>2, JoinedPosition
<1>4. Owned(l, n + k, m)
  BY <1>2, <1>3 DEF Joins, Owned
<1> QED BY <1>4 DEF l

LEMMA DeviceIpOwned == ASSUME NEW d PROVE Owned(DeviceIp(d), 4, d)
<1> DEFINE p == Screen(1, "choose")
           q == Home(Screen(0, "show"))
           r == Home(Emptied(For(Screen(1, "type"), "number", <<d, "ip">>), 0..DeviceLen - 1))
           s == Home(For(Screen(0, "save"), "number", <<d, "ip">>))
<1>1. Own(p, d) /\ Own(q, d) /\ Own(r, d) /\ Own(s, d)
  BY OwnScreen
<1>2. DeviceIp(d) = <<p, q, r, s>>
  BY DEF DeviceIp
<1> HIDE DEF p, q, r, s
<1> QED BY <1>1, <1>2 DEF List, Owned

LEMMA DeviceNameOwned == ASSUME NEW d, NEW c PROVE Owned(DeviceName(d, c), 3, d)
<1> DEFINE p == Home(For(Screen(c, "load"), "line", <<d, "name">>))
           q == Home(For(Screen(0, "type"), "line", <<d, "name">>))
           r == Home(For(Screen(1, "save"), "line", <<d, "name">>))
<1>1. Own(p, d) /\ Own(q, d) /\ Own(r, d)
  BY OwnScreen
<1>2. DeviceName(d, c) = <<p, q, r>>
  BY DEF DeviceName
<1> HIDE DEF p, q, r
<1> QED BY <1>1, <1>2 DEF List, Owned

LEMMA DevicePassOwned == ASSUME NEW d, NEW e, Own(e, d) PROVE Owned(DevicePass(d, e), 5, d)
<1> DEFINE p == Screen(-1, "ask")
           q == Screen(-1, "answer")
           r == Home(For(Screen(1, "secret"), "line", <<d, "password">>))
           s == Home(DeviceTyped(d))
<1>1. Own(p, d) /\ Own(q, d) /\ Own(r, d) /\ Own(s, d)
  BY OwnScreen DEF DeviceTyped
<1>2. DevicePass(d, e) = <<p, q, r, s, e>>
  BY DEF DevicePass
<1> HIDE DEF p, q, r, s
<1> QED BY <1>1, <1>2 DEF List, Owned

LEMMA DevicePortOwned == ASSUME NEW d, NEW c PROVE Owned(DevicePort(c), 2, d)
<1> DEFINE p == Screen(1, "choose")
           q == Screen(c, "exit")
<1>1. Own(p, d) /\ Own(q, d)
  BY OwnScreen
<1>2. DevicePort(c) = <<p, q>>
  BY DEF DevicePort
<1> HIDE DEF p, q
<1> QED BY <1>1, <1>2 DEF List, Owned

LEMMA CredentialOwned ==
  ASSUME NEW c, NEW cells
  PROVE  Owned(CredentialGate \o CredentialText(c, cells), 6, c)
<1> DEFINE x == <<c, "credential">>
           p == Home(Emptied(For(Screen(0, "shown"), "credential", x), cells))
           q == Home(Emptied(For(Screen(1, "type"), "credential", x), Cells))
           r == Home(For(Screen(1, "save"), "credential", x))
           s == Screen(-1, "exit")
           t == Screen(-1, "ask")
           u == Screen(-1, "answer")
<1>1. Own(p, c) /\ Own(q, c) /\ Own(r, c) /\ Own(s, c) /\ Own(t, c) /\ Own(u, c)
  BY OwnScreen
<1>2. CredentialText(c, cells) = <<p, q, r, s>> /\ CredentialGate = <<t, u>>
  BY DEF CredentialText, CredentialGate
<1> HIDE DEF p, q, r, s, t, u
<1>3. Owned(CredentialText(c, cells), 4, c) /\ Owned(CredentialGate, 2, c)
  BY <1>1, <1>2 DEF List, Owned
<1>4. Owned(CredentialGate \o CredentialText(c, cells), 2 + 4, c)
  BY <1>3, OwnedJoin
<1> QED BY <1>4

\* Site and brand name: what the screens type and store is the menu's name.
LEMMA NameScreens ==
  ASSUME NEW m \in {"SITE_NAME", "BRAND_NAME"}, NEW v \in 0..3, NEW s, s = At(m, v)
  PROVE  /\ s.does \in {"show", "type", "file", "exit"}
         /\ s.does = "type" => s.of = <<m, "name">>
         /\ s.does = "file" => s.buffer = "line" /\ s.of = <<m, "name">>
<1> DEFINE p == Home(Screen(1, "show"))
           q == Home(For(Screen(0, "type"), "line", <<m, "name">>))
           r == Home(For(Screen(1, "file"), "line", <<m, "name">>))
           t == Screen(-1, "exit")
<1>1. NameText(m) = <<p, q, r, t>>
  BY DEF NameText
<1>2. /\ p.does = "show" /\ q.does = "type" /\ q.of = <<m, "name">>
      /\ r.does = "file" /\ r.buffer = "line" /\ r.of = <<m, "name">> /\ t.does = "exit"
  BY DEF Screen, Home, For
<1>3. Screens[m] = NameText(m)
  BY DEF Screens
<1> HIDE DEF p, q, r, t
<1>4. s \in {p, q, r, t}
  BY <1>1, <1>3 DEF At
<1> QED BY <1>2, <1>4

LEMMA SolOwned == Owned(SolText, 4, "SOL_ID")
<1> DEFINE x == <<"SOL_ID", "name">>
           p == Home(Emptied(For(Screen(1, "show"), "line", x), Cells))
           q == Home(Emptied(For(Screen(1, "type"), "line", x), Cells))
           r == Home(For(Screen(1, "id"), "line", x))
           s == Screen(-1, "exit")
<1>1. Own(p, "SOL_ID") /\ Own(q, "SOL_ID") /\ Own(r, "SOL_ID") /\ Own(s, "SOL_ID")
  BY OwnScreen
<1>2. SolText = <<p, q, r, s>>
  BY DEF SolText
<1> HIDE DEF p, q, r, s
<1> QED BY <1>1, <1>2 DEF List, Owned

\* A screen stores a setting of its own menu.
LEMMA ScreensOwn ==
  ASSUME NEW m \in DOMAIN Screens \ {"LAN_SETUP"}, NEW v \in 0..Menus[m].exit
  PROVE  Own(At(m, v), m)
<1>1. ASSUME NEW d, NEW c, NEW e, Own(e, d), NEW x
      PROVE  /\ Owned(DeviceIp(d) \o DeviceName(d, c) \o DevicePass(d, e) \o DevicePort(x), 14, d)
             /\ Owned(DeviceIp(d) \o DevicePass(d, e) \o DevicePort(x), 11, d)
  <2>1. Owned(DeviceIp(d) \o DeviceName(d, c), 4 + 3, d)
    BY DeviceIpOwned, DeviceNameOwned, OwnedJoin
  <2>2. Owned(DeviceIp(d) \o DeviceName(d, c) \o DevicePass(d, e), 7 + 5, d)
    BY <1>1, <2>1, DevicePassOwned, OwnedJoin
  <2>3. Owned(DeviceIp(d) \o DeviceName(d, c) \o DevicePass(d, e) \o DevicePort(x), 12 + 2, d)
    BY <2>2, DevicePortOwned, OwnedJoin
  <2>4. Owned(DeviceIp(d) \o DevicePass(d, e), 4 + 5, d)
    BY <1>1, DeviceIpOwned, DevicePassOwned, OwnedJoin
  <2>5. Owned(DeviceIp(d) \o DevicePass(d, e) \o DevicePort(x), 9 + 2, d)
    BY <2>4, DevicePortOwned, OwnedJoin
  <2> QED BY <2>3, <2>5
<1>2. \A d : Own(DeviceTyped(d), d) /\ Own(DeviceStored(d), d)
  BY OwnScreen DEF DeviceTyped, DeviceStored
<1>3. /\ Owned(Screens["HIKVISION_NVR"], 14, "HIKVISION_NVR")
      /\ Owned(Screens["HIKVISION_BACS"], 14, "HIKVISION_BACS")
      /\ Owned(Screens["DAHUA_NVR"], 14, "DAHUA_NVR")
      /\ Owned(Screens["CP_PLUS_NVR"], 14, "CP_PLUS_NVR")
  BY <1>1, <1>2 DEF Screens, HIKVISION_NVR_Ip, HIKVISION_NVR_Name, HIKVISION_NVR_Pass,
     HIKVISION_NVR_Port, HIKVISION_BACS_Ip, HIKVISION_BACS_Name, HIKVISION_BACS_Pass,
     HIKVISION_BACS_Port, DAHUA_NVR_Ip, DAHUA_NVR_Name, DAHUA_NVR_Pass, DAHUA_NVR_Port,
     CP_PLUS_NVR_Ip, CP_PLUS_NVR_Name, CP_PLUS_NVR_Pass, CP_PLUS_NVR_Port
<1>4. /\ Owned(Screens["TEXECOM_BAS"], 11, "TEXECOM_BAS")
      /\ Owned(Screens["HIK_BAS"], 14, "HIK_BAS")
  BY <1>1, <1>2 DEF Screens, TEXECOM_BAS_Ip, TEXECOM_BAS_Pass, TEXECOM_BAS_Port, HIK_BAS_Ip,
     HIK_BAS_Name, HIK_BAS_Pass, HIK_BAS_Port
<1>5. /\ Owned(Screens["CLIENT_ID"], 6, "CLIENT_ID") /\ Owned(Screens["USER_NAME"], 6, "USER_NAME")
      /\ Owned(Screens["PASSWORD"], 6, "PASSWORD")
      /\ Owned(Screens["ACCESS_TOKEN"], 6, "ACCESS_TOKEN")
  BY CredentialOwned DEF Screens, ClientText, UserText, PasswordText, TokenText
<1>6. Owned(Screens["SOL_ID"], 4, "SOL_ID")
  BY SolOwned DEF Screens
<1>7. \A c \in {"SITE_NAME", "BRAND_NAME"} : \A w \in 0..3 : Own(At(c, w), c)
  BY NameScreens DEF Own
<1>8. /\ Menus["TEXECOM_BAS"].exit = 10
      /\ \A d \in {"HIKVISION_NVR", "HIKVISION_BACS", "DAHUA_NVR", "CP_PLUS_NVR", "HIK_BAS"} :
           Menus[d].exit = 13
      /\ \A d \in CredentialMenus : Menus[d].exit = 5
      /\ \A d \in {"SITE_NAME", "BRAND_NAME", "SOL_ID"} : Menus[d].exit = 3
  BY MenuOf DEF Menu, CredentialMenus, HIKVISION_NVR_PROG, HIKVISION_BACS_PROG, DAHUA_NVR_PROG,
     CP_PLUS_NVR_PROG, TEXECOM_BAS_PROG, HIK_BAS_PROG, SubMenuClientAddress, SubMenuUserName,
     SubMenuPassword, SubMenuAccessToken, SubMenuBranchAddress, SubMenuBrandAddress, SOL_ID_PROG
<1>9. \A n \in Nat : Owned(Screens[m], n + 1, m) /\ Menus[m].exit = n => Own(At(m, v), m)
  BY DEF Owned, At
<1>10. m \in {"HIKVISION_NVR", "HIKVISION_BACS", "DAHUA_NVR", "CP_PLUS_NVR", "TEXECOM_BAS",
              "HIK_BAS", "SITE_NAME", "BRAND_NAME", "SOL_ID"} \cup CredentialMenus
  BY DEF Screens, CredentialMenus
<1>11. CASE m \in {"SITE_NAME", "BRAND_NAME"}
  BY <1>7, <1>8, <1>11
<1>12. CASE m \notin {"SITE_NAME", "BRAND_NAME"}
  <2>1. \/ Owned(Screens[m], 13 + 1, m) /\ Menus[m].exit = 13
        \/ Owned(Screens[m], 10 + 1, m) /\ Menus[m].exit = 10
        \/ Owned(Screens[m], 5 + 1, m) /\ Menus[m].exit = 5
        \/ Owned(Screens[m], 3 + 1, m) /\ Menus[m].exit = 3
    BY <1>3, <1>4, <1>5, <1>6, <1>8, <1>10, <1>12 DEF CredentialMenus
  <2> QED BY <1>9, <2>1
<1> QED BY <1>11, <1>12

-----------------------------------------------------------------------------
(* The texts stored.                                                       *)

TextInv ==
  /\ TextForm(text) /\ clearKey \in {0, 1}
  /\ OnLan(st) => LanText(st.ssub, clearKey, text["number"])
  /\ shown \in {"SITE_NAME", "BRAND_NAME"} => OnlyOf(text["line"], <<shown, "name">>)
  /\ StoredTextIsItsOwn

\* All but what is said of networkSettings
NamesKept ==
  /\ TextForm(text') /\ clearKey' \in {0, 1}
  /\ shown' \in {"SITE_NAME", "BRAND_NAME"} => OnlyOf(text'["line"], <<shown', "name">>)
  /\ StoredTextIsItsOwn'

LEMMA QuietKeepsNames ==
  ASSUME TextInv, UNCHANGED <<text, mixed>>, clearKey' \in {0, 1},
         shown' \in {"SITE_NAME", "BRAND_NAME"} => shown' = shown
  PROVE  NamesKept
<1>1. StoredTextIsItsOwn'
  BY DEF TextInv, StoredTextIsItsOwn
<1>2. TextForm(text')
  BY DEF TextInv, TextForm
<1> QED BY <1>1, <1>2 DEF TextInv, NamesKept

LEMMA RestartKeepsNames == ASSUME NEW d, Restart(d) PROVE NamesKept
<1>1. text' = FirstText /\ clearKey' = 0 /\ mixed' = {} /\ shown' = "PROG"
  BY DEF Restart
<1>2. TextForm(FirstText)
  BY LinesAre DEF TextForm, FirstText, Lines
<1> QED BY <1>1, <1>2 DEF NamesKept, TextForm, StoredTextIsItsOwn

\* No menu is opened from a name's menu.
LEMMA NamesAreLeaves ==
  ASSUME NEW m \in DOMAIN Menus
  PROVE  Parent[m] \notin {"SITE_NAME", "BRAND_NAME"}
<1>1. Menus["SITE_NAME"].opens = {} /\ Menus["BRAND_NAME"].opens = {}
  BY MenuOf DEF SubMenuBranchAddress, SubMenuBrandAddress, Menu
<1>2. CASE m = "PROG"
  BY <1>2 DEF Parent
<1>3. CASE m # "PROG"
  BY <1>1, <1>3, ParentOpens
<1> QED BY <1>2, <1>3

\* A pass of a menu that types or stores
LEMMA TypingKeepsNames ==
  ASSUME TextInv, ShownInv, InMenus, NEW k, NEW m, m = Active, NEW v,
         m \in DOMAIN Screens, m # "LAN_SETUP" => v \in 0..Menus[m].exit,
         TextPass(k, m, v), m = "LAN_SETUP" => mixed' = mixed,
         shown' \in {"SITE_NAME", "BRAND_NAME"} => shown # Unknown /\ shown' = m
  PROVE  NamesKept
<1> DEFINE s == At(m, v)
<1>1. TextForm(text) /\ clearKey \in {0, 1}
  BY DEF TextInv
<1>2. TextForm(text') /\ clearKey' \in {0, 1}
  BY <1>1, TextPassIs
<1>3. /\ Menus["SITE_NAME"].exit = 3 /\ Menus["BRAND_NAME"].exit = 3
  BY MenuOf DEF SubMenuBranchAddress, SubMenuBrandAddress, Menu
<1>4. ASSUME m \in {"SITE_NAME", "BRAND_NAME"}, shown # Unknown
      PROVE  /\ OnlyOf(text'["line"], <<m, "name">>)
             /\ s.does = "file" => Stored(k, s, Entered(s)) \subseteq {s.of}
             /\ s.does \notin {"save", "id"}
  <2>1. v \in 0..3
    BY <1>3, <1>4
  <2>2. /\ s.does \in {"show", "type", "file", "exit"}
        /\ s.does = "type" => s.of = <<m, "name">>
        /\ s.does = "file" => s.buffer = "line" /\ s.of = <<m, "name">>
    BY <1>4, <2>1, NameScreens
  <2>3. OnlyOf(text["line"], <<m, "name">>)
    BY <1>4, ShownActive DEF TextInv
  <2>4. "line" \in Lines
    BY DEF Lines
  <2> HIDE DEF s
  <2>5. s = At(m, v)
    BY DEF s
  <2>6. OnlyOf(Entered(s).text["line"], <<m, "name">>) /\ OnlyOf(text'["line"], <<m, "name">>)
    BY <1>1, <2>2, <2>3, <2>4, <2>5, KeepsText
  <2>7. TextForm(Entered(s).text)
    BY <1>1, EnteredIs
  <2>8. s.does = "file" => Stored(k, s, Entered(s)) \subseteq {s.of}
    BY <2>2, <2>4, <2>6, <2>7, StoredIs
  <2> QED BY <2>2, <2>6, <2>8
<1>5. shown' \in {"SITE_NAME", "BRAND_NAME"} => OnlyOf(text'["line"], <<shown', "name">>)
  BY <1>4
<1>6. mixed' = mixed \/ mixed' = mixed \cup {[setting |-> s.of, known |-> shown # Unknown]}
  BY DEF TextPass
<1>7. CASE mixed' = mixed
  BY <1>2, <1>5, <1>7 DEF NamesKept, TextInv, StoredTextIsItsOwn
<1>8. CASE mixed' # mixed
  <2>1. m # "LAN_SETUP" /\ ~ (Stored(k, s, Entered(s)) \subseteq {s.of})
    BY <1>8 DEF TextPass
  <2>2. s.does \in {"save", "id", "file"}
    BY <2>1 DEF Stored
  <2>3. s.of[1] = m
    BY <2>1, <2>2, ScreensOwn DEF Own
  <2>4. m \in {"SITE_NAME", "BRAND_NAME"} => shown = Unknown
    BY <1>4, <2>1, <2>2
  <2> DEFINE f == [setting |-> s.of, known |-> shown # Unknown]
  <2>5. f.setting = s.of /\ f.known = (shown # Unknown)
    OBVIOUS
  <2>6. mixed' = mixed \cup {f}
    BY <1>6, <1>8
  <2> HIDE DEF f, s
  <2>7. /\ f.setting[1] # "LAN_SETUP"
        /\ f.setting[1] \in {"SITE_NAME", "BRAND_NAME"} => ~ f.known
    BY <2>1, <2>3, <2>4, <2>5
  <2>8. StoredTextIsItsOwn'
    BY <2>6, <2>7 DEF TextInv, StoredTextIsItsOwn
  <2> QED BY <1>2, <1>5, <2>8 DEF NamesKept
<1> QED BY <1>7, <1>8

\* A pass of a menu
LEMMA MenuKeepsNames ==
  ASSUME AskedInv, TextInv, ShownInv, InMenus, NEW k \in Keys, NEW m, m = Active,
         NEW v, v = st[Menus[m].slot], MenuPass(k, m, v)
  PROVE  NamesKept
<1>0. /\ m \in DOMAIN Menus /\ TextForm(text) /\ clearKey \in {0, 1}
      /\ shown # Unknown => m = shown
  BY ActiveOnPath, ShownActive DEF TextInv
<1>1. ASSUME NEW c, rebootPanel(c) PROVE NamesKept
  BY <1>1, RestartKeepsNames DEF rebootPanel
<1>2. ASSUME NEW s, NEW h, EndPass(s, h)
      PROVE  shown' = Unknown \/ (shown # Unknown /\ shown' = h)
  BY <1>2 DEF EndPass
<1>3. Unknown \notin {"SITE_NAME", "BRAND_NAME"}
  BY DEF Unknown
<1>4. ASSUME NEW s, NEW h, EndPass(s, h), h \in {m, shown, Parent[m], Unknown},
             UNCHANGED <<text, mixed>>, clearKey' \in {0, 1}
      PROVE  NamesKept
  <2>1. shown' \in {"SITE_NAME", "BRAND_NAME"} => shown' = shown
    BY <1>0, <1>2, <1>3, <1>4, NamesAreLeaves
  <2> QED BY <1>4, <2>1, QuietKeepsNames
<1>5. CASE OpenMenu(k, m, v)
  <2>1. PICK o \in Menus[m].opens :
          /\ \E s : EndPass(s, o.menu)
          /\ clearKey' \in {0, clearKey}
          /\ text' = IF o.menu \in {"SITE_NAME", "BRAND_NAME"}
                     THEN [text EXCEPT !["line"] = [i \in Cells |-> <<o.menu, "name">>]] ELSE text
    BY <1>5 DEF OpenMenu
  <2>2. mixed' = mixed
    BY <1>5 DEF OpenMenu, lan
  <2>3. shown' = Unknown \/ shown' = o.menu
    BY <1>2, <2>1
  <2>4. CASE o.menu \in {"SITE_NAME", "BRAND_NAME"}
    <3>1. TextForm(text') /\ OnlyOf(text'["line"], <<o.menu, "name">>)
      BY <1>0, <2>1, <2>4, LinesAre DEF TextForm, OnlyOf, Lines
    <3>2. StoredTextIsItsOwn'
      BY <2>2 DEF TextInv, StoredTextIsItsOwn
    <3> QED BY <1>0, <1>3, <2>1, <2>3, <3>1, <3>2 DEF NamesKept
  <2>5. CASE o.menu \notin {"SITE_NAME", "BRAND_NAME"}
    BY <1>0, <1>3, <2>1, <2>2, <2>3, <2>5, QuietKeepsNames
  <2> QED BY <2>4, <2>5
<1>6. CASE LeaveMenu(k, m, v)
  BY <1>0, <1>4, <1>6 DEF LeaveMenu, lan
<1>7. CASE LeaveAndReboot(k, m, v)
  <2>1. UNCHANGED <<text, mixed, clearKey>>
    BY <1>7 DEF LeaveAndReboot, entry, lan
  <2>2. CASE m = "DEVICE_PVSN"
    <3>1. shown' = "PROG"
      BY <1>7, <2>2 DEF LeaveAndReboot
    <3> QED BY <1>0, <2>1, <3>1, QuietKeepsNames
  <2>3. CASE m # "DEVICE_PVSN"
    <3>1. EndPass(Left(m), Parent[m])
      BY <1>7, <2>3 DEF LeaveAndReboot
    <3> QED BY <1>0, <1>4, <2>1, <3>1
  <2> QED BY <2>2, <2>3
<1>8. CASE ExitReboots(k, m, v)
  BY <1>1, <1>8 DEF ExitReboots
<1>9. CASE ChangeModem(k, m, v)
  BY <1>0, <1>4, <1>9 DEF ChangeModem, entry, lan
<1>10. CASE Provision(k, m, v)
  BY <1>0, <1>4, <1>10 DEF Provision, lan
<1>11. CASE PowerCommand(k, m, v)
  BY <1>11, RestartKeepsNames DEF PowerCommand
<1>12. CASE ResetToDefault(k, m, v)
  BY <1>0, <1>1, <1>4, <1>12 DEF ResetToDefault, entry, lan
<1>13. CASE Walk(k, m, v)
  <2>1. \E s : \E h \in {m, Unknown} : EndPass(s, h)
    BY <1>13 DEF Walk
  <2>2. UNCHANGED <<text, mixed>> /\ clearKey' \in {0, 1}
    BY <1>0, <1>13 DEF Walk, lan
  <2> QED BY <1>4, <2>1, <2>2
<1>14. CASE NoScreen(k, m, v)
  BY <1>0, <1>4, <1>14 DEF NoScreen, entry, lan
<1>15. CASE LanPass(k, m, v)
  <2>1. m = "LAN_SETUP" /\ v \in 0..28 /\ TextPass(k, m, v)
    BY <1>15 DEF LanPass
  <2>2. OnLan(st) /\ v = st.ssub
    BY <2>1, Elsewhere DEF AskedInv
  <2>3. mixed' = mixed
    BY <1>0, <2>1, <2>2, LanStored DEF TextInv
  <2>4. \E s : \E h \in {m, Parent[m]} : EndPass(s, h)
    BY <1>15 DEF LanPass
  <2>5. shown' \notin {"SITE_NAME", "BRAND_NAME"}
    BY <1>0, <1>2, <1>3, <2>1, <2>4, NamesAreLeaves
  <2>6. "LAN_SETUP" \in DOMAIN Screens
    BY DEF Screens
  <2> QED BY <2>1, <2>3, <2>5, <2>6, TypingKeepsNames
<1>16. CASE TypePastTheEnd(k, m, v)
  BY <1>16, RestartKeepsNames DEF TypePastTheEnd
<1>17. CASE ConfigureReboots(k, m, v)
  BY <1>1, <1>17 DEF ConfigureReboots
<1>18. CASE ConfigureOnly(k, m, v)
  BY <1>0, <1>4, <1>18 DEF ConfigureOnly, entry
<1>19. CASE EntryPass(k, m, v)
  <2>1. /\ m \in DOMAIN Screens \ {"LAN_SETUP"} /\ v \in 0..Menus[m].exit /\ TextPass(k, m, v)
        /\ \E s : EndPass(s, m)
    BY <1>19 DEF EntryPass
  <2>2. shown' \in {"SITE_NAME", "BRAND_NAME"} => shown # Unknown /\ shown' = m
    BY <1>2, <1>3, <2>1
  <2> QED BY <2>1, <2>2, TypingKeepsNames
<1> QED BY <1>5, <1>6, <1>7, <1>8, <1>9, <1>10, <1>11, <1>12, <1>13, <1>14, <1>15,
           <1>16, <1>17, <1>18, <1>19 DEF MenuPass

\* A step outside the menus
LEMMA StepKeepsNames ==
  ASSUME AskedInv, TextInv, ShownInv, [Next]_vars
  PROVE  NamesKept
<1>0. clearKey \in {0, 1}
  BY DEF TextInv
<1>1. ASSUME UNCHANGED <<text, mixed, clearKey>>, shown' \in {shown, "PROG", Unknown}
      PROVE  NamesKept
  BY <1>0, <1>1, QuietKeepsNames DEF Unknown
<1>2. ASSUME NEW c, rebootPanel(c) PROVE NamesKept
  BY <1>2, RestartKeepsNames DEF rebootPanel
<1>3. ASSUME NEW s, NEW h \in {shown, "PROG"}, EndPass(s, h) PROVE shown' \in {shown, "PROG", Unknown}
  BY <1>3 DEF EndPass
<1>4. ASSUME UNCHANGED <<entry, lan>> PROVE UNCHANGED <<text, mixed, clearKey>>
  BY <1>4 DEF entry, lan
<1>5. CASE TickTimer
  BY <1>1, <1>4, <1>5 DEF TickTimer
<1>6. CASE dispStateMachine
  BY <1>1, <1>4, <1>6 DEF dispStateMachine, vars
<1>7. CASE KeyA
  BY <1>1, <1>3, <1>4, <1>7 DEF KeyA
<1>8. CASE KeyDOrUp
  BY <1>1, <1>4, <1>8 DEF KeyDOrUp
<1>9. CASE RebootButtonReboots
  BY <1>2, <1>9 DEF RebootButtonReboots
<1>10. ASSUME NEW k \in Keys, Pass(k) PROVE NamesKept
  <2>1. CASE progMainStateMachine(k)
    <3>1. shown' = shown \/ \E s : EndPass(s, shown)
      BY <2>1 DEF progMainStateMachine
    <3> QED BY <1>1, <1>3, <1>4, <2>1, <3>1 DEF progMainStateMachine
  <2>2. CASE Login(k)
    <3>1. \E s : \E h \in {shown, "PROG"} : EndPass(s, h)
      BY <2>2 DEF Login
    <3> QED BY <1>1, <1>3, <1>4, <2>2, <3>1 DEF Login
  <2>3. CASE proLampTestExt(k)
    BY <1>1, <1>4, <2>3 DEF proLampTestExt
  <2>4. CASE rebootButton(k)
    BY <1>1, <1>4, <2>4 DEF rebootButton
  <2>5. CASE InMenus /\ \E m \in {Active} : MenuPass(k, m, st[Menus[m].slot])
    BY <2>5, MenuKeepsNames
  <2> QED BY <1>10, <2>1, <2>2, <2>3, <2>4, <2>5 DEF Pass
<1>11. CASE UNCHANGED vars
  BY <1>1, <1>4, <1>11 DEF vars
<1> QED BY <1>5, <1>6, <1>7, <1>8, <1>9, <1>10, <1>11 DEF Next

LEMMA TextInvariant == Spec => []TextInv
<1>1. Init => TextInv
  <2> SUFFICES ASSUME Init PROVE TextInv
    OBVIOUS
  <2>1. /\ text = FirstText /\ clearKey = 0 /\ mixed = {} /\ shown = "PROG"
        /\ st = [x \in Slots |-> 0]
    BY DEF Init
  <2>2. TextForm(text)
    BY <2>1, LinesAre DEF TextForm, FirstText, Lines
  <2>3. ~ OnLan(st)
    BY <2>1, SlotNames DEF OnLan
  <2> QED BY <2>1, <2>2, <2>3 DEF TextInv, StoredTextIsItsOwn
<1>2. AskedInv /\ ShownInv /\ TextInv /\ [Next]_vars => TextInv'
  <2> SUFFICES ASSUME AskedInv, ShownInv, TextInv, [Next]_vars PROVE TextInv'
    OBVIOUS
  <2>1. NamesKept
    BY StepKeepsNames
  <2>2. AskedInv' /\ LanReached
    BY AskedStep DEF AskedNext
  <2>3. ASSUME OnLan(st') PROVE LanText(st'.ssub, clearKey', text'["number"])
    <3>1. st'.ssub \in 0..28
      BY <2>2, <2>3 DEF AskedInv, NavOk, OnLan
    <3>2. CASE st'.ssub = 0
      BY <3>2 DEF LanText
    <3>3. CASE OnLan(st) /\ st'.ssub = st.ssub /\ UNCHANGED <<clearKey, text>>
      BY <3>3 DEF TextInv
    <3>4. ASSUME OnLan(st), st'.ssub \in st.ssub - 1 .. st.ssub + 1, NEW k \in Keys,
                 TextPass(k, "LAN_SETUP", st.ssub)
          PROVE  LanText(st'.ssub, clearKey', text'["number"])
      <4>1. st.ssub \in 0..28
        BY <3>4 DEF AskedInv, NavOk, OnLan
      <4>2. TextForm(text) /\ clearKey \in {0, 1} /\ LanText(st.ssub, clearKey, text["number"])
        BY <3>4 DEF TextInv
      <4> QED BY <3>1, <3>4, <4>1, <4>2, LanTextPass
    <3> QED BY <2>2, <2>3, <3>2, <3>3, <3>4 DEF LanReached
  <2>4. OnLan(st)' => OnLan(st')
    BY DEF OnLan
  <2>5. (OnLan(st) => LanText(st.ssub, clearKey, text["number"]))'
    BY <2>3, <2>4
  <2> QED BY <2>1, <2>5 DEF TextInv, NamesKept
<1> QED BY <1>1, <1>2, AskedInvariant, ShownInvariant, PTL DEF Spec

\* The addresses of the board are stored from text typed for them, and the names
\* from theirs unless the menu on the LCD is unknown since a time-out: whatever
\* the menus visited before and wherever the cursor goes.
THEOREM StoredTextAlwaysItsOwn == Spec => []StoredTextIsItsOwn
<1>1. TextInv => StoredTextIsItsOwn
  BY DEF TextInv
<1> QED BY <1>1, TextInvariant, PTL

=============================================================================
