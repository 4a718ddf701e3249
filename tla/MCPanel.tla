------------------------------- MODULE MCPanel -------------------------------
EXTENDS Panel

\* What brings the technician.  An address and a device that share the text
\* buffer; a change of the modem, in the first or the second visit; the two
\* menus that reboot; and pairs of visits in which the second opens menus of a
\* slot the first may leave in use, by key A or by a time-out.
SharedText ==
  << {"NETWORK_COMMUNICATION", "LAN_SETUP", "SECURITY_DEVICE_INTEGRATION",
      "INTEGRATION_SETTINGS", "ACTIVE_INTEGR", "TEXECOM_BAS"} >>
Modem ==
  << {"DEVICE_PROVISIONING", "DEVICE_PVSN", "NETWORK_COMMUNICATION", "eSIM_SETTINGS"},
     {"SYSTEM_TEST", "NETWORK_COMMUNICATION", "eSIM_SETTINGS"} >>
Reboots ==
  << {"SYSTEM_SETTINGS", "ADVANCE_SETTINGS", "MAINTENANCE"},
     {"DEVICE_CONFIGURATION", "NORMAL_ZONE", "POWER_ZONE"} >>
Pairs == {
  << {"POWER_MANAGEMENT", "LOW_BATTERY", "SYSTEM_SETTINGS", "GENERAL_SETTINGS", "DATE_TIME"},
     {"SECURITY_DEVICE_INTEGRATION", "INTEGRATION_SETTINGS", "ACTIVE_INTEGR"} >>,
  << {"DEVICE_PROVISIONING", "SOL_ID", "EVENT_LOG_MANAGEMENT", "LOGS"},
     {"NETWORK_COMMUNICATION", "DEVICE_CREDENTIAL_SETUP", "ACCESS_TOKEN"} >>,
  << {"DEVICE_CONFIGURATION", "OUTPUT_MANAGEMENT"}, {"SYSTEM_SETTINGS", "GENERAL_SETTINGS"} >> }

\* A name and a device that share the line
SharedLine ==
  << {"SYSTEM_SETTINGS", "GENERAL_SETTINGS", "SITE_NAME", "SECURITY_DEVICE_INTEGRATION",
      "INTEGRATION_SETTINGS", "ACTIVE_INTEGR", "HIK_BAS"} >>

\* One visit to each of the other menus
Device(d) ==
  << {"SECURITY_DEVICE_INTEGRATION", "INTEGRATION_SETTINGS", "ACTIVE_INTEGR", d} >>
Rest == {
  << {"EVENT_LOG_MANAGEMENT", "EVENT_REPORTS", "CLEAR_REPORTS", "PROTOCOL_CONFIGURATION",
      "PROTOCOL_SETTINGS", "OTA_UPDATE", "POWER_MANAGEMENT", "POWER_BACKUP",
      "SECURITY_DEVICE_INTEGRATION", "DEVICE_MANAGEMENT", "NETWORK_COMMUNICATION",
      "GNSS_SETTINGS", "GSM_SETTINGS"} >>,
  << {"SYSTEM_SETTINGS", "GENERAL_SETTINGS", "PSWD_CHANGE", "BRAND_NAME"} >>,
  << {"NETWORK_COMMUNICATION", "DEVICE_CREDENTIAL_SETUP", "CLIENT_ID", "USER_NAME",
      "PASSWORD"} >> }
  \cup { Device(d) : d \in {"HIKVISION_NVR", "HIKVISION_BACS", "DAHUA_NVR", "CP_PLUS_NVR"} }

MCPlans == {SharedText, SharedLine, Modem, Reboots} \cup Pairs \cup Rest

MCTypeScreens == {<<"LAN_SETUP", 7>>, <<"TEXECOM_BAS", 2>>, <<"SITE_NAME", 1>>, <<"HIK_BAS", 5>>}
==============================================================================
