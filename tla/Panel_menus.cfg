SPECIFICATION Spec
CONSTANTS
  ZoneScreens = 2
  PowerZoneScreens = 1
  TextLen = 2
  DeviceLen = 1
  FirstDhcp = {FALSE}
  TypeScreens <- MCTypeScreens
  Plans <- MCPlans
INVARIANTS MenuShownIsMenuOpened StoredTextIsItsOwn ModemChangeAwaitsReboot
PROPERTIES NetworkModeIsConfirmed MenusAreLeft
