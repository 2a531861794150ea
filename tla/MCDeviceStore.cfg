SPECIFICATION Spec
CONSTANTS
  Tokens <- Letters
  At = "@"
  Space = " "
  Devices <- PlainAndSpaced
  Macs <- TwoMacs
  MaxDevices = 3
INVARIANTS StoreTypeOK PlainWithItsMac
PROPERTIES LaunchRestores
