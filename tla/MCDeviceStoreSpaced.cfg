SPECIFICATION Spec
CONSTANTS
  Tokens <- Letters
  At = "@"
  Space = " "
  Devices <- PlainAndSpaced
  Macs <- TwoMacs
  MaxDevices = 3
INVARIANTS EachWithItsMac
