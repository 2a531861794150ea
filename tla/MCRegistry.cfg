SPECIFICATION Spec
CONSTANTS
  Names <- OneName
  Place = "kitchen"
  Macs = {"m"}
  Stored <- NoneOrOneStored
  MaxDevices = 2
  MaxTaps = 2
  MaxLaunches = 1
  MaxInflight = 3
  Publishers = {1, 2}
  MaxServerRestarts = 1
  MaxTurns = 2
INVARIANTS RegistryTypeOK AgreeWhenSettled
PROPERTIES DeviceBecomesKnown
CHECK_DEADLOCK FALSE
