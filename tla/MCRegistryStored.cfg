SPECIFICATION Spec
CONSTANTS
  Names <- Plain
  Place = "kitchen"
  Macs = {"m"}
  Stored <- TwoStored
  MaxDevices = 2
  MaxTaps = 0
  MaxLaunches = 0
  MaxInflight = 3
  Publishers = {1, 2}
  MaxServerRestarts = 0
  MaxTurns = 3
INVARIANTS StoredDevicesSent
CHECK_DEADLOCK FALSE
