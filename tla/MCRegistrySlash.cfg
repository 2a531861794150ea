SPECIFICATION Spec
CONSTANTS
  Names <- Slashed
  Place = "kitchen"
  Macs = {"m"}
  Stored <- NothingStored
  MaxDevices = 2
  MaxTaps = 3
  MaxLaunches = 0
  MaxInflight = 3
  Publishers = {1, 2}
  MaxServerRestarts = 0
  MaxTurns = 3
PROPERTIES DeletesItsTarget
CHECK_DEADLOCK FALSE
