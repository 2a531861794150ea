SPECIFICATION Spec
CONSTANTS
  Network <- TheNetwork
  Pieces <- TextPieces
  Typed <- AnyText
  MaxFaults = 2
INVARIANTS TypeOK AnsweredForItself BelievedJoined OnlineAtLast TypedCredentials CentralForSwitch
PROPERTIES ProvisioningEnds
CHECK_DEADLOCK FALSE
