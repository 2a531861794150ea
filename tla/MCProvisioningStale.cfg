SPECIFICATION Spec
CONSTANTS
  Network <- TheNetwork
  Pieces <- TextPieces
  Typed <- AnyText
  MaxFaults = 1
PROPERTIES OkIsSuccess
CHECK_DEADLOCK FALSE
