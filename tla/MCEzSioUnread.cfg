SPECIFICATION Spec
CONSTANTS
  TxSize = 2
  RxSize = 2
  Depth = 2
  ReadSizes = {}
  WriteSizes = {1, 4}
  MaxIn = 5
  MaxOut = 6
PROPERTY NonBlockedRead
CHECK_DEADLOCK FALSE
