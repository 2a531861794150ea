SPECIFICATION Spec
CONSTANTS
  TxSize = 2
  RxSize = 2
  Depth = 2
  ReadSizes = {1, 2}
  WriteSizes = {1, 4}
  MaxIn = 5
  MaxOut = 6
INVARIANTS SerialTypeOK ReceivedInOrder SentInOrder NoStrandedByte
PROPERTIES InterruptEnds AcceptedIsSent
