SPECIFICATION Spec
CONSTANTS
  NUM_OF_BUFFER = 3
  ResetAt = 4
  MaxFrames = 13
INVARIANTS TypeOK HeldFrameIntact HeldFrameInRing FirstOverrunIsClean
PROPERTIES InOrder BacklogDrains ImplementsAudioQueue
