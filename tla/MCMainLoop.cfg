SPECIFICATION VoiceSpec
CONSTANTS
  WRAP = 8
  RECORD_TIMEOUT = 3
  POLL_PERIOD = 2
  Slack = 2
  Commands = {0, 1}
  Speech = TRUE
INVARIANTS LoopTypeOK OneCommandPerTrigger NoLateCommand AcceptedIsCarriedOut
PROPERTIES WindowCloses
