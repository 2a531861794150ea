SPECIFICATION Spec
CONSTANTS
  lamp = lamp
  regulator = regulator
  trigger = trigger
  WRAP = 3
  RECORD_TIMEOUT = 0
  POLL_PERIOD = 0
  Slack = 1
  Commands = {}
  Speech = FALSE
  Targets <- MCTargets
  WordsIn <- MCWordsIn
  Inputs <- MCInputs
  MaxPublished = 2
  MaxReqs = 2
  Resets = TRUE
INVARIANTS PathTypeOK DrivenOnceInOrder LostForKnownCause
PROPERTIES TriggerDrivesSwitch
