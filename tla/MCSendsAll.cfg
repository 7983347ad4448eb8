\* Two messages, no PUBLISH fails.
CONSTANTS
  MaxTopic = 1
  MaxStored = 2
  MaxMessages = 2
  MaxFaults = 0
SPECIFICATION Spec
CHECK_DEADLOCK FALSE
INVARIANT SendsAllStored
