\* Two topics, two messages here or elsewhere, a store for one, one fault.
CONSTANTS
  MaxTopic = 2
  MaxStored = 1
  MaxMessages = 2
  MaxFaults = 1
SPECIFICATION FairSpec
CHECK_DEADLOCK FALSE
INVARIANTS HeardOnce OneLateCallback
PROPERTIES FirstIsHeard MessageReleases
