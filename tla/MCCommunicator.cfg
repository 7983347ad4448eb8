\* Three messages on two topics, a store for one, one PUBLISH fails.
CONSTANTS
  MaxTopic = 2
  MaxStored = 1
  MaxMessages = 3
  MaxFaults = 1
SPECIFICATION FairSpec
CHECK_DEADLOCK FALSE
INVARIANTS TypeOK OnceAndInOrder TrueMeansSent PublishBounds
PROPERTIES ShutdownEnds NothingStaysStored
