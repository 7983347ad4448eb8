\* Three calls, two messages, one refused command.
CONSTANTS
  Keys <- SubKeys
  Hears <- SubHears
  MaxCalls = 3
  MaxMessages = 2
  MaxFaults = 1
SPECIFICATION FairSpec
CHECK_DEADLOCK FALSE
INVARIANTS TypeOK SubscribedIsServed LeftIsSilent HeardInOrder
PROPERTY OwedIsHeard
