\* One Subscribe and one Unsubscribe, nothing refused.
CONSTANTS
  Keys <- SubKeys
  Hears <- SubHears
  MaxCalls = 2
  MaxMessages = 0
  MaxFaults = 0
SPECIFICATION Spec
CHECK_DEADLOCK FALSE
PROPERTY UnsubscribeIsSent
