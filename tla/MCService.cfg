\* Two fields and a bare name, two calls that change a field, one failed command.
CONSTANTS
  MaxTopic = 3
  Field = {1, 3}
  MaxStored = 1
  MaxMessages = 2
  MaxChanges = 2
  MaxFaults = 1
SPECIFICATION ServiceSpec
CHECK_DEADLOCK FALSE
INVARIANT ListenerCatchesUp
PROPERTY ChangesAreSeen
