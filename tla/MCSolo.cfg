\* One client makes up to four calls; one command fails or the client is killed.
CONSTANTS
  Name <- SoloNames
  Key <- SoloKeys
  Client = {c1}
  Value <- MCValue
  Absent = Absent
  UpdateKey <- MCUpdateKey
  DeleteKey <- MCDeleteKey
  Document <- MCDocument
  Seed <- MCSeed
  MaxOps = 4
  MaxFaults = 1
  MaxStack = 5
SPECIFICATION SoloFairSpec
CHECK_DEADLOCK FALSE
INVARIANTS StoredKeysAreListed DeepOnlyAtEmptyRoot UpdatesAreNotified DeleteIsComplete AddedIsReachable
PROPERTIES ImplementsConfigStore CallsEnd
