\* One client deletes the only field of a record.
CONSTANTS
  Name <- SoloNames
  Key <- SoloKeys
  Client = {c1}
  Value <- MCValue
  Absent = Absent
  UpdateKey <- MCUpdateKey
  DeleteKey <- MCDeleteKey
  Document <- MCDocument
  Seed <- MCSeed
  MaxOps = 2
  MaxFaults = 0
  MaxStack = 5
SPECIFICATION SoloSpec
CHECK_DEADLOCK FALSE
INVARIANT ListedKeysExist
