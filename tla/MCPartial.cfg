\* One client submits a document of which a part is stored.
CONSTANTS
  Name <- SoloNames
  Key <- SoloKeys
  Client = {c1}
  Value <- MCValue
  Absent = Absent
  UpdateKey <- MCUpdateKey
  DeleteKey <- MCDeleteKey
  Document <- MCDocument
  Seed <- MCSeed
  MaxOps = 1
  MaxFaults = 0
  MaxStack = 5
SPECIFICATION SoloSpec
CHECK_DEADLOCK FALSE
INVARIANT ExistingIsNotSubmitted
