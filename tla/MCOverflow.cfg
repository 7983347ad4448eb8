\* One client deletes what is below a root; the stack holds twice the levels there are.
CONSTANTS
  Name <- SoloNames
  Key <- SoloKeys
  Client = {c1}
  Value <- MCValue
  Absent = Absent
  UpdateKey <- MCUpdateKey
  DeleteKey <- MCDeleteKey
  Document <- MCDocument
  Seed <- MCSeed
  MaxOps = 1
  MaxFaults = 0
  MaxStack = 8
SPECIFICATION SoloSpec
CHECK_DEADLOCK FALSE
INVARIANT StackNeverOverflows
