\* Two clients make up to three calls, none of which deletes.
CONSTANTS
  Name <- Names
  Key <- Keys
  Client = {c1, c2}
  Value <- MCValue
  Absent = Absent
  UpdateKey <- MCUpdateKey
  DeleteKey <- MCDeleteKey
  Document <- MCDocument
  Seed <- MCSeed
  Object <- Objects
  Record <- Records
  MaxOps = 3
  MaxFaults = 0
  MaxStack = 4
SPECIFICATION WritersFairSpec
CHECK_DEADLOCK FALSE
INVARIANTS OnlyClimbersUnlisted OnlySubmittedHollow
PROPERTY EventuallyListed
