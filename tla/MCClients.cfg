\* Two clients make two calls, another process one read; one command fails or one client dies.
CONSTANTS
  Name <- Names
  Key <- ClientKeys
  Client = {c1, c2}
  Value <- MCValue
  Absent = Absent
  UpdateKey <- MCUpdateKey
  DeleteKey <- MCDeleteKey
  Document <- MCDocument
  Seed <- MCSeed
  Object <- MCObject
  Record <- MCRecord
  QueryKey <- MCQueryKey
  MaxOps = 2
  MaxFaults = 1
  MaxStack = 4
  MaxReads = 1
SPECIFICATION ReaderSpec
SYMMETRY Symmetry
CHECK_DEADLOCK FALSE
INVARIANTS TypeOK RefusedOnlyAtRootRecord AnswersWereTrue
