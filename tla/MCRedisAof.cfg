SPECIFICATION Spec
CONSTANTS
  dbnum = 2
  Commands <- MCCommands
  Configs <- MCConfigs
  Pipelining = FALSE
  Faults = {"kill", "power", "write", "fork", "child"}
  MaxModifications = 2
  MaxForks = 1
  MaxRestarts = 1
INVARIANTS
  FileIsPastState
  RepliesSurvive
  WaitingIsRewriting
PROPERTIES
  LogSpec
  BufferIsWritten
