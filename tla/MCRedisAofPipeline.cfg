SPECIFICATION Spec
CONSTANTS
  dbnum = 2
  Commands <- MCCommands
  Configs <- AlwaysFsync
  Pipelining = TRUE
  Faults = {}
  MaxModifications = 2
  MaxForks = 1
  MaxRestarts = 0
INVARIANTS
  RepliesSurvive
