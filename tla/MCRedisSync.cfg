SPECIFICATION Spec
CONSTANTS
  s1 = s1
  s2 = s2
  Slaves = {s1, s2}
  Dbs = {0, 1}
  Faults = {"fork", "save", "kill"}
  Chunks = 2
  MaxCount = 1
  MaxReply = 2
INVARIANTS
  SlavesAreListed
  SlaveWillAgree
  WaitersHaveChild
PROPERTIES
  SyncEnds
