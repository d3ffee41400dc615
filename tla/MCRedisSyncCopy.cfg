SPECIFICATION Spec
CONSTANTS
  s1 = s1
  s2 = s2
  Slaves = {s1, s2}
  Dbs = {0, 1}
  Faults = {}
  Chunks = 1
  MaxCount = 1
  MaxReply = 4
INVARIANTS
  SlaveIsCopy
