SPECIFICATION Spec
SYMMETRY MCSymmetry
CONSTANTS
  c1 = c1
  c2 = c2
  k1 = k1
  k2 = k2
  v1 = v1
  NoValue = NoValue
  Nobody = Nobody
  Clients = {c1, c2}
  Dbs = {0, 1}
  Keys = {k1}
  Values = {v1}
  Commands <- MCWatchCommands
  WatchKeys = {k1}
  MaxmemoryPolicy = "allkeys"
  MaxQueue = 1
INVARIANTS
  WatchListsAgree
  DirtyOnlyIfWatching
PROPERTIES
  ExecOnlyIfUnchanged
