SPECIFICATION Spec
CONSTANTS
  c1 = c1
  c2 = c2
  k1 = k1
  k2 = k2
  v1 = v1
  NoValue = NoValue
  Nobody = Nobody
  Clients = {c1}
  Dbs = {0, 1}
  Keys = {k1, k2}
  Values = {v1}
  Commands <- MCTransactionCommands
  WatchKeys = {k1}
  MaxmemoryPolicy = "volatile"
  MaxQueue = 2
INVARIANTS
  ExpiresHaveKeys
  SlaveAgrees
  StaleIsDirty
PROPERTIES
  SlaveSeesNoHalfTransaction
