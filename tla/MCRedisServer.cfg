SPECIFICATION Spec
CONSTANTS
  alpha = alpha
  beta = beta
  None = None
INVARIANTS
  StructuresAgree
  NothingIsLost
  CopiesAgree
PROPERTIES
  AbortsNeedLoop
  SlaveReconnects
