SPECIFICATION Spec
CONSTANTS
  a1 = a1
  a2 = a2
  a3 = a3
  i1 = i1
  i2 = i2
  i3 = i3
  m1 = m1
  m2 = m2
  None = None
  IP = {i1, i2, i3}
  Alloc = {a1, a2, a3}
  Manager = {m1}
  MgrOf <- OneManager_MgrOf
  Configs <- Edited
  MaxTries = 2
  ApiMayFail = TRUE
  RecoverGetMayFail = FALSE
  MaxCrashes = 1
SYMMETRY Symmetry
CHECK_DEADLOCK FALSE
INVARIANT PoolConsistent
INVARIANT NoDoubleUse
PROPERTY ImplementsPool
PROPERTY RecoveryKeepsAllocations
