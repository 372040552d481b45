SPECIFICATION Spec
CONSTANTS
  a1 = a1
  a2 = a2
  a3 = a3
  i1 = i1
  i2 = i2
  i3 = i3
  m1 = m1
  m2 = m2
  None = None
  IP = {i1, i2}
  Alloc = {a1, a2}
  Manager = {m1, m2}
  MgrOf <- TwoManagers_MgrOf
  Configs <- Kept
  MaxTries = 2
  ApiMayFail = FALSE
  RecoverGetMayFail = FALSE
  MaxCrashes = 0
CHECK_DEADLOCK FALSE
INVARIANTS NoDoubleUse
