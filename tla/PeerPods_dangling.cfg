SPECIFICATION FairSpec
CONSTANTS
  u1 = u1
  n1 = n1
  a1 = a1
  a2 = a2
  i1 = i1
  i2 = i2
  None = None
  Orphan = Orphan
  UID = {u1}
  Name = {"p1"}
  Node = {n1}
  Sandbox = {a1}
  Instance = {i1, i2}
  PodName <- OneSandbox_PodName
  PodNode <- OneSandbox_PodNode
  PodOf <- OneSandbox_PodOf
  MaxTime = 1
  ReuseIDs = FALSE
  DeleteMayFail = TRUE
  DeleteEmptyOK = FALSE
  DeleteMissingOK = FALSE
  Overlap = TRUE
  OwnMayFail = TRUE
  MaxCrashes = 1
CHECK_DEADLOCK FALSE
INVARIANT ReleasedHasNoVM
PROPERTY DanglingCollected
