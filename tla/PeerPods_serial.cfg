SPECIFICATION OrderedFairSpec
CONSTANTS
  u1 = u1
  n1 = n1
  a1 = a1
  a2 = a2
  i1 = i1
  i2 = i2
  None = None
  Orphan = Orphan
  UID = {u1}
  Name = {"p1"}
  Node = {n1}
  Sandbox = {a1, a2}
  Instance = {i1, i2}
  PodName <- OnePod_PodName
  PodNode <- OnePod_PodNode
  PodOf <- OnePod_PodOf
  MaxTime = 1
  ReuseIDs = FALSE
  DeleteMayFail = TRUE
  DeleteEmptyOK = FALSE
  DeleteMissingOK = FALSE
  Overlap = FALSE
  OwnMayFail = FALSE
  MaxCrashes = 1
CHECK_DEADLOCK FALSE
INVARIANT ReleaseInv
INVARIANT DanglingInv
PROPERTY OnlyDanglingDeleted
PROPERTY OldPeerPodCollected
