SPECIFICATION FairSpec
CONSTANTS
  s1 = s1
  s2 = s2
  Sandbox = {s1, s2}
  Annotated = {s1}
  Cloud <- AllClouds
  Cases <- LifeAndPair
  MaxCrashes = 1
  MaxStops = 1
CHECK_DEADLOCK FALSE
INVARIANT DeletedIsGone
INVARIANT NothingLeft
 
PROPERTY DeletionEnds
