SPECIFICATION BootFairSpec
CONSTANTS
  Pods = {p1, p2}
  Cases <- SomeCases
  Sources = {"file", "azure", "aws", "gcp", "none"}
  Configs <- AllConfigs
  MaxAttempts = 10
  Deadline = 36
  MaxRuns = 2
CHECK_DEADLOCK FALSE
 
 
INVARIANT DigestVouches
PROPERTY ProcessEnds
 
