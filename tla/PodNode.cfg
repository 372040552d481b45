SPECIFICATION FairSpec
CONSTANTS
  Externals = {TRUE, FALSE}
  Dedicateds = {TRUE, FALSE}
  PodSubnets <- OtherSubnets
  Cases <- EarlyAndLate
  MaxFaults = 2
CHECK_DEADLOCK FALSE
 
PROPERTY EventuallyServes
