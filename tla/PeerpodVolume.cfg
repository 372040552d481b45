SPECIFICATION FairSpec
CONSTANTS
  p1 = p1
  p2 = p2
  None = None
  Pod = {p1, p2}
  MaxTries = 1
  Cases <- CalmFailingRestarted
CHECK_DEADLOCK FALSE
 
PROPERTY DriverOrder
 
