SPECIFICATION Spec
CONSTANTS
  Sandboxes = {s1, s2, s3}
  Addrs = {a1, a2, a3}
  MaxNames = 3
  Cases <- CalmAndRough
SYMMETRY Symmetry
CHECK_DEADLOCK FALSE
INVARIANT RulesReached
INVARIANT IdsDistinct
INVARIANT TeardownComplete
