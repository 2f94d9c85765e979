SPECIFICATION Spec
CONSTANTS
  Instances = {p1, p2, p3}
  Relative = {p3}
  MaxInodes = 3
INVARIANT FileMeansUp
CHECK_DEADLOCK FALSE
