SPECIFICATION Spec
CONSTANTS
  Instances = {p1, p2, p3}
  Relative = {p3}
  MaxInodes = 3
INVARIANTS
  OneUnlessRaced
  
  FileLeftByStray
CHECK_DEADLOCK FALSE
