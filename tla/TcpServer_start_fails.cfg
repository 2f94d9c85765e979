SPECIFICATION Spec
CONSTANTS
  MaxSessions = 2
  MaxConnections = 4
CHECK_DEADLOCK FALSE
INVARIANT HandlesDoNotOutlive
