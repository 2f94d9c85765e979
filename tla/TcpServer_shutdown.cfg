SPECIFICATION FairSpec
CONSTANTS
  MaxSessions = 2
  MaxConnections = 4
CHECK_DEADLOCK FALSE
PROPERTY ShutdownFinishesSessions
