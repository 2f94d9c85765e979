SPECIFICATION FairSpec
CONSTANTS
  MaxSessions = 2
  MaxConnections = 4
CHECK_DEADLOCK FALSE
INVARIANTS
  TypeOK
  ServedWithinLimit
PROPERTIES
  ShutdownIsTotal
  SignalEndsProcess
