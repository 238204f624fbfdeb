SPECIFICATION FairSpec
CONSTANTS
  NONE = NONE
  OWN = OWN
  Daemons = {d1, d2}
  Clients = {c1, c2}
  Requests <- MCRequests
  LoginSet = TRUE
  MaxRequests = 2
  MaxChanges = 2
  MaxChances = 1
INVARIANTS TypeOK OneSupervisor ReadAfterSeen 
PROPERTIES OnlyCommandsChange RequestsEnd ShutdownEnds
CHECK_DEADLOCK FALSE
