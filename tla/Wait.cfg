CONSTANTS
  Host = Host
  Http = Http
  Members = {m1}
  None = None
  MaxDisturbances = 4
SPECIFICATION FairSpec
INVARIANTS
  TypeOK
  
PROPERTIES
  HostIsReleased
  
CHECK_DEADLOCK FALSE
