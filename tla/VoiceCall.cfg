CONSTANTS
  MaxJoins = 2
  None = None
SPECIFICATION FairSpec
INVARIANTS
  TypeOK
  HangUpIsQuiet
  NothingIsLost
  MutedIsSilent
PROPERTIES
  
  RetriesEnd
CHECK_DEADLOCK FALSE
