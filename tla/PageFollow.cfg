CONSTANTS
  r1 = r1
  r2 = r2
  page1 = page1
  page1hash = page1hash
  elsewhere = elsewhere
  None = None
  Rooms <- MCRooms
  Urls <- MCUrls
  Anchored <- MCAnchored
  Document <- MCDocument
  Origin <- MCOrigin
  Home <- MCHome
  Start = {page1, elsewhere}
  MaxSaves = 2
  MaxTasks = 1
  MaxEvents = 4
SPECIFICATION FairSpec
INVARIANTS
  TypeOK
  StrandedOnlyByRace
  ChoiceIsKept
PROPERTIES
  OnlyMembersJump
  MembersFollow
CHECK_DEADLOCK FALSE
