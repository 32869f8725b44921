CONSTANTS
  None = None
  NoName = NoName
  Names = {n1}
  Users = {ann}
  Clients = {c1}
  Objects = {o1}
  Entries = {e1, e2, e3, e4}
  Requests = {"join", "update", "member", "request", "response", "text", "unknown"}
  QueueCap = 1
  MaxVersion = 2
SPECIFICATION FairSpec
PROPERTIES
  BroadcastsAreTaken
  ClosedConnectionsEnd
CHECK_DEADLOCK FALSE
