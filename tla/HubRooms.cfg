CONSTANTS
  None = None
  NoName = NoName
  Names = {n1, n2}
  Users = {ann}
  Clients = {c1}
  Objects = {o1, o2}
  Entries = {e1, e2, e3, e4, e5}
  Requests = {"join", "update", "request", "response", "unknown"}
  QueueCap = 2
  MaxVersion = 2
SPECIFICATION Spec
INVARIANTS
  
  HostTrafficToHosts
CHECK_DEADLOCK FALSE
