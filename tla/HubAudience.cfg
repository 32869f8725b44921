CONSTANTS
  None = None
  NoName = NoName
  Names = {n1}
  Users = {ann}
  Clients = {c1, c2}
  Objects = {o1}
  Entries = {e1, e2, e3, e4, e5}
  Requests = {"join", "update"}
  QueueCap = 1
  MaxVersion = 2
SPECIFICATION Spec
SYMMETRY Symmetry
INVARIANTS
  TypeOK
  OnlyAdmittedHear
  SnapshotsInOrder
  
CHECK_DEADLOCK FALSE

  
