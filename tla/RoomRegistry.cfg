CONSTANTS
  None = None
  ann = ann
  bob = bob
  n1 = n1
  n2 = n2
  right = right
  wrong = wrong
  Names = {n1}
  Passwords = {right, wrong}
  Users = {ann}
  Workers = {w1, w2}
  Monitors = {m1, m2}
  Objects = {o1, o2}
  SerialUsers = {}
  Inputs <- RegistryInputs
SPECIFICATION Spec
SYMMETRY Symmetry
INVARIANTS
  StoredRoomHasKraken
  LeaksOnlyByRace
