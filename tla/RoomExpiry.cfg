CONSTANTS
  None = None
  ann = ann
  bob = bob
  n1 = n1
  n2 = n2
  right = right
  wrong = wrong
  Names = {n1, n2}
  Passwords = {right, wrong}
  Users = {ann}
  Workers = {w1}
  Monitors = {m1}
  Objects = {o1, o2, o3}
  SerialUsers = {ann}
  Inputs <- ExpiryInputs
SPECIFICATION FairSpec
INVARIANT
  OneMonitorNeverPanics
PROPERTY
  PolledRoomsExpire
