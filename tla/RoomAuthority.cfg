CONSTANTS
  None = None
  ann = ann
  bob = bob
  n1 = n1
  n2 = n2
  right = right
  wrong = wrong
  Names = {n1}
  Passwords = {right, wrong}
  Users = {ann, bob}
  Workers = {w1, w2}
  Monitors = {}
  Objects = {o1, o2}
  SerialUsers = {ann}
  Inputs <- AuthorityInputs
SPECIFICATION Spec
SYMMETRY Symmetry
INVARIANTS
  TypeOK
  FieldsFromAdmittedHosts
PROPERTIES
  TakeoverOnFirstContact
  ImplementsToken
