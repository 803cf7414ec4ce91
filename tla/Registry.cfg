SPECIFICATION Spec
CONSTANTS
  c1 = c1
  c2 = c2
  c3 = c3
  a1 = a1
  a2 = a2
  a3 = a3
  a4 = a4
  None = None
  Calls = {c1, c2, c3}
  Arrays = {a1, a2, a3, a4}
  Ids = {1, 2}
  Names = {"n", "m"}
  Contents <- FieldLists
SYMMETRY Symmetry
INVARIANTS
  TypeOK
  RegisteredIsValid
  OneWinner
PROPERTIES
  RegisteredNeverChanges
