SPECIFICATION Spec
CONSTANTS
  o1 = o1
  o2 = o2
  o3 = o3
  o4 = o4
  f1 = f1
  f2 = f2
  f3 = f3
  None = None
  Ops = {o1, o2, o3, o4}
  FileIds = {f1, f2, f3}
  MaxAttempts = 2
  MaxCrashes = 1
SYMMETRY Symmetry
INVARIANTS
  TypeOK
  SavedFileAvailable
  FailedSaveLeavesNothing
  MapMatchesDirectory
  ClosedStoreIsEmpty
PROPERTIES
  ImplementsFileStore
