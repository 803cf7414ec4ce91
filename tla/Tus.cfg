SPECIFICATION Spec
CONSTANTS
  r1 = r1
  r2 = r2
  r3 = r3
  u1 = u1
  u2 = u2
  f1 = f1
  f2 = f2
  None = None
  Requests = {r1, r2, r3}
  Uploads = {u1, u2}
  FileIds = {f1, f2}
  MaxLength = 2
  Faults = {"cut", "overlong", "sync", "save"}
  Patient = {u2}
  Steady = {u2}
  Ownership = {TRUE, FALSE}
CONSTRAINT FirstUseInOrder
INVARIANTS
  TypeOK
  AnsweredFileIsStored
  AckedBytesStaged
  NeverTruncated
  SteadyContentFaithful
  OffsetWithinLength
  StagingReclaimed
PROPERTIES
  ImplementsUpload
  FullyReceivedLeaves
