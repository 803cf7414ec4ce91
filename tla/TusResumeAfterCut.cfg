SPECIFICATION Spec
CONSTANTS
  r1 = r1
  r2 = r2
  r3 = r3
  u1 = u1
  f1 = f1
  f2 = f2
  None = None
  Requests = {r1, r2, r3}
  Uploads = {u1}
  FileIds = {f1, f2}
  MaxLength = 2
  Faults = {"cut"}
  Patient = {u1}
  Steady = {}
  Ownership = {TRUE}
CONSTRAINT FirstUseInOrder
INVARIANTS
  ContentFaithful
