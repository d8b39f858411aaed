\* Admissions of a request against the commands of two shells.
CONSTANTS
  r1 = r1  b1 = b1  l1 = l1  l2 = l2  c1 = c1  c2 = c2
  s0 = s0  s1 = s1  v0 = v0  v1 = v1
  None = None
  Requests = {r1}
  Batches = {}
  LeaseIds = {l1, l2}
  Controllers = {c1, c2}
  Shas = {s1}
  Versions = {v1}
  Source <- MCSourceOne
  InitialRows <- MCSeeded
  MaxClock = 5
SYMMETRY MCSymmetry
SPECIFICATION Spec
INVARIANTS TypeOK DrainedIsQuiet ValidatedMigrationWasAlone
PROPERTIES OpensAfterItsClosure GateSpec
