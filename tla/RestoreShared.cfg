SPECIFICATION Spec
CONSTANTS
  Files = {f1, f2}
  Requests = {q1, q2, q3}
  None = None
  SizeKept = TRUE
  MaxFaults = 1
SYMMETRY Interchangeable
INVARIANTS
  TypeOK
  BodyIntact
PROPERTIES
  CopyKept
