SPECIFICATION Spec
CONSTANTS
  Files = {f1}
  Requests = {q1}
  None = None
  SizeKept = FALSE
  MaxFaults = 0
SYMMETRY Interchangeable
INVARIANTS
  DeltaAnswered
