SPECIFICATION Spec
CONSTANTS
  w1 = w1
  Writers = {w1}
  MaxId = 2
  MaxNew = 2
  ContentAddressed = TRUE
  Faults <- NoFaults
  None = None
INVARIANT CommittedReadable
