SPECIFICATION Spec
CONSTANTS
  w1 = w1
  w2 = w2
  Writers = {w1, w2}
  MaxId = 3
  MaxNew = 2
  ContentAddressed = FALSE
  Faults <- AllFaults
  None = None
SYMMETRY Sessions
INVARIANTS CommitInv CommittedReadable GarbageAccounted
PROPERTIES CommitExtendsBase IsSnapshotStore
