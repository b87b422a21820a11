SPECIFICATION FairSpec
CONSTANTS
  w1 = w1
  w2 = w2
  Writers = {w1, w2}
  MaxId = 4
  MaxNew = 2
  ContentAddressed = FALSE
  Faults <- NoFaults
  None = None
INVARIANTS TypeOK SnapshotStable RewriteExact QuiescentClean
PROPERTY Reclaimed
