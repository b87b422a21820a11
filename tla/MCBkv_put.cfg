SPECIFICATION BkvSpec
CONSTANTS
  w1 = w1
  Writers = {w1}
  MaxId = 3
  MaxNew = 3
  ContentAddressed = TRUE
  Faults <- EngineFaults
  None = None
INVARIANTS ShownReadable OneTreeStored LeftoversExplained
