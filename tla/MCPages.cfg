SPECIFICATION Spec
CONSTANTS
  KeySizeOf <- KeySizes
  ValueSizeOf <- ValueSizes
  MaxPairs = 3
  MaxBranches = 2
  MaxEdits = 2
INVARIANTS SizeRight ReadsBack CutRefused
