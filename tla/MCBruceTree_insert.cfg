SPECIFICATION Spec
CONSTANTS
  Keys = {1, 2, 3, 4, 5, 6}
  Values = {1}
  BlockSize = 113
  QueueSize = 33
  KeySize = 4
  ValueSize = 24
  Calls = {"insert", "find", "scan"}
  Promises = {"none"}
  Distinct = TRUE
  Pinned = {2}
  Skips = {}
  MaxItems = 6
  MaxPending = 3
  MaxHeight = 3
INVARIANT TreeInOrder
INVARIANT FindExact
INVARIANT WriteAccepted
INVARIANT ScanExact
