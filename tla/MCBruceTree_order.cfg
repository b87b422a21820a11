SPECIFICATION Spec
CHECK_DEADLOCK FALSE
CONSTANTS
  Keys = {1, 2, 3, 4}
  Values = {1, 2}
  BlockSize = 113
  QueueSize = 51
  KeySize = 4
  ValueSize = 24
  Calls = {"upsert"}
  Promises = {"none", "true"}
  Distinct = TRUE
  Pinned = {2}
  Skips = {}
  MaxItems = 5
  MaxPending = 3
  MaxHeight = 3
INVARIANT WriteExact
