SPECIFICATION Spec
CONSTANTS
  Keys = {1, 2, 3}
  Values = {1}
  BlockSize = 141
  QueueSize = 79
  KeySize = 4
  ValueSize = 24
  Calls = {"insert", "upsert", "removeKey", "seek"}
  Promises = {"none", "true"}
  Distinct = FALSE
  Pinned = {2}
  Skips = {}
  MaxItems = 6
  MaxPending = 2
  MaxHeight = 2
PROPERTY IsMultimap
INVARIANT NothingUndefined
INVARIANT SeekExact
INVARIANT ScanExact
INVARIANT StatsExact
