SPECIFICATION Spec
CONSTANTS
  Keys = {1, 2, 3}
  Values = {1, 2}
  BlockSize = 209
  QueueSize = 91
  KeySize = 4
  ValueSize = 56
  Calls = {"insert", "upsert", "removeKey", "removeKV", "find"}
  Promises = {"none", "true", "false"}
  Distinct = TRUE
  Pinned = {2}
  Skips = {}
  MaxItems = 3
  MaxPending = 2
  MaxHeight = 2
PROPERTY IsMultimap
INVARIANT LeafCountsExact
