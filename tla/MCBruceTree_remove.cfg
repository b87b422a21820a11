SPECIFICATION Spec
CONSTANTS
  Keys = {1, 2, 3, 4, 5}
  Values = {1}
  BlockSize = 89
  QueueSize = 0
  KeySize = 4
  ValueSize = 24
  Calls = {"insert", "removeKey", "find", "seek", "rank", "skip"}
  Promises = {"true"}
  Distinct = TRUE
  Pinned = {2}
  Skips <- OneStep
  MaxItems = 5
  MaxPending = 2
  MaxHeight = 3
INVARIANT RankExact
PROPERTY IsMultimap
INVARIANT SkipExact
