SPECIFICATION Spec
CONSTANTS
  KeySizeOf <- KeySizes
  ValueSizes = {6, 16, 36, 75}
  BlockSize = 101
  MaxPairs = 6
INVARIANTS PiecesFit PairsKept KeysTogether  PushDownEnds
