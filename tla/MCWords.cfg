\* Words of 8 bits.
CONSTANTS
  LogWidth = 3
  XWord <- SomeWords
  YWord <- AllWords
SPECIFICATION Spec
INVARIANTS TypeOK EqSyncCorrect EqOfLowerHalf GreaterCorrect SwapCorrect AdditionCorrect RoundsKeep
