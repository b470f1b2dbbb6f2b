\* Words of 4 bits.
CONSTANTS
  LogWidth = 2
  XWord <- AllWords
  YWord <- AllWords
SPECIFICATION Spec
INVARIANT EqCorrect
