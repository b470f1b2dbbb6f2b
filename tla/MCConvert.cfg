\* Words of 4 bits: the adder has two exchanges.
SPECIFICATION Spec
CONSTANTS
  Width = 4
  Inputs <- MCInputs
  DealWords <- MCDealWords
  Random <- MCRandom
  Eagers = {0, 2}
INVARIANTS Matched Converted StillInStep SomeoneMoves
