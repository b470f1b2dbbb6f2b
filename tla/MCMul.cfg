\* MulProgram over arithmetic words of 3 bits.
CONSTANTS
  Width = 3
  Seeds = {1, 2, 3}
  Eager = 3
  Prog <- MulProgram
  Replicated <- ReplicatedBy
  NotOpened = NotOpened
  Seed <- Seeds
  Period = 5
  Elem <- AElem
  Zero = 0
  One = 1
  Plus <- APlus
  Neg <- ANeg
  Times <- ATimes
  RandomTable <- ATable
  LinearMap <- ALinearMap
  Linear <- ALinear
  InputValue <- AWord
  DealtWord <- AWord
SPECIFICATION MCSpec
INVARIANTS ExchangesInFlight MatchedCalls
PROPERTY ImplementsIdeal
