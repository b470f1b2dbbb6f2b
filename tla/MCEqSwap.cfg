\* EqSwapProgram over boolean words of 4 bits.
CONSTANTS
  Width = 4
  Seeds = {1, 2, 3}
  Eager = 0
  Prog <- EqSwapProgram
  Replicated <- ReplicatedBy
  NotOpened = NotOpened
  Seed <- Seeds
  Period = 5
  Elem <- BElem
  Zero <- BZero
  One <- Bits
  Plus <- BPlus
  Neg <- BNeg
  Times <- BTimes
  RandomTable <- BTable
  LinearMap <- BLinearMap
  Linear <- BLinear
  InputValue <- BWord
  DealtWord <- BWord
SPECIFICATION MCFairSpec
INVARIANTS TypeOK OpenedIsReconstructed ReplicasAgree RevealBufferFree RevealIsBarrier
PROPERTIES ImplementsIdeal Termination
