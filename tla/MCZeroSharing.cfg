\* Two exchanges of seeds over arithmetic words of 2 bits.
CONSTANTS
  Width = 2
  Seeds = {1, 2}
  Seed <- Seeds
  ZeroSeed = ZeroSeed
  Period = 4
  Calls <- TwoExchanges
  Elem <- AElem
  Zero = 0
  One = 1
  Plus <- APlus
  Neg <- ANeg
  Times <- ATimes
  RandomTable <- ATable
SPECIFICATION FairSpec
INVARIANTS TypeOK ZeroSum PairsReplicated Lockstep
PROPERTY Completion
