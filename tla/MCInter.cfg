\* The batches do not divide the array evenly: the last exchange of a level
\* covers elements that have been exchanged before.
SPECIFICATION FairSpec
CONSTANTS
  Exchanges = 2
  Levels = 3
  Garbage = Garbage
  Lengths <- BothLengths
  InOrder = {"inter"}
INVARIANTS NoMixedLevels LevelsApart PendingSendsIntact
PROPERTY AllCompared
