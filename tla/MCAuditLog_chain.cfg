SPECIFICATION Spec
CONSTANTS
  MaxLines = 3
  MaxArchives = 1
  MaxWrites = 7
  Faults <- SteadyClock
CHECK_DEADLOCK FALSE
INVARIANT TypeOK
INVARIANT ChainInv
INVARIANT NoSilentGap
INVARIANT SeqFollowsChain
INVARIANT CleanLogIsComplete
PROPERTY KeepsTrail
