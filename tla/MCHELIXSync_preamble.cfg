\* Three cores, a preamble segment and one more, exits in iterations 0..8.
CONSTANTS
  p = p
  a = a
  none = none
  NumCores = 3
  Segs <- PreambleAndOther
  Preamble = p
  MaxRound = 2
SPECIFICATION FairSpec
INVARIANTS
  SegmentsInOrder
  NoIterationPastTheExit
  NoIterationIsSkipped
  LiveOutsSeeEveryIteration
  EarliestCoreNeverBlocks
PROPERTIES
  NoSignalIsLost
  ImplementsOrderedSegments
  EveryCoreReturns
