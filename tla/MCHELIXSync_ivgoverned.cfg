\* Three cores, two segments and no preamble, exits in iterations 0..5.
CONSTANTS
  p = p
  a = a
  none = none
  NumCores = 3
  Segs <- PreambleAndOther
  Preamble = none
  MaxRound = 1
SPECIFICATION FairSpec
PROPERTIES
  EveryCoreReturns
