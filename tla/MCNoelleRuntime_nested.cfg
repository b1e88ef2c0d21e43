\* Two pool threads; three loops, DOALL inside any loop, HELIX inside DOALL and
\* DSWP inside HELIX.  A dispatch from a task may never return, so the program may stop.
CONSTANTS
  MaxCores = 2
  Modulus = 64
  Techniques <- AllTechniques
  Nests <- MixedNests
  MaxRequest = 3
  MaxDispatches = 3
  MaxDepth = 2
SPECIFICATION FairSpec
INVARIANTS
  ChunksAreExclusive
  JoinMeansEnded
  NothingLeaks
PROPERTIES
  EveryDispatchReturns
CHECK_DEADLOCK FALSE
