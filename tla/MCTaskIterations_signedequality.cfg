\* Loops left on equality whose signed IV does not wrap.
CONSTANTS
  Width = 4
  ValuesInCacheLine = 2
  MaxCores = 2
  MaxChunk = 2
  Steps <- BothSteps
  Loops <- SignedEqualityLoops
SPECIFICATION Spec
INVARIANTS
  EachIterationOnce
