\* All loops on 4-bit integers that stay in range, steps -1 and 2, up to 3 cores.
CONSTANTS
  Width = 4
  ValuesInCacheLine = 2
  MaxCores = 3
  MaxChunk = 2
  Steps <- BothSteps
  Loops <- LoopsInRange
SPECIFICATION FairSpec
INVARIANTS
  EachIterationOnce
  HeaderRunsAsSequential
  ReductionIsExact
PROPERTIES
  EveryTaskReturns
