SPECIFICATION Spec
CONSTANTS
  Programs <- AllPrograms
  Files <- AllFiles
  MinimumHotness = 10
  MinimumInsts = 5
  MinimumIterations = 1
  MinimumSaved = 20
  MinimumInstsPerIteration = 6
  MaxCores = 2
  MaxSteps = 18
  MaxQueries = 2
  MaxInvocations = 4
INVARIANTS
  ProfileAddsUp
  ForestStaysConnected
  BestLoopsAreParallelized
  QueriesAgree
  NestedInvocationsAreSequential
PROPERTY FlagIsReset
CHECK_DEADLOCK FALSE
