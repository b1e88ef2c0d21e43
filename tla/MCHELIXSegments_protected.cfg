SPECIFICATION Spec
CONSTANTS
  Functions <- FunctionsProtected
  MaxUsers = 2
  MaxAccesses = 2
  MaxIterations = 2
INVARIANTS
  ReachabilityIsExact
  SegmentIsProtected
  OneWaitOneSignal
  SpilledValueIsPrevious
PROPERTY AnalysisTerminates
