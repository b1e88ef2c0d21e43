SPECIFICATION Spec
CONSTANTS
  Programs <- AllPrograms
  MaxInsts = 6
INVARIANTS
  GraphFollowsTheCode
  OrderFollowsTheCalls
  FileNamesTheRemaining
  IslandsAreClosed
PROPERTY InliningTerminates
CHECK_DEADLOCK FALSE
