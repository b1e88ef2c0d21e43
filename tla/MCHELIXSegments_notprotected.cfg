SPECIFICATION Spec
CONSTANTS
  Functions <- FunctionsNotProtected
  MaxUsers = 0
  MaxAccesses = 1
  MaxIterations = 2
INVARIANT OneWaitOneSignal
