\* Every loop with three instructions besides its branches, as a pipeline of two
\* or three stages, two iterations, one of which takes the branch.
CONSTANTS
  Program <- MCProgram
  BlockOf <- MCBlockOf
  Exit = "exit"
  Cond = "cond"
  Branch = "branch"
  MaxStages = 3
  Trip = 2
  Takens <- OneTaken
  Loops <- SmallLoops
SPECIFICATION FairSpec
INVARIANTS
  OperandsAreSequential
  EveryValueIsTaken
PROPERTIES
  EveryStageReturns
