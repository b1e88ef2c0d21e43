SPECIFICATION Spec
CONSTANTS
  Program <- MCProgram
  BlockOf <- MCBlockOf
  Flow <- MCFlow
  Entry = "entry"
  Header = "header"
  Exit = "exit"
  Trip = 4
  Cores = 2
  Loops <- SoundLoops
INVARIANTS
  DependenceIsSound
  InvariantsKeepTheirValue
  StagesFollowTheDependences
  DOALLKeepsTheResult
