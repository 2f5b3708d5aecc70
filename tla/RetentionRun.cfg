SPECIFICATION FairSpec
CONSTANTS
  MaxId = 2
  MaxRuns = 3
  Policies <- Choices
  Hooks = {h1}
  Horizon = 1
  MaxResets = 1
  MaxFaults = 1
 
PROPERTY OnlyExpiredGo
PROPERTY ExpiredGoes
CHECK_DEADLOCK FALSE
