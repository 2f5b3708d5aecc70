SPECIFICATION FairUpkeepSpec
CONSTANTS
  Runners = {a}
  MaxKey = 3
  MaxCA = 3
  MaxVersion = 2
  Patience = 2
  InPlace = FALSE
  MaxFaults = 1
 
 
PROPERTY KeepsWorking
CHECK_DEADLOCK FALSE
