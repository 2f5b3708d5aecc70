SPECIFICATION Spec
CONSTANTS
  Instances = {db}
  None = None
  Admin = {op}
  Periods <- TwoPeriods
  MaxSchedules = 2
  Horizon = 2
  MaxRestarts = 1
INVARIANT TypeOK
INVARIANT IndexAgrees
 
INVARIANT FiresOnce
 
