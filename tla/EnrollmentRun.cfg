SPECIFICATION FairSpec
CONSTANTS
  MaxKeys = 9
  MaxDecisions = 3
  MaxDue = 2
  MaxFaults = 2
INVARIANT TypeOK
INVARIANT PairFits
 
PROPERTY ComesToWork
CHECK_DEADLOCK FALSE
