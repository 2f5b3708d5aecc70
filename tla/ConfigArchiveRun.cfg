SPECIFICATION FairSpec
CONSTANTS
  Ids = {1, 2}
  MaxKey = 3
  FirstKeys = {2}
  MaxValue = 2
  Seeds = {1}
  Foreign <- Elsewhere
  Requests = {p, q}
  MaxRequests = 2
  MaxRotations = 1
  MaxFaults = 1
  MaxClock = 1
  Kept = 1
PROPERTY ReadableStays
PROPERTY SecretsSurvive
 
PROPERTY RekeyFinishes
CHECK_DEADLOCK FALSE
