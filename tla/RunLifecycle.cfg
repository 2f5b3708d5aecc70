SPECIFICATION FairSpec
CONSTANTS
  MaxRuns = 1
  Streaming = {1}
  Timeout <- OneTick
  DefaultTimeout = 2
  Grace = 1
  BatchMax = 1
  Cancellable = {1}
  MaxRestarts = 1
  MaxLosses = 0
  InTime = FALSE
INVARIANT TypeOK
INVARIANT NoCutDump
INVARIANT SuccessIsEarned
PROPERTY DumpStays
 
PROPERTY EndsForGood
