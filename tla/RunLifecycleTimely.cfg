SPECIFICATION Spec
CONSTANTS
  MaxRuns = 2
  Streaming = {1}
  Timeout <- OneTick
  DefaultTimeout = 2
  Grace = 1
  BatchMax = 2
  Cancellable = {}
  MaxRestarts = 0
  MaxLosses = 1
  InTime = TRUE
 
PROPERTY ImplementsBackup
