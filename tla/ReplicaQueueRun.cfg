SPECIFICATION FairQueueSpec
CONSTANTS
  Runs = {r1}
  Repos = {a}
  Sweepers = {s1}
  MaxJobs = 2
  MaxTroubles = 2
INVARIANT SyncingIsWorked
INVARIANT DoneIsServed
PROPERTY OffsiteAtLast
CHECK_DEADLOCK FALSE
