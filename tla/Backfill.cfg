SPECIFICATION FairSpec
CONSTANTS
  r1 = r1
  r2 = r2
  Requests = {r1, r2}
  Universe <- MCUniverse
  NoWindow <- MCNoWindow
  BatchSizes = {1, 2}
  Resumes = {TRUE, FALSE}
  MaxRetries = 2
  MaxRateLimits = 1
  MaxPages = 2
  MaxStarts = 3
INVARIANTS
  CompletedAreStored
  DatasetCoversContracts
PROPERTIES
  CheckpointKeepsRequest
  RunsEnd
CHECK_DEADLOCK FALSE
