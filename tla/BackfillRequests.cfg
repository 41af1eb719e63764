SPECIFICATION Spec
CONSTANTS
  r1 = r1
  r2 = r2
  Requests = {r1, r2}
  Universe <- MCUniverse
  NoWindow <- MCNoWindow
  BatchSizes = {1, 2}
  Resumes = {TRUE}
  MaxRetries = 2
  MaxRateLimits = 1
  MaxPages = 2
  MaxStarts = 5
INVARIANTS
  DatasetAnswersRequest
CHECK_DEADLOCK FALSE
