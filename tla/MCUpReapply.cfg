SPECIFICATION Spec
CONSTANTS
  MaxMIGDevicesPerSlice = 64
  None = None
  Malformed = Malformed
  Blank = Blank
  Clients = {c1}
  Runs <- ReapplyRuns
  PoolName <- MCPoolName
  MaxRuns = 2
  MaxMatched = 1
  MaxFailures = 0
  MaxDeletes = 0
INVARIANTS
  ReportedIsApplied
CHECK_DEADLOCK FALSE
