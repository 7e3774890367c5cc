SPECIFICATION FairSpec
CONSTANTS
  MaxMIGDevicesPerSlice = 64
  None = None
  Malformed = Malformed
  Blank = Blank
  Clients = {c1, c2}
  Runs <- MCRuns
  PoolName <- MCPoolName
  MaxRuns = 2
  MaxMatched = 1
  MaxFailures = 1
  MaxDeletes = 1
INVARIANTS
  RerunTakesEffect
  ReportIsOfItsSpec
PROPERTIES
  UpEnds
CHECK_DEADLOCK FALSE
