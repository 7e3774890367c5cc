SPECIFICATION ToolSpec
CONSTANTS
  MaxMIGDevicesPerSlice = 64
  None = None
  Malformed = Malformed
  Blank = Blank
  Pool <- MCPool
  Node <- MCNode
  Declarations <- MCDeclarations
  Words <- MCWords
  TextRank <- MCTextRank
  Flags <- MCFlags
  Publications <- MCPublications
  ForeignNodes <- MCForeignNodes
  FleetFlags = {0, 2, 5}
  MaxNodes = 2
INVARIANTS
  AvailabilityAgrees
  CardTaintIsUniform
  MIGSlicesWithinLimits
  EveryInstanceOnce
  PartitionCoexists
  DynamicCountsAreMaximal
  EntryOrderIsInvisible
  InstanceIDsUnique
  AcceptedIsAdmitted
  NothingLost
  RoundTrips
  ListOrderInvisible
CHECK_DEADLOCK FALSE
