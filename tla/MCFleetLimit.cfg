SPECIFICATION ToolSpec
CONSTANTS
  MaxMIGDevicesPerSlice = 64
  None = None
  Malformed = Malformed
  Blank = Blank
  Pool <- MCPool
  Node <- MCNode
  Declarations <- LargeTaintedDeclarations
  Words <- MCWords
  TextRank <- MCTextRank
  Flags = {}
  Publications = {}
  ForeignNodes = {}
  FleetFlags = {}
  MaxNodes = 0
INVARIANT SliceWithinDeviceLimit
CHECK_DEADLOCK FALSE
