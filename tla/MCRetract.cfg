SPECIFICATION FairSpec
CONSTANTS
  MaxMIGDevicesPerSlice = 64
  None = None
  Pools <- OnePool
  Nodes <- OneNode
  Models <- MCModels
  PoolSpecs <- ConvergeSpecs
  ModelSpecs <- MixModels
  NodeShapes <- OneShapes
  Start <- ConvergeStart
  Events = {"pool"}
  MaxChanges = 1
  MaxFailures = 0
PROPERTIES
  ResourcesRetracted
CHECK_DEADLOCK FALSE
