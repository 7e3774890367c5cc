SPECIFICATION ResyncSpec
CONSTANTS
  MaxMIGDevicesPerSlice = 64
  None = None
  Pools <- OnePool
  Nodes <- OneNode
  Models <- MCModels
  PoolSpecs <- ConvergeSpecs
  ModelSpecs <- MixModels
  NodeShapes <- OneShapes
  Start <- ConvergeStart
  Events = {"pool", "spec", "node", "slice", "model", "resync"}
  MaxChanges = 1
  MaxFailures = 1
PROPERTIES
  Convergence
CHECK_DEADLOCK FALSE
