SPECIFICATION Spec
CONSTANTS
  MaxMIGDevicesPerSlice = 64
  None = None
  Pools <- ClashPools
  Nodes <- ClashNodes
  Models <- MCModels
  PoolSpecs <- ClashSpecs
  ModelSpecs <- MixModels
  NodeShapes <- ClashShapes
  Start <- ClashStart
  Events = {"pool", "resync"}
  MaxChanges = 2
  MaxFailures = 0
PROPERTIES
  ForeignSlicesUntouched
CHECK_DEADLOCK FALSE
