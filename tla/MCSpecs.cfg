SPECIFICATION Spec
CONSTANTS
  MaxMIGDevicesPerSlice = 64
  None = None
  Pools <- OnePool
  Nodes <- MixNodes
  Models <- MCModels
  PoolSpecs <- SpecSpecs
  ModelSpecs <- MixModels
  NodeShapes <- MixShapes
  Start <- SpecStart
  Events = {"pool", "spec", "model"}
  MaxChanges = 2
  MaxFailures = 0
INVARIANTS
  TypeOK
  PublishedIsDeclared
  StatusFaithful
PROPERTIES
  KeepsContract
CHECK_DEADLOCK FALSE
