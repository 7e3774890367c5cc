SPECIFICATION FairSpec
CONSTANTS
  MaxMIGDevicesPerSlice = 64
  None = None
  Pools <- OnePool
  Nodes <- MixNodes
  Models <- MCModels
  PoolSpecs <- NodeSpecs
  ModelSpecs <- MixModels
  NodeShapes <- MixShapes
  Start <- NodeStart
  Events = {"pool", "spec", "node", "slice", "resync"}
  MaxChanges = 2
  MaxFailures = 1
INVARIANTS
  SimulatedOnly
  SlicesOnSimulated
  StatusFaithful
PROPERTIES
  Convergence
  NodeWritesAreScoped
CHECK_DEADLOCK FALSE
