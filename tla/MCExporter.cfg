SPECIFICATION FairSpec
CONSTANTS
  MaxMIGDevicesPerSlice = 64
  None = None
  Pool <- MCPool
  Node <- MCNode
  Declarations <- MCDeclarations
  Model <- MCModel
  NodeLabelMap <- Anywhere
  Pods <- MCPods
  Claims <- MCClaims
  StartDeclaration <- MCStart
  MaxChanges = 3
INVARIANTS
  SamplesDistinct
  AttributionExact
  FaultedDoNoWork
  CardMatchesInstances
PROPERTIES
  MetricsCatchUp
