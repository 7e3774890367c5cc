SPECIFICATION Spec
CONSTANTS
  MaxMIGDevicesPerSlice = 64
  None = None
  Pool <- MCPool
  Node <- MCNode
  Declarations <- FaultDeclarations
  Model <- MCModel
  NodeLabelMap <- Anywhere
  Pods <- MCPods
  Claims <- MCClaims
  StartDeclaration <- MCStart
  MaxChanges = 1
INVARIANTS
  FaultReported
