SPECIFICATION Spec
CONSTANTS
  MaxMIGDevicesPerSlice = 2
  None = None
  Home <- MCHome
  PoolSpecs <- MCSpecs
  Model <- MCModel
  Start <- MCStart
  Claims = {c1, c2}
  Pods = {pod}
  MaxChanges = 3
INVARIANTS
  BudgetShowsHolders
  FreeNeverOverstates
  SummaryAgreesWithRows
SYMMETRY ClaimSymmetry
