SPECIFICATION Spec
CONSTANTS
  v1 = v1 v2 = v2 k = k o1 = o1 o2 = o2
  Vaults <- TwoVaults
  Portables <- OnePortable
  Ops <- TwoOps
  Operator = Operator
  Selections = {FALSE, TRUE}
  Nothing = Nothing
  MaxStops = 1
  MaxResumes = 1
SYMMETRY Swaps
CHECK_DEADLOCK FALSE
PROPERTIES SettingsArePreserved
