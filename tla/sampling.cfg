CONSTANTS
  Groups = {a, b, c}
  Target = 2
  Window = 3
  MaxPerInterval = 3
  MaxUpdates = 4
SPECIFICATION CongressSpec
SYMMETRY Symmetry
INVARIANTS RatesAreFair WeightsAreUnbiased SilentGroupsAreForgotten
CHECK_DEADLOCK FALSE
