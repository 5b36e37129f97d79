SPECIFICATION Spec
CONSTANTS
  NumMaskedIns = 2
  NumRnds = 2
  NUMBER_I_VALUE_BITS = 8
  Ops = {"NIMPLY", "XOR"}
  MAX_OPS = 2
  MAX_ROWS = 1
  RandomsOnlyAdded = TRUE
INVARIANTS TransformIsWalsh VrapsIsIndependence
CHECK_DEADLOCK FALSE
