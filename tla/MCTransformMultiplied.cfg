SPECIFICATION Spec
CONSTANTS
  NumMaskedIns = 1
  NumRnds = 2
  NUMBER_I_VALUE_BITS = 8
  Ops = {"AND"}
  MAX_OPS = 2
  MAX_ROWS = 1
  RandomsOnlyAdded = FALSE
INVARIANTS TransformIsWalsh
CHECK_DEADLOCK FALSE
