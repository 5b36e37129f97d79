SPECIFICATION Spec
CONSTANTS
  NumMaskedIns = 2
  NumRnds = 1
  NUMBER_I_VALUE_BITS = 3
  Ops = {"OR", "IMPLY", "XOR", "AND", "NOR", "NIMPLY", "XNOR", "NAND", "NOT"}
  MAX_OPS = 2
  MAX_ROWS = 1
  RandomsOnlyAdded = TRUE
INVARIANTS FlattenIsTheFunction OnePointerPerFunction TransformIsWalsh
CHECK_DEADLOCK FALSE
