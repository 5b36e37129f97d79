SPECIFICATION PassesSpec
CONSTANTS
  BITARRAY_I_VALUE_BITS = 4
  Gadgets <- PartlyUsed
  Infos <- SameInfo
INVARIANTS IncReturnsIfItOverflows
CHECK_DEADLOCK FALSE
