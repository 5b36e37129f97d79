SPECIFICATION Spec
CONSTANTS
  BITARRAY_I_VALUE_BITS = 4
  Gadgets <- AllShapes
  Infos <- MCInfos
  SAMPLES = 4
INVARIANTS EveryRowHashed SubrowsFirst ClassesAgree LookupsHit CoeffsBoundTheLeakage
PROPERTIES CalculationEnds
CHECK_DEADLOCK FALSE
