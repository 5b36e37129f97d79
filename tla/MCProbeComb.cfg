SPECIFICATION Spec
CONSTANTS
  Gadgets <- SmallShapes
  All = All
INVARIANTS CountIsSum CoeffsCountTheSets EachRowComesAsOften
PROPERTIES LoopEnds VisitsInOrder
CHECK_DEADLOCK FALSE
