SPECIFICATION Spec
CONSTANTS
  NumThreads = {0, 2}
  NUM_ROWS = 4
  VALS_SIZE = 4
  Transform <- Transforms
  Info <- Infos
  Mask <- MaskX2
  GetInfo <- InfoOf
  NoInfo = NoInfo
  None = None
INVARIANTS EveryRowHasItsInfo SameHandleSameValue
PROPERTIES NoLateAdd BuildEnds
