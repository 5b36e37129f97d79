SPECIFICATION Spec
CONSTANTS
  NumThreads = {3}
  NUM_ROWS = 4
  VALS_SIZE = 4
  Transform <- Transforms
  Info <- Infos
  Mask <- MaskX2
  GetInfo <- InfoOf
  NoInfo = NoInfo
  None = None
INVARIANTS NoRowIsMissing
