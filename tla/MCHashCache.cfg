SPECIFICATION Spec
CONSTANTS
  Thread = {t1, t2}
  A = A
  B = B
  C = C
  D = D
  l0 = l0
  l1 = l1
  b1 = b1
  b2 = b2
  s1 = s1
  s2 = s2
  Key = {A, B, C, D}
  Leaf = {l0, l1}
  Bucket = {b1, b2}
  Split = {s1, s2}
  Value = {0, 1, 2, 5, 6, 10}
  Sub <- MCSub
  Combine <- MCCombine
  Result <- MCResult
  BucketOf <- MCBucketOf
  SplitOf <- MCSplitOf
  HASHCACHE_WAYS = 2
  CALLS = 2
  NoEntry = NoEntry
  None = None
INVARIANTS TypeOK EntriesRight ReturnsResult
PROPERTIES ImplementsFifo CalculationEnds
CHECK_DEADLOCK FALSE
