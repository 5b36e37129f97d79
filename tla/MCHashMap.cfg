SPECIFICATION Spec
CONSTANTS
  Key = {1, 2, 3}
  Value = {0, 1}
  NoEntry = NoEntry
  HASHMAP_HASH_ATTEMPTS = 2
  CONTIGUOUS = 2
  INITIAL_ELEM = 2
  HASH_SPACE = 8
  MAX_ELEM = 8
  SaveHash = {TRUE, FALSE}
  HashFns <- AllHashFns
INVARIANTS TypeOK HandlesResolve ExactlyTheStoredKeys FailsOnlyWhenBlocked
PROPERTIES ImplementsIntern SetReturns
