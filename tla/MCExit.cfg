SPECIFICATION Spec
CONSTANTS
  NUM_THREADS = 2
  MEM_NUM_ALLOCS = 2
  Addr = {a1, a2, a3}
  Size = {1, 2}
  CALLS = 2
  Free = Free
  Destroyed = Destroyed
  NULL = NULL
INVARIANTS ExitsOnce NoPartialResult StatusIsRight AccountsMatch
PROPERTIES ProgramEnds NoFalseAlarm
CHECK_DEADLOCK FALSE
