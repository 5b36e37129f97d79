SPECIFICATION Spec
CONSTANTS
  Headers <- MCHeaders
  Names <- MCNames
  Assigned <- MCAssigned
  MaxAssignments <- MCMaxAssignments
  MAX_NUM_TOT_INS = 5
INVARIANTS SecondPassFits CircuitIsProgram CopiesAreProbes
CHECK_DEADLOCK FALSE
