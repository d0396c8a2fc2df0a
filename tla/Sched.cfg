CONSTANTS
  Jobs = {j1, j2}
  Guard = guard
  CheckInt = check_int
  None = none
  HEAP_SIZE = 4
  TIME_MAX = 5
  CHECK_INT_TIME = 2
  Delays = {0, 1, 3}
  Cycles = {1, 2}
SPECIFICATION Spec
INVARIANTS DeltaEncoding EntriesConserved QueueNeverEmpties
PROPERTIES DeadlinesKept ImplementsAbs
CHECK_DEADLOCK FALSE
