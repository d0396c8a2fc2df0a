CONSTANTS
  Jobs = {j1, j2}
  NextJobs = {j1}
  Guard = guard
  CheckInt = check_int
  None = none
  HEAP_SIZE = 4
  TIME_MAX = 5
  CHECK_INT_TIME = 3
  Delays = {0, 1}
  Cycles = {1, 2}
SPECIFICATION NSpec
INVARIANT RunsAfterNextInsn
CHECK_DEADLOCK FALSE
