CONSTANTS
  a = a
  b = b
  Chars = {a, b}
  Nothing = nothing
  Break = break
  FIFO = 2
  VAPI_BUF = 3
  Uses <- OneUse
  MAX_RECV = 3
SPECIFICATION Spec
INVARIANTS HighestPriority
CHECK_DEADLOCK FALSE
