CONSTANTS
  a = a
  b = b
  Chars = {a, b}
  Nothing = nothing
  Break = break
  FIFO = 2
  VAPI_BUF = 3
  Uses <- AllUses
  MAX_RECV = 3
SPECIFICATION Spec
INVARIANTS QueuesSound InterruptReported RxNotForgotten
PROPERTIES TxInOrder
CHECK_DEADLOCK FALSE
