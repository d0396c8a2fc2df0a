CONSTANTS
  Lines = {"l2", "l3"}
  NmiLines = {"l3"}
  EdgeTriggers = {TRUE, FALSE}
  TPMOD = 4
  REGMOD = 8
  Delays = {1, 2}
  Cycles <- TwoCycles
  CHECK_INT_TIME = 2
  PMEnabled = {0}
  TtmrValues <- NoValues
  TtcrValues <- NoValues
  ExtInts <- AllExt
  Pmrs <- DozeValues
SPECIFICATION Spec
INVARIANTS PreciseDelivery
