CONSTANTS
  Lines = {"l2", "l3"}
  NmiLines = {}
  EdgeTriggers = {TRUE}
  TPMOD = 4
  REGMOD = 8
  Delays = {1, 2}
  Cycles <- TwoCycles
  CHECK_INT_TIME = 3
  PMEnabled = {0}
  TtmrValues <- NoValues
  TtcrValues <- NoValues
  ExtInts <- NoExt
  Pmrs <- NoValues
SPECIFICATION Spec
PROPERTIES IntOnlyWhenEnabled
