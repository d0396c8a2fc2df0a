CONSTANTS
  Lines = {}
  NmiLines = {}
  EdgeTriggers = {FALSE}
  TPMOD = 4
  REGMOD = 8
  Delays = {1}
  Cycles <- TwoCycles
  CHECK_INT_TIME = 2
  PMEnabled = {0}
  TtmrValues <- MCTtmrs
  TtcrValues = {6}
  ExtInts <- NoExt
  Pmrs <- NoValues
SPECIFICATION FairSpec
INVARIANTS TypeOK TickScheduled
PROPERTIES TickTaken SchedulerReturns
