CONSTANTS
  t1 = t1
  t2 = t2
  Tabs = {t1, t2}
  Project = {t1}
  MAX_OUT = 2
  BUF = 2
  DEPTH = 2
SPECIFICATION FairSpec
INVARIANTS ConversationSound OutputShown
PROPERTY HandlersReturn
CONSTRAINT OnTrack
ACTION_CONSTRAINT NoNewClicks
CHECK_DEADLOCK FALSE
