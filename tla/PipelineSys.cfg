CONSTANTS
  LAST = 5
  Sys = TRUE
SPECIFICATION Spec
PROPERTY SysReturnsToNext
