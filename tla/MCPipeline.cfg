CONSTANTS
  LAST = 5
  Sys = FALSE
SPECIFICATION Spec
INVARIANT TypeOK
PROPERTY ExceptionsInvisible
