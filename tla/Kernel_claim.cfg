SPECIFICATION Spec
CONSTANTS
  NUM_TERM = 2
  MAX_NUM_PROC = 3
  Commands = {"good"}
  Exceptions = {}
  Timing = {"claim"}
INVARIANT NoDoubleOwner
