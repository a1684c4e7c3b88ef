SPECIFICATION Spec
CONSTANTS
  NUM_TERM = 3
  MAX_NUM_PROC = 3
  Commands = {"good"}
  Exceptions = {}
  Timing = {"foreign"}
INVARIANT SuspendedHeadsSaved
