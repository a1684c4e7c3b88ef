SPECIFICATION Spec
CONSTANTS
  NUM_TERM = 2
  MAX_NUM_PROC = 3
  Commands = {"good", "bad", "null", "wild", "corrupt"}
  Exceptions = {"child", "base", "spin"}
  Timing = {"inflight"}
INVARIANTS
  
  
  
  ShellFitsUnlessHeld
  
CHECK_DEADLOCK FALSE
