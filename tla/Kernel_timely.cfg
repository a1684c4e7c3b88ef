SPECIFICATION FairSpec
CONSTANTS
  NUM_TERM = 3
  MAX_NUM_PROC = 3
  Commands = {"good", "bad"}
  Exceptions = {"child"}
  Timing = {}
INVARIANTS
  TypeOK
  RunningIsHead
  SuspendedHeadsSaved
  ReturnPathIntact
  CountsAgree
  ExceptionReturns256
PROPERTIES
  ImplementsStacks
  EveryTerminalScheduled
  KernelCallsEnd
