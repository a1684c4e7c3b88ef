SPECIFICATION FairSpec
CONSTANTS
  NUM_TERM = 2
  Frequencies = {3, 1024}
  MaxNest = 2
INVARIANTS
  TypeOK
  OneReadPerTick
  RateIsFrequency
  ServedByRunningHandler
  ProgramsInterruptible
PROPERTIES
  ReadsEnd
  RequestsServed
  ImplementsRtc
