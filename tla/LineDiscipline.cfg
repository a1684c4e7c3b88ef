SPECIFICATION FairSpec
CONSTANTS
  KEY_BUFF_SIZE = 4
  MAX_HIST = 2
  TAB_SIZE = 2
  NEWLINE = 1
  Letters = {"space"}
  Sizes = {3}
  MaxAhead = 2
INVARIANTS
  TypeOK
  ReadGetsLine
  HistoryKthNewest
PROPERTIES
  ReadEnds
