SPECIFICATION Spec
CONSTANTS
  KEY_BUFF_SIZE = 3
  MAX_HIST = 2
  TAB_SIZE = 2
  NEWLINE = 1
  Letters = {"space"}
  Sizes = {4}
  MaxAhead = 1
PROPERTIES
  EnterFits
