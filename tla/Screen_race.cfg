SPECIFICATION Spec
CONSTANTS
  NUM_TERM = 3
  NUM_COLS = 2
  NUM_ROWS = 2
  BYTE = 2
  KeyLimit = 2
  PromptLen = 1
  Glyphs = {"a"}
  MaxPuts = 4
  Timing = {"echo"}
INVARIANT
  CursorOnScreen
