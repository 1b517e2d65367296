SPECIFICATION CSpec
CONSTANTS
  NUM_COLUMNS = 3
  NUM_ROWS = 2
  FIRST_ROW = 1
  Char = {"a", "b"}
  SCANCODES = 4
  char_map <- MCchar_map
  MAX_WRITE = 2
  MAX_TEXT = 2
INVARIANTS
  NulShownAsC
