CONSTANTS
  MSG_AREA_BOTTOM = 2
  MSG_AREA_COLS = 2
  ChunkSize = 5
  Glyphs = {x}
  NL = NL
  Blank = Blank
SPECIFICATION Spec
CHECK_DEADLOCK FALSE
PROPERTY EveryReturns
