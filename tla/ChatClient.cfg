SPECIFICATION ChatSpec
CONSTANTS
  MSG_AREA_BOTTOM = 2
  MSG_AREA_COLS = 2
  ChunkSize = 4
  LineSize = 2
  UpSize = 1
  DownSize = 4
  Glyphs = {"x"}
  NL = "nl"
  Blank = " "
  Rows = 6
  Cols = 2
  xres = 33
  yres = 160
  xoffset = 1
  yoffset = 2
  line_length = 140
  smem_len = 22680
CHECK_DEADLOCK FALSE
INVARIANTS TypeOK OwnPixels LaidOut
PROPERTIES NeverDrawsOver ClearsOnlyWhenFull FittingReturns WriteReturns
