SPECIFICATION KeyboardSpec
CONSTANTS
  INPUT_BUFFER_SIZE = 5
  MSG_AREA_COLS = 4
  Char = {"a", "A", " "}
  NUL = "0"
  Space = " "
  Bar = "|"
  Letters = {"A"}
  Others = {"sp"}
  Unshifted <- MCUnshifted
  Shifted <- MCShifted
CHECK_DEADLOCK FALSE
INVARIANT Terminated
INVARIANT RowShowsLine
PROPERTY EditsText
PROPERTY ClearsWhatWasSent
