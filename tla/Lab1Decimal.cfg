SPECIFICATION LabSpec
CONSTANTS
  RAM_WORDS = 3
  Words = 64
  Counts = 32
  Starts = {0, 1, 2, 9}
  Switches = {9}
  MinHold = 4
  Good <- MCGood
  Length <- MCLength
INVARIANT DrawsDecimal
