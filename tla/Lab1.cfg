SPECIFICATION LabFairSpec
CONSTANTS
  RAM_WORDS = 3
  Words = 64
  Counts = 32
  Starts = {0, 1, 2, 4, 10}
  Switches = {2, 4}
  MinHold = 4
  Good <- MCGood
  Length <- MCLength
INVARIANT MemoryFilled
PROPERTY StoresLength
INVARIANT IndexTracks
PROPERTY ShowsLength
PROPERTY LoadsSwitches
PROPERTY ResultsComeUp
