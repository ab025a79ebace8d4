SPECIFICATION PressSpec
CONSTANTS
  Ticks = 4
  HOLD = 5
  REPEAT = 3
  Cnts = 8
INVARIANT Responds
INVARIANT PulsesWhenDue
PROPERTY Refines
PROPERTY NoBounce
