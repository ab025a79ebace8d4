SPECIFICATION Spec
CONSTANTS
  Words = 536870912
  Numbers <- BoardNumbers
  Edges = 500
CHECK_DEADLOCK FALSE
INVARIANT PrintsSequence
PROPERTY Ends
