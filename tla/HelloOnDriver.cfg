SPECIFICATION UseSpec
CONSTANTS
  Procs = {p, q}
  hello = p
  Colours <- MCColours
  Positions <- MCPositions
  Left <- MCLeft
  MaxFails = 2
INVARIANTS NothingLeft UsesMapped ShownWhole CopiesAgree Follows Bounces
PROPERTIES ImplementsHello MovesSmoothly
