SPECIFICATION Spec
CONSTANTS
  Keys = {"a", "b", "caps"}
  Repeatable = {"a", "b"}
  Rollover = "rollover"
  Mods = {"plain", "shift"}
  Slots = 2
  MaxHeld = 3
  DELAY = 2
  INTERVAL = 1
INVARIANT HandledOnce
PROPERTY RepeatsInTime
PROPERTY ReleaseEnds
PROPERTY HeldRepeats
