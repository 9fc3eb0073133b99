SPECIFICATION Spec
CONSTANTS
  Last = 2
  Faults = {}
INVARIANTS
  PublishedIsWhole
  SettledIsReleased
CHECK_DEADLOCK FALSE
