SPECIFICATION Spec
CONSTANTS
  Last = 2
  Faults = {"linger"}
INVARIANTS
  PublishedIsWhole
CHECK_DEADLOCK FALSE
