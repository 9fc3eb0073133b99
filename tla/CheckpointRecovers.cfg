SPECIFICATION FairSpec
CONSTANTS
  Last = 1
  Faults = {"misread", "reboot"}
INVARIANTS
  FrozenIsOwed
PROPERTIES
  Recovers
CHECK_DEADLOCK FALSE
