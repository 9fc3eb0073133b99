SPECIFICATION Spec
CONSTANTS
  Commands <- FenceCommands
  Unfit = {}
  Faults = {"late"}
  None = None
INVARIANTS
  TypeOK
  FenceHolds
PROPERTIES
  ImplementsJournal
CHECK_DEADLOCK FALSE
