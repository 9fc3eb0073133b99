SPECIFICATION FairSpec
CONSTANTS
  Calls = {1, 2}
  MaxBoot = 2
INVARIANTS
  TypeOK
  TerminalIsProof
PROPERTIES
  ImplementsExecOnce
  CancelConcludes
CHECK_DEADLOCK FALSE
