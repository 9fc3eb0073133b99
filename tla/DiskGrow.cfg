SPECIFICATION FairSpec
CONSTANTS
  Operations <- GrowOperations
  Contents = {x, y}
  FirstSize = 1
  Operator = FALSE
  None = None
INVARIANTS
  TypeOK
  SizesAgree
  SnapshotsIntact
  StagesDiscarded
PROPERTIES
  ImplementsAtomicDisk
  Settles
