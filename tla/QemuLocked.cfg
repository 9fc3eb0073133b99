SPECIFICATION FairSpec
CONSTANTS
  Instances = {q1, q2, q3}
  Threads = {"holder"}
  Linux = TRUE
INVARIANTS
  TypeOK
  StoppedIsProof
  DiskIsExclusive
  OneQemu
PROPERTIES
  MarkerClearedOnExit
  ExitIsNoticed
