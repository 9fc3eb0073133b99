SPECIFICATION FairSpec
CONSTANTS
  Commands <- MigrationCommands
  Unfit <- UnfitReturn
  Faults = {"torn"}
  None = None
INVARIANTS
  ReleaseEvidence
  DestroyedStaysGone
  FenceFollowsIncarnation
  IdentityReconciled
PROPERTIES
  LaunchIsWanted
  
