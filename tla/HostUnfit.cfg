SPECIFICATION FairSpec
CONSTANTS
  Commands <- UnfitCommands
  Unfit <- UnfitCreate
  Faults = {}
  None = None
PROPERTIES
  RefusalsMakeWay
