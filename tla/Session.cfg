SPECIFICATION FairSpec
CONSTANTS
  Components = {"browser", "windows"}
  Agents = {"service", "manual"}
  MaxBoot = 2
  MaxEdit = 2
  Down = Down
  NoSession = NoSession
INVARIANTS
  TypeOK
  RestoredOnce
  ObservesAfterRestore
PROPERTIES
  SavesTheDesktop
