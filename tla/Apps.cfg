SPECIFICATION FairSpec
CONSTANTS
  Setups = {"script"}
  Versions = {"v1", "v2"}
  Calls = {1}
  Limit = 2
INVARIANTS
  TypeOK
  SetupOnce
  ActivationIsKnown
PROPERTIES
  WaitersEnd
