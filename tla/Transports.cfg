SPECIFICATION Spec
CONSTANTS
  Desktops = {"desktop"}
  Shells = {"shell"}
  Sockets = {"session"}
  MaxGen = 3
  MaxLaunch = 2
  MaxBoot = 2
INVARIANTS
  TypeOK
  RevokedIsClosed
PROPERTIES
  ReachesItsBoot
