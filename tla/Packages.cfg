SPECIFICATION Spec
CONSTANTS
  InBuffer = 2
  OutBuffer = 2
  UpdaterMode = TRUE
  RootCert = TRUE
  Disks <- MCDisks
  UpgradeStems = {"update_x"}
  Inside <- MCInside
  Orders <- MCOrders
  MaxCalls = 3
INVARIANTS
  StreamsHold
  LoadedIsSigned
  ExtractedIsWhole
  IntactPackagesWork
CHECK_DEADLOCK FALSE
