SPECIFICATION FairRecords
CONSTANTS
  boot = boot
  system = system
  vendor = vendor
  base = base
  cust = cust
  next = next
  Parts = {boot, system, vendor}
  BlockParts = {system, vendor}
  Packages = {base, cust, next}
  PartsOf <- MCPartsOf
  Updates <- MCUpdates
  MaxRecords = 2
  MaxRetry = 2
  MaxUpdates = 2
  None = None
  Torn = Torn
  Factory = Factory
INVARIANTS
  IInv
  SkipIsTrue
  PassIsTrue
  UninterruptedInstalls
  FaultRetryBound
PROPERTIES
  WritesOnlyNextPackage
  Settles
