SPECIFICATION SpecRecords
CONSTANTS
  boot = boot
  system = system
  vendor = vendor
  base = base
  cust = cust
  next = next
  Parts = {boot, system, vendor}
  BlockParts = {boot, system, vendor}
  Packages = {base, cust, next}
  PartsOf <- MCPartsOf
  Updates <- MCUpdatesApart
  MaxRecords = 2
  MaxRetry = 2
  MaxUpdates = 2
  None = None
  Torn = Torn
  Factory = Factory
INVARIANT SkipIsSound
