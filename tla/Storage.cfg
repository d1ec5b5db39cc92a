SPECIFICATION MCSpec
CONSTANTS
  u1 = u1
  u2 = u2
  c1 = c1
  c2 = c2
  p1 = p1
  Size <- MCSize
  Limit <- MCLimit
  Corrupt <- MCCorrupt
  Uploaders = {u1, u2}
  Clients = {c1, c2}
  Openers = {p1, p2}
  MaxStaged = 1
  MaxLog = 3
  MaxLive = 2
  MaxPins = 3
  MaxPull = 2
  MaxWrites = 1
  MaxFaults = 2
INVARIANTS ReferencedReadable StoreReopens TransferIsExact UpgradedWhole
PROPERTIES InstalledOnlyGrows UpgradeFinishes
CHECK_DEADLOCK FALSE
