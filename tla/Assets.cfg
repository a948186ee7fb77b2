SPECIFICATION FairSpec
CONSTANTS
  Device = {d1, d2}
  Slot = {1, 2}
  Host = {h1, h2, h3}
  MaxChanges = 2
  MaxFaults = 1
INVARIANT AssetInv
PROPERTY ReportsPersist
