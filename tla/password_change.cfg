SPECIFICATION FairSpec
CONSTANTS
  t1 = t1  t2 = t2  t3 = t3  d1 = d1  d2 = d2
  Tab = {t1, t2, t3}
  Device = {d1, d2}
  DeviceOf <- TwoBrowsers
  MaxChanges = 1
  MaxUploads = 1
  MaxFaults = 1
  WholeSave = TRUE
INVARIANTS TypeOK AccountOpens NoPhantomKey
PROPERTY StaleSessionEnds
