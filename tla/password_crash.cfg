SPECIFICATION FairSpec
CONSTANTS
  t1 = t1  t2 = t2  t3 = t3  d1 = d1  d2 = d2
  Tab = {t1}
  Device = {d1}
  DeviceOf <- OneTab
  MaxChanges = 1
  MaxUploads = 0
  MaxFaults = 1
  WholeSave = FALSE
PROPERTY StaleSessionEnds
