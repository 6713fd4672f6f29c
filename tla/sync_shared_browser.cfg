SPECIFICATION Spec
CONSTANTS
  t1 = t1  t2 = t2  d1 = d1  d2 = d2
  a1 = a1  a2 = a2  b1 = b1  a = a  b = b
  Tab = {t1, t2}
  Device = {d1}
  DeviceOf <- SameDevice
  Item = {a1, a2, b1}
  Id = {a, b}
  IdOf <- Ident
  Original = {}
  Issued = {}
  MaxEdits = 2
  MaxReloads = 1
  MaxFaults = 0
  QuietCommit = TRUE
  PatientPoll = FALSE
PROPERTY NothingLostFromServer
