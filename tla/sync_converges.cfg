SPECIFICATION FairSpec
CONSTANTS
  t1 = t1  t2 = t2  d1 = d1  d2 = d2
  a1 = a1  a2 = a2  b1 = b1  a = a  b = b
  Tab = {t1, t2}
  Device = {d1, d2}
  DeviceOf <- OneTabEach
  Item = {a1, a2, b1}
  Id = {a, b}
  IdOf <- Ident
  Original = {b1}
  Issued = {a1}
  MaxEdits = 1
  MaxReloads = 0
  MaxFaults = 1
  QuietCommit = FALSE
  PatientPoll = TRUE
PROPERTY Converges
