SPECIFICATION PipelinesSpec
CONSTANTS
  r1 = r1  r2 = r2  l1 = l1  l2 = l2  s1 = s1  s2 = s2  t1 = t1  t2 = t2
  u1 = u1  m1 = m1  m2 = m2  c1 = c1  c2 = c2
  PipelineEditor = {r1, r2}
  SlotObject = {s1, s2}
  LoadTask = {l1, l2}
  PipelineOptions <- ThreeVersions
  StoredVersion = 1
  MaxDisturbances = 1
  MaxRefreshFaults = 1
  RemoteTicket = {t1}
  LocalTicket = {t2}
  Scan = {r1, r2}
  MaxScans = 2
  MaxReplacements = 1
  MaxOutside = 1
  MaxCheckInFaults = 1
  GroupUser = {u1}
  GroupEmail = {m1, m2}
  Commitment = {c1, c2}
  EmailsOf <- TwoAddresses
  FirstIdentity <- OneIdentity
  GroupPoll = {r1, r2}
  PollOf <- OneUser
  MaxGroupEvents = 1
  ProofRequest = {r1, r2, l1, l2}
  Provable = {r1, r2, l1}
INVARIANTS
  PipelinesTypeOK
  LoopRepairs
  PendingIsFounded
  ProofsTakeTurns
PROPERTIES
  LoadKeepsNews
  PendingSettles
  ExecutorSettles
  ProviderCatchesUp
  ProofsEnd
CHECK_DEADLOCK FALSE
