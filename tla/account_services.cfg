SPECIFICATION ServicesSpec
CONSTANTS
  u1 = u1  g1 = g1  g2 = g2  q1 = q1  q2 = q2
  a1 = a1  a2 = a2  m1 = m1  m2 = m2  m3 = m3  i1 = i1  i2 = i2
  d1 = d1  d2 = d2  e1 = e1  e2 = e2  e3 = e3
  FrogUser = {u1}
  FrogFeed = {g1, g2}
  FrogRequest = {q1, q2}
  FrogSecond = 2
  FrogCooldown <- FrogCooldowns
  ActiveUntil <- FrogEnds
  FrogLatency = 1
  FrogScoreCap = 3
  FrogFreeRolls = 1
  FrogStart = 5
  FrogMaxClock = 9
  RateRequest = {q1, q2}
  MaxActions = 2
  TimePerAction = 2
  RateLatency = 1
  MaxLostAnswers = 1
  RateMaxClock = 7
  Uuid = {a1, a2}
  Email = {m1, m2, m3}
  Identity = {i1, i2}
  Handler = {q1, q2}
  MaxEmails = 3
  DeleteMissing = TRUE
  Legacy <- LegacyAccounts
  MaxTokens = 2
  MaxRequests = 3
  PoapEvent = {g1, g2}
  PoapLink = {e1, e2, e3}
  PoapTicket = {d1, d2}
  PoapRequest = {q1, q2, i1}
  EventOfLink <- LinkEvents
  EventOfTicket <- TicketEvents
  MaxPoapFaults = 2
INVARIANTS
  ServicesTypeOK
  FrogsAreApart
  FrogsAreRationed
  RateIsBounded
  KeysBelongTogether
  EmailListBounds
  EmailsAreConfirmed
  ClaimsDoNotCollide
PROPERTIES
  WaitersAreServed
  RedirectsAreFinal
CHECK_DEADLOCK FALSE
