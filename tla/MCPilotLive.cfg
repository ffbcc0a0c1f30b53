CONSTANTS
  q1 = q1  q2 = q2  d1 = d1  d2 = d2  c1 = c1  c2 = c2
  Requests = {q1}
  Dids = {d1, d2}
  Owner <- Owners
  Contents = {c1, c2}
  Junk = Junk
  NoContent = NoContent
  Inputs <- OneRequest
  Roots = {b1}
  NoRoot = NoRoot
  Expiry <- ExpiredNext
  Horizon = 2
  PerDid = 1
  Global = 1
  MaxQueue = 1
  MaxRuns = 1
  QuarantineAfter = 1
  ReadLimit = 2
  DayLength = 2
  MaxTime = 1
  MaxMail = 2
  MaxGen = 0
SPECIFICATION FairSpec
PROPERTIES
  MailboxDrains
