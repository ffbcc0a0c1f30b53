CONSTANTS
  q1 = q1  q2 = q2  d1 = d1  d2 = d2  c1 = c1  c2 = c2
  Requests = {q1}
  Dids = {d1, d2}
  Owner <- Owners
  Contents = {c1, c2}
  Junk = Junk
  NoContent = NoContent
  Inputs <- OneRequest
  Roots = {b1, b2}
  NoRoot = NoRoot
  Expiry <- SoonExpired
  Horizon = 2
  PerDid = 1
  Global = 1
  MaxQueue = 1
  MaxRuns = 2
  QuarantineAfter = 2
  ReadLimit = 1
  DayLength = 1
  MaxTime = 1
  MaxMail = 2
  MaxGen = 0
SPECIFICATION FairSpec
INVARIANT
  CursorMeansAnswered
