CONSTANTS
  q1 = q1  q2 = q2  d1 = d1  d2 = d2  c1 = c1  c2 = c2
  Requests = {q1, q2}
  Dids = {d1, d2}
  Owner <- Owners
  Contents = {c1}
  Junk = Junk
  NoContent = NoContent
  Inputs <- TwoRequests
  Roots = {b1, b2}
  NoRoot = NoRoot
  Expiry <- SoonExpired
  Horizon = 2
  PerDid = 1
  Global = 1
  MaxQueue = 1
  MaxRuns = 1
  QuarantineAfter = 0
  ReadLimit = 2
  DayLength = 1
  MaxTime = 1
  MaxMail = 2
  MaxGen = 1
SPECIFICATION Spec
INVARIANTS
  TypeOK
  ResultBacked
  CompleteDelivered
  QuotaExact
  OneJobAtATime
  CursorMeansAnswered
PROPERTIES
  CompletedNeverRerun
