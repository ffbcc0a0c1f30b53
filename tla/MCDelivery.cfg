CONSTANTS
  k1 = k1  k2 = k2  a1 = a1  r1 = r1  t1 = t1  t2 = t2
  Senders = {s1, s2}
  Keys = {k1, k2}
  Actors = {a1}
  Rooms = {r1}
  Texts = {t1, t2}
  Calls <- MCCalls
  NoCall = NoCall
  NoRow = NoRow
  ReplayStatus = 409
  ViaEgress = FALSE
  Gates <- KillSwitch
  ReadLimit = 1
  MaxNonce = 3
  MaxSeq = 2
  MaxGen = 0
  MaxFlight = 1
SPECIFICATION Spec
INVARIANTS
  TypeOK
  PersistedFirst
  OneCopyPerDelivery
  ReturnedDelivered
PROPERTIES
  ImplementsOutbox
