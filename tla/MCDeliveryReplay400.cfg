CONSTANTS
  k1 = k1  k2 = k2  a1 = a1  r1 = r1  t1 = t1  t2 = t2
  Senders = {s1}
  Keys = {k1, k2}
  Actors = {a1}
  Rooms = {r1}
  Texts = {t1, t2}
  Calls <- StableCalls
  NoCall = NoCall
  NoRow = NoRow
  ReplayStatus = 400
  ViaEgress = TRUE
  Gates <- KillSwitch
  ReadLimit = 2
  MaxNonce = 2
  MaxSeq = 2
  MaxGen = 0
  MaxFlight = 1
SPECIFICATION FairSpec
PROPERTIES
  LandedIsConfirmed
