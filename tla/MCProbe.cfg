CONSTANTS
  a1 = a1  a2 = a2
  Adapters = {a1, a2}
  NoCell = NoCell
  ProbeCell <- TwoAdapters
  PerDid = 1
  MaxPreviews = 2
  MaxCards = 2
  MaxFaults = 1
SPECIFICATION FairSpec
INVARIANTS
  TypeOK
  VerdictRight
  VerifiedSound
  PostedApproved
  RepliesTrue
PROPERTIES
  ProbeCompletes
CHECK_DEADLOCK FALSE
