SPECIFICATION MCSpec
CONSTANTS
  d = d  e = e
  Anchor = 1  Liveness = 3  SingleLife = 3  IdleLife = 5  Day = 5
  OffersPerDay = 1  ReadLimit = 1
  Queries <- FourQueries
  Start = 31  MaxTime = 5  LastTicks = 2  MaxCards = 2  MaxFaults = 2
  MaxBoard = 2  MaxBoardGen = 1
INVARIANTS StaysDiscoverable CursorMeansHandled
PROPERTIES TwoPerPeriod AnnouncedAgain DiscoveryDrains
CHECK_DEADLOCK FALSE
