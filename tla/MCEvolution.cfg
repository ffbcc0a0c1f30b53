SPECIFICATION Spec
CONSTANTS
  doc = doc  test = test  fixture = fixture  policy = policy
  original = original  byHand = byHand  docA = docA  testA = testA
  fixtureB = fixtureB  docB = docB
  candA = candA  candB = candB
  Paths <- FewPaths
  Excluded = {fixture}
  Allowed = {doc, test, fixture}
  PolicyPath = policy
  Contents = {original, byHand, docA, testA, fixtureB, docB}
  Absent = Absent  Torn = Torn  NoTree = NoTree  NewDir = NewDir
  Original <- StartTree
  Human = {original, byHand}
  Candidates = {candA, candB}
  Mutations <- TwoCandidates
  Procs = {1}
  MaxFiles = 2
  MaxRunsPerDay = 3
  QuarantineAfter = 2
  MaxEdits = 1
CHECK_DEADLOCK FALSE
INVARIANTS OnlyApproved RecoveryFirst
PROPERTIES PromotedIsEvaluated RollbackRestores
