SPECIFICATION FairSpec
CONSTANTS
  old = old  patched = patched  new = new  pinned = pinned  next = next
  Documents = {old, patched, new}
  Release <- ReleaseOf
  Expected = pinned
  First = old
  NoDigest = NoDigest
  Threshold = 2
  MaxDeploys = 3
  MaxFaults = 2
INVARIANTS OneRelease StoredFirst
PROPERTY SettledObserved
CHECK_DEADLOCK FALSE
