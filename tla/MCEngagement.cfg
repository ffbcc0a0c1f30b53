SPECIFICATION MCSpec
CONSTANTS
  lobby = lobby  meta = meta  p = p  q = q
  Rooms <- TwoRooms
  Authors = {p, q}  Noise = noise  ReadLimit = 1  Day = 3  AuthorGap = 1
  Cooldown = 1  MaxReplies = 1  SlotLength = 2  Campaign = 3  MinInterval = 2
  MaxPosts = 1  MaxTime = 3  MaxRecords = 2  MaxFaults = 1  MaxPolicies = 2
INVARIANTS PostsBounded RepliesBounded
PROPERTIES NoStaleReply 
CHECK_DEADLOCK FALSE
