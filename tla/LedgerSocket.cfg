CONSTANTS
  s1 = s1  s2 = s2
  Conns = {s1, s2}
  NoCursor = NoCursor
  NoKey = NoKey
  SocketLimit = 1
  PageSize = 1
  Capacity = 1
  MaxPk = 2
  MaxTokens = 2
  MaxCount = 3
SPECIFICATION FairSpec
INVARIANTS NothingSlips WithinSocketLimit RevokedIsTold
PROPERTIES ImplementsStream CatchesUp
CHECK_DEADLOCK FALSE
