SPECIFICATION Spec
CONSTANTS
  Keys = {1, 2, 3}
  Columns = {1, 2}
  Start <- OneOrder
  Drawn <- SomeColumns
  None = None
  MaxDrops = 2
  MaxOutside = 1
  Env <- Settling
INVARIANT TypeOK
INVARIANT SettledAsDrawn
INVARIANT NoRankLost
