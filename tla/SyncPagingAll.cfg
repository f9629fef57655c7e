SPECIFICATION FairSpec
CONSTANTS
  Keys = {1, 2}
  PageSize = 1
  Backdate = 1
  Skew = 1
  MaxTime = 4
  Types = {s, t}
  NoRow = NoRow
  PagingEnv <- Steady
INVARIANT PagingTypeOK
INVARIANT CacheIsCurrent
PROPERTY SyncTerminates
