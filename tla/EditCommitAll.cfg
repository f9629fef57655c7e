SPECIFICATION FairSpec
CONSTANTS
  Keys = {1}
  Fields = {f, g}
  Values = {a, b}
  None = None
  MaxVersion = 3
  MaxId = 2
  Env <- Everything
INVARIANT TypeOK
INVARIANT PendingIsShown
PROPERTY CommitTerminates
