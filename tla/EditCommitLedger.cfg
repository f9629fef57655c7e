SPECIFICATION Spec
CONSTANTS
  Keys = {1}
  Fields = {f, g}
  Values = {a, b, c}
  None = None
  MaxVersion = 3
  MaxId = 3
  Env <- NoOverride
SYMMETRY Symmetry
INVARIANT NoIntentLost
INVARIANT OldestBaseIsLowest
PROPERTY ImplementsLedger
