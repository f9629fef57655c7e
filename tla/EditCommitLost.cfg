SPECIFICATION Spec
CONSTANTS
  Keys = {1}
  Fields = {f}
  Values = {a, b, c}
  None = None
  MaxVersion = 3
  MaxId = 2
  Env <- OnlyOverlap
SYMMETRY Symmetry
INVARIANT NoIntentLost
