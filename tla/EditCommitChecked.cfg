SPECIFICATION Spec
CONSTANTS
  Keys = {1}
  Fields = {f, g}
  Values = {a, b, c}
  None = None
  MaxVersion = 4
  MaxId = 3
  Env <- CheckedPush
SYMMETRY Symmetry
PROPERTY NoBlindOverwrite
