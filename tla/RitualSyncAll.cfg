SPECIFICATION Spec
CONSTANTS
  template = template
  typed = typed
  blank = blank
  normal = normal
  Docs = {1}
  Agreement = 0
  Overview = 1
  Texts <- Bodies
  Written <- ThreeTexts
  Template = template
  Blank = blank
  Stored <- NormalForm
  None = None
  MaxActs = 4
  Env <- Faults
INVARIANT TypeOK
INVARIANT BaseWasThere
INVARIANT SyncedIsThere
PROPERTY PullTakesNothing
PROPERTY NothingOverwrittenUnseen
PROPERTY SaveReplacesWhatWasShown
PROPERTY PassAdvances
