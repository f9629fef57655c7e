SPECIFICATION Spec
CONSTANTS
  Cards = {1, 2}
  Held = 1
  MaxSprints = 2
  MaxDrafts = 1
  PushBatch = 1
  MaxActs = 4
  Env <- Orderly
INVARIANT TypeOK
INVARIANT DraftsAreResolved
PROPERTY CompletionMovesUnfinished
PROPERTY DeletesOnlyIdle
