SPECIFICATION Spec
CONSTANTS
  MaxDraft = 3
  MaxIssue = 3
  MaxId = 3
  Together <- Apart
  Seed <- OneIssue
  Env <- Disturbances
INVARIANT TypeOK
INVARIANT MeantIsSent
INVARIANT NoDanglingReference
INVARIANT CreatedAtMostOnce
PROPERTY NoDraftLost
PROPERTY CommitLeavesOnlyWhatFailed
