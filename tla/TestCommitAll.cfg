SPECIFICATION Spec
CONSTANTS
    initial = initial
    mine = mine
    theirs = theirs
    blank = blank
    erased = erased
    None = None
    Fields <- TwoFields
    Initial <- initial
    Mine <- MineOrOld
    Theirs <- OneTheirs
    Blank <- blank
    Deleted <- erased
    StartSteps = 2
    MaxActs = 3
    MaxSteps = 4
    MaxVersion = 4
    Env <- All
CHECK_DEADLOCK FALSE
INVARIANT TypeOK
INVARIANT NoBlindOverwrite
INVARIANT ClearedIsThere
INVARIANT CalmCommitSendsAll
INVARIANT PendingIsShown
