SPECIFICATION Spec
CONSTANTS
    initial = initial
    mine = mine
    theirs = theirs
    blank = blank
    erased = erased
    None = None
    Fields <- OneField
    Initial <- initial
    Mine <- OneMine
    Theirs <- OneTheirs
    Blank <- blank
    Deleted <- erased
    StartSteps = 2
    MaxActs = 2
    MaxSteps = 4
    MaxVersion = 4
    Env <- JustOutside
CHECK_DEADLOCK FALSE
PROPERTY MoveKeepsContent
