SPECIFICATION Spec
CONSTANTS
    N = 2
    Last = 4
    Type <- Types
    Needs <- EddsaSigningNeeds
    Bcast <- Types
    OwnStored <- Types
    SelfOk = {}
    Prefix = {}
    Outcomes <- EddsaSigningOuts
    Replayed = {}
    Misflagged = {}
    MaxStarts = 1
INVARIANTS FinishedHasEnded
CHECK_DEADLOCK FALSE
