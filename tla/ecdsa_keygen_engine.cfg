SPECIFICATION Spec
CONSTANTS
    N = 2
    Last = 4
    Type <- Types
    Needs <- EcdsaKeygenNeeds
    Bcast <- EcdsaKeygenBcast
    OwnStored <- Types
    SelfOk = {}
    Prefix = {}
    Outcomes <- KeygenOutcomes
    Replayed = {"r1", "r2m1", "r3"}
    Misflagged = {"r1", "r2m1"}
    MaxStarts = 1
INVARIANTS TypeOK LockStep ReadsAvailable FailedStops EndMeansAccepted FinishedHasEnded WaitingForSound
PROPERTIES ImplementsLockStep
CHECK_DEADLOCK FALSE
