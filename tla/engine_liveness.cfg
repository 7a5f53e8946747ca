SPECIFICATION FairSpec
CONSTANTS
    N = 3
    Last = 3
    Type <- Types
    Needs <- SigningHeadNeeds
    Bcast <- SigningHeadBcast
    OwnStored <- SigningHeadOwnStored
    SelfOk <- EcdsaSigningSelfOk
    Prefix <- EcdsaSigningPrefix
    Outcomes <- SigningHeadOutcomes
    Replayed = {}
    Misflagged = {}
    MaxStarts = 1
PROPERTIES AllEnd ImplementsLockStep
CHECK_DEADLOCK FALSE
