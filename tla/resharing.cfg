SPECIFICATION FairSpec
CONSTANTS
    Q = 5
    Old = {0, 1}
    New = {2, 3}
    Protocols = {"ecdsa", "eddsa"}
    OldT = 1
    NewT = 1
    KeyPoly <- Key2
    OtherPoly <- Key4
    Coef <- Coefs
    Faulty = {0, 2}
    MaxFaults = 1
INVARIANTS EndMeansMoved PanicAfterError BlameIsJust
PROPERTIES EndsIfStartedInTime
CHECK_DEADLOCK FALSE
