SPECIFICATION Spec
CONSTANTS
    Members <- Four
    Rounds = 8
    OwnOk = {2}
    Q = 11
    KeyPoly <- Key5
    Nonces <- TwoNonces
    Mask <- Masks
    MaskWC <- MasksWC
    Msg = 6
    Faulty = {0}
INVARIANTS AbortNamesCulprit
CHECK_DEADLOCK FALSE
