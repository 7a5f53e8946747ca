SPECIFICATION SpecBoth
CONSTANTS
    Members <- Four
    Rounds = 8
    OwnOk = {2}
    Q = 11
    KeyPoly <- Key5
    Nonces <- TwoNonces
    Mask <- Masks
    MaskWC <- MasksWC
    Msg = 6
    Faulty = {1, 2}
    Signers <- Four
    EdKeyPoly <- Key5
    EdNonces <- TenNonces
    EdMsg = 6
    EdFaulty = {1, 2}
INVARIANTS
    HonestRunSigns SignatureRecovers AbortTogether BlameIsJust AbortNamesCulprit
    CrashNeedsRefusal EdHonestRunSigns EdOneSignature EdBlameIsJust
CHECK_DEADLOCK FALSE
