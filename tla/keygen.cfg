SPECIFICATION Spec
CONSTANTS
    Members <- Four
    Rounds = 4
    OwnOk = {}
    Q = 5
    T = 1
    Poly <- TwoPolys
    Faulty = {0, 2}
    IgnoreDupes = FALSE
INVARIANTS OneKey KeyRecoverable AllOrNone BlameIsJust
CHECK_DEADLOCK FALSE
