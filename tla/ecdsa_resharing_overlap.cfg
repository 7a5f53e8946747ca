SPECIFICATION Spec
CONSTANTS
    Q = 5
    Old = {0, 1}
    New = {1, 2}
    Protocols = {"ecdsa"}
    OldT = 1
    NewT = 1
    KeyPoly <- Key2
    OtherPoly <- Key4
    Coef <- Coefs
    Faulty = {}
    MaxFaults = 0
INVARIANTS NoPanic
CHECK_DEADLOCK FALSE
