SPECIFICATION PPSpec
CONSTANTS
    Worker = {w1}
    PaiWorker = {w2, w3}
    NumPrimes = 2
    MaxAttempts = 2
INVARIANTS NoSendOnClosed 
PROPERTIES GoroutinesEnd
CHECK_DEADLOCK FALSE
