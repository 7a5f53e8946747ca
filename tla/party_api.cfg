SPECIFICATION Spec
CONSTANTS
    Thread = {t1, t2}
    Sends <- EddsaSends
    Needs <- EddsaNeeds
    Setups <- BothSetups
    MaxStarts = 2
    MaxCalls = 6
INVARIANTS OneStartPerRun
PROPERTIES CallsReturn
CHECK_DEADLOCK FALSE
