CONSTANTS
    PosSleep = 10
    JsonSleep = 1
    JsonWork = 3
    Lag = 3
    StartDelay = 5
SPECIFICATION Spec
INVARIANTS TypeOK ItemIsFree
PROPERTY InitBeforeUse
CHECK_DEADLOCK FALSE
