CONSTANTS
    Task = {t1, t2}
    Bit = {b1, b2}
    OneAtATime = TRUE
SPECIFICATION GroupSpec
PROPERTIES
    FailedClearLeavesABit
