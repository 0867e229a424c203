CONSTANTS
    Task = {t1}
    Bit = {b1, b2}
    OneAtATime = TRUE
SPECIFICATION GroupSpec
PROPERTIES
    TimeoutIsReported
