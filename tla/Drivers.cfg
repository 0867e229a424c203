CONSTANTS
    Task = {u1, u2}
    Bit = {b1, b2}
    OneAtATime = TRUE
    HrTimers = {t1, t2, t3, t4}
    MAX_TIMER_COUNT = 3
    Gpios = {g1, g2, g3}
    GpioNumbers = {4, 32, 33, 40}
    Adcs = {a1, a2, a3}
    Keys = {"ssid"}
    ItemKeys = {"item"}
    StringLengths = {0, 1, 254, 255, 256}
    NONE = NONE
    FAIL = FAIL
    Credentials = {"c1", "c2"}
    NoCredentials = "none"
    Settings <- MCSettings
    MaxCalls = 2
    UNKNOWN = UNKNOWN
SYMMETRY MCSymmetry
SPECIFICATION DriversSpec
CHECK_DEADLOCK FALSE
INVARIANTS
    DriversTypeOK
    CopyNeverMissesBit
    StoredStringIsRead
    JoinsAsStored
    SettingsTakeEffect
    LowDataRateWhenNeeded
    CurrentLimited
PROPERTIES
    CopyLagsByOneClear
    OkMeansInSync
    ImplementsTimerPool
    AdcHandlesOutliveUse
