CONSTANTS
    Task = {}
    Bit = {"WIFI_CONNECTED_BIT", "AWS_CONNECTED_BIT"}
    OneAtATime = FALSE
    TimerQueueMayBeFull = TRUE
    LedCapacity = 1
    MAX_RECONNECT_ATTEMPTS = 5
    EventCapacity = 4
    CountModulus = 256
SPECIFICATION WifiFairSpec
INVARIANTS
    WifiTypeOK
    OneWayToConnect
    BitSetWhenSettled
    AttemptsBounded
PROPERTIES
    ClearedOnlyWhileDown
    WifiRecovers
CHECK_DEADLOCK FALSE
