CONSTANTS
    Aws = aws
    Task = {aws}
    Bit = {"WIFI_CONNECTED_BIT", "AWS_CONNECTED_BIT"}
    OneAtATime = FALSE
    TimerQueueMayBeFull = TRUE
    LedCapacity = 1
    Reading = {r1}
    TelemetryCapacity = 0
    MAX_CONNECT_ATTEMPTS = 2
    RECONNECT_TIME = 10
    RECONNECT_AFTER_MAX_ATTEMPT_TIME = 600
    MAX_RECONNECT_ATTEMPTS = 0
    EventCapacity = 3
    CountModulus = 3
SPECIFICATION FairSpec
INVARIANTS
    BitSetWhenSettled
PROPERTIES
    ImplementsAwsIotThread
    DeadLinkEndsSession
