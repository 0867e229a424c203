CONSTANTS
    Aws = aws
    Task = {aws}
    Bit = {"WIFI_CONNECTED_BIT", "AWS_CONNECTED_BIT"}
    OneAtATime = FALSE
    TimerQueueMayBeFull = FALSE
    LedCapacity = 1
    Reading = {r1}
    TelemetryCapacity = 1
    MAX_CONNECT_ATTEMPTS = 5
    RECONNECT_TIME = 10
    RECONNECT_AFTER_MAX_ATTEMPT_TIME = 600
SPECIFICATION AwsFairSpec
INVARIANTS
    AwsTypeOK
    OneReasonToConnect
    AwsBitTracksSession
PROPERTIES
    ImplementsConnection
    PausesGrow
    AwsReconnects
