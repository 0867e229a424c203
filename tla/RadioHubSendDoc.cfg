CONSTANTS
    Request = request
    Packet = {request, telemetry, other, remains}
    Readings = {telemetry, remains}
    Remains = remains
    Nothing = nothing
    SpiMayFail = FALSE
    TimerQueueMayBeFull = FALSE
    LedCapacity = 1
    HubQueueCapacity = 1
    AirIsSlow = TRUE
SPECIFICATION HubRadioSpec
INVARIANT SentIsRequest
