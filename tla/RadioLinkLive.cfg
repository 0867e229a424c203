CONSTANTS
    request = request
    other = other
    remains = remains
    Remains = remains
    Packet <- MCPacket
    Readings <- MCReadings
    Request = request
    Foreign = {other}
    Nothing = nothing
    SpiMayFail = FALSE
    SensorMayFail = FALSE
    MaxMeasurements = 1
    TimerQueueMayBeFull = FALSE
    LedCapacity = 0
    HubQueueCapacity = 1
    AirIsSlow = TRUE
SPECIFICATION LinkFairSpec
PROPERTIES
    LinkDelivers
