CONSTANTS
    request = request
    other = other
    remains = remains
    Remains = remains
    Packet <- MCPacket
    Readings <- MCReadings
    Request = request
    Foreign = {}
    Nothing = nothing
    SpiMayFail = TRUE
    SensorMayFail = TRUE
    MaxMeasurements = 2
    TimerQueueMayBeFull = FALSE
    LedCapacity = 0
    HubQueueCapacity = 1
    AirIsSlow = TRUE
SPECIFICATION LinkSpec
INVARIANTS
    LinkTypeOK
    ReadingsHoldTogether
