CONSTANTS
    LedCapacity = 1
    TimerQueueMayBeFull = FALSE
    Faulty = {"green"}
SPECIFICATION UiFairSpec
INVARIANTS
    UiTypeOK
    LedShowsItsEvents
PROPERTIES
    RedGivesWay
    ThreadServesBoth
