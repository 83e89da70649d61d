SPECIFICATION FairSpec
CONSTANTS
    MaxHandles = 1
    MaxTraces = 1
    DeferredStart <- Immediate
    ReportsConnecting = FALSE
    EarlyCallbacks = TRUE
    ClockSetBack = FALSE
CHECK_DEADLOCK FALSE
PROPERTIES
    StreamEnds
