SPECIFICATION FairSpec
CONSTANTS
    MaxHandles = 2
    MaxTraces = 1
    DeferredStart <- Either
    ReportsConnecting = FALSE
    EarlyCallbacks = FALSE
    ClockSetBack = FALSE
CHECK_DEADLOCK FALSE
INVARIANTS
    HandleValid
    TraceDelivered
    IInv
PROPERTIES
    EndedNotFailed
    ImplementsStreams
    HandleDestroyed
