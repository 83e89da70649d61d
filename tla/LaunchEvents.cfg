SPECIFICATION FairSpec
CONSTANTS
    a = a
    x = x
    NoComponent = NoComponent
    Unset = Unset
    Components <- OneOrdinary
    Blacklisted <- Blacklist
    Redirects <- SameComponent
    Titled <- Third
    Unstamped <- Second
    EarlyEvents = FALSE
    MaxLaunches = 3
    MaxTraces = 1
INVARIANTS
    CollectorReleased
    RawTraceOfItsLaunch
    RowOfOneLaunch
    IInv
PROPERTIES
    AlwaysASubscriber
    ImplementsProtocol
    InFlightResolves
