SPECIFICATION Spec
CONSTANTS
    a = a
    b = b
    Packages <- TwoPackages
    Initially <- OneInstalled
    MaxVersion = 2
    MaxChanges = 2
    MaxStarts = 2
    MaxFaults = 1
    Timeout = 2
CHECK_DEADLOCK FALSE
INVARIANTS
    MapIsCurrent
PROPERTIES
    MutexReleased
    ObserverReturns
