SPECIFICATION FairSpec
CONSTANTS
    f1 = f1
    f2 = f2
    Functors <- TwoFunctors
CHECK_DEADLOCK FALSE
INVARIANTS
    JoinedIsDone
    IInv
PROPERTIES
    FuturesCollected
