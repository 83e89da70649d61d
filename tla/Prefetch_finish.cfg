SPECIFICATION Spec
CONSTANTS
    t1 = t1
    t2 = t2
    plain = plain
    long = long
    Index <- Indices
    List <- Lists
    Tasks <- TwoTasks
    TraceFiles <- TwoTraces
    Existing <- ExistingFiles
    LongNames <- LongFiles
    Kinds <- OnlyIpc
    Strategies <- MCStrategies
    PipeSize = 2
    kRecentDataCount = 0
CHECK_DEADLOCK FALSE
INVARIANTS
    FinishedHasNoSession
