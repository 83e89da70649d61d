SPECIFICATION ResolverSpec
CONSTANTS
    Inodes <- AllInodes
    FileNames <- MCFileNames
    Names <- MCNames
    RootDirs <- TwoRoots
    Parent <- Parents
    Disks <- MCDisks
    Changing <- MCChanging
    NewNodes <- MCNewNodes
    Caches <- MCCaches
    Requests <- MCRequests
    Options <- MCOptions
    MaxChanges = 1
    MaxFaults = 1
    PipeSize = 2
    FirstWord <- MCFirstWord
CHECK_DEADLOCK FALSE
INVARIANTS
    IInv
    AnswersAreTrue
    HaltsAfterLastInode
PROPERTIES
    ImplementsContract
    AnswersEnd
