SPECIFICATION Spec
CONSTANTS
    a = a
    b = b
    c = c
    Inodes <- AllInodes
    Answers <- MCAnswers
    Commands <- MCCommands
    Modulus = 16
    MaxPurges = 1
    MaxDrops = 1
    MaxFaults = 1
CHECK_DEADLOCK FALSE
INVARIANTS
    OutputIsEarliestFirst
    WrittenFromFullAnswer
PROPERTIES
    CompilationEnds
