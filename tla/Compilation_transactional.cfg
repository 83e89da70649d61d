SPECIFICATION Spec
CONSTANTS
    a = a
    b = b
    c = c
    Inodes <- AllInodes
    Answers <- MCAnswers
    Commands <- Hand
    Modulus = 16
    MaxPurges = 1
    MaxDrops = 0
    MaxFaults = 0
CHECK_DEADLOCK FALSE
INVARIANTS
    Transactional
