SPECIFICATION Spec
CONSTANTS
    Thread = {t1, t2}
    Name = {a, b}
    NoName = NoName
    a = a
    b = b
    NameLen <- OneCharacter
    NameRank <- AlphabeticOrder
    MinEntries = 4
    Capacity = 4
    Command <- CrossingCommands
SYMMETRY ThreadSymmetry
INVARIANTS NoWaitCycle
CHECK_DEADLOCK FALSE
