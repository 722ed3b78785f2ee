SPECIFICATION Spec
CONSTANTS
    Thread = {t1}
    Name = {a, b}
    NoName = NoName
    a = a
    b = b
    NameLen <- OneCharacter
    NameRank <- AlphabeticOrder
    MinEntries = 4
    Capacity = 5
    Command <- TakenNameCommands
INVARIANTS IdleHoldsNothing
CHECK_DEADLOCK FALSE
