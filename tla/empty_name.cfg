SPECIFICATION Spec
CONSTANTS
    Thread = {t1}
    Name = {a, b, c, d, e, f}
    NoName = NoName
    a = a
    b = b
    c = c
    d = d
    e = e
    f = f
    NameLen <- OneCharacter
    NameRank <- AlphabeticOrder
    MinEntries = 4
    Capacity = 7
    Command <- FullDirCommands
INVARIANTS NoEmptyName
CHECK_DEADLOCK FALSE
