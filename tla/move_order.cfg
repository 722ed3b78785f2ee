SPECIFICATION Test5Spec
CONSTANTS
    Thread = {t1, t2, t3}
    Name = {a, b, c, d, e, f}
    NoName = NoName
    a = a
    b = b
    c = c
    d = d
    e = e
    f = f
    NameLen <- OneCharacter
    NameRank <- AlphabeticOrder
    MinEntries = 4
    Capacity = 7
    Command <- Test5Commands
SYMMETRY ThreadSymmetry
INVARIANTS NoWaitCycle
