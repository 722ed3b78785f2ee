SPECIFICATION Spec
CONSTANTS
    Thread = {t1, t2}
    Name = {a, b}
    NoName = NoName
    a = a
    b = b
    NameLen <- OneCharacter
    NameRank <- AlphabeticOrder
    MinEntries = 4
    Capacity = 5
    Command <- MoveCommands
SYMMETRY ThreadSymmetry
INVARIANTS TypeOK LocksOwned PathHeld TargetLinked TreeShape
PROPERTIES OnlyWriterWrites PrintStable TableSpec Linearizable
CHECK_DEADLOCK FALSE
