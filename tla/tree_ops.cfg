SPECIFICATION FairSpec
CONSTANTS
    Thread = {t1, t2}
    Name = {a, b}
    NoName = NoName
    a = a
    b = b
    NameLen <- OneCharacter
    NameRank <- AlphabeticOrder
    MinEntries = 4
    Capacity = 5
    Command <- TreeCommands
INVARIANTS PathHeld TargetLinked TreeShape NoEmptyName IdleHoldsNothing NoWaitCycle
PROPERTIES PrintStable TableSpec Linearizable EveryCommandAnswered
