\* A call gives up on its answer; the next one takes it.
CONSTANTS
    a = a
    c1 = c1
    b = b
    Name = {a, b}
    NoName = NoName
    Capacity = 3
    NameLen <- OneCharacter
    NameRank <- AlphabeticOrder
    Client = {c1}
    Worker = {w1}
    Command <- OneFile
    Garbled <- Unparsable
    QueueSize = 2
    MaxCalls <- Twice
    MaxFaults = 1
SPECIFICATION Spec
INVARIANTS ReturnsOwn
CHECK_DEADLOCK FALSE
