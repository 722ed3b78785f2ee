\* Anything that can go wrong, once; then callers may wait for ever.
CONSTANTS
    a = a
    c1 = c1
    b = b
    Name = {a, b}
    NoName = NoName
    Capacity = 3
    NameLen <- OneCharacter
    NameRank <- AlphabeticOrder
    Client = {c1, c2}
    Worker = {w1, w2}
    Command <- SameFile
    Garbled <- Unparsable
    QueueSize = 1
    MaxCalls <- OneBusy
    MaxFaults = 1
SPECIFICATION FairSpec
INVARIANTS TypeOK AnswersOwn
PROPERTIES EffectWithinCall AnswerKept AsIfLocal EveryCallReturns
CHECK_DEADLOCK FALSE
