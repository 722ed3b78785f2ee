\* Arrays of one, two and four slots.
CONSTANTS
    Name = {a, b, c}
    NoName = NoName
    Capacity = 4
    MinEntries = 1
SPECIFICATION Spec
INVARIANTS EntriesDiffer
PROPERTIES ImplementsMap
