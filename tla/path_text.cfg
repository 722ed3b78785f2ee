\* Every text of up to four characters and some longer ones, in pairs.
CONSTANTS
    Char = {"a", "b", "/", " "}
    MaxText = 4
    Texts <- AllTexts
SPECIFICATION Spec
INVARIANTS PopsComponents EqRight LenRight AncestorRight OrderRight
CHECK_DEADLOCK FALSE
