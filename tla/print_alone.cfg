\* Two workers print to two files; the server may end.
CONSTANTS
    Thread = {t1, t2}
    File = {f, g}
    Trees <- SmallTrees
SPECIFICATION Spec
PROPERTIES AloneIsSnapshot
CHECK_DEADLOCK FALSE
