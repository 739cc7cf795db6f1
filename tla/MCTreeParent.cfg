SPECIFICATION Spec
CONSTANTS
    Null = Null
    Addr = {a1, a2, a3, a4, a5}
    Key = {1, 2}
    MaxNumEl = 4
INVARIANT DeletesInTree
CHECK_DEADLOCK FALSE
