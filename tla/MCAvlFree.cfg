SPECIFICATION Spec
CONSTANTS
    Null = Null
    Key = {1, 2, 3, 4, 5, 6, 7, 8}
    MaxLeaked = 2
INVARIANT FreesDeleted
CHECK_DEADLOCK FALSE
