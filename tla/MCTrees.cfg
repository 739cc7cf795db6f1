SPECIFICATION TreesSpec
CONSTANTS
    a1 = a1  a2 = a2  a3 = a3  a4 = a4  a5 = a5
    Null = Null
    Addr <- MCAddr
    Key = {1, 2}
    MaxNumEl = 4
    AvlKey = {1, 2, 3, 4, 5, 6, 7, 8}
    MaxLeaked = 1
SYMMETRY Symmetry
INVARIANTS TypeOK IsTree OldParents NumElCovers Balanced NumElCounts
PROPERTIES ImplementsTree ImplementsOrderedSet
CHECK_DEADLOCK FALSE
