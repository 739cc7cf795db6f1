SPECIFICATION Spec
CONSTANTS
    Null = Null
    Node = {n1, n2, n3, n4}
    Item = {v1, v2}
    Ranked = {1, 2, 3, 4, 5}
    PqInitialCap = 2
    PqMaxLen = 6
    Number = {1, 2}
    Block = {b1, b2}
    Word = 16
    VecInitialCap = 2
    Capacities = {0, 1, 3}
    VecMaxLen = 3
    MaxSteps = 4
    FixedCap = 4
    Char = {1, 2}
    Small = 3
    Large = 6
    MaxGiven = 4
INVARIANT RootIsMin
CHECK_DEADLOCK FALSE
