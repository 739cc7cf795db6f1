SPECIFICATION Spec
CONSTANTS
    k1 = k1  k2 = k2  k3 = k3  k4 = k4
    n1 = n1  n2 = n2  n3 = n3  n4 = n4  n5 = n5
    v1 = v1  v2 = v2
    Null = Null
    Key <- MCKey
    Value <- MCValue
    Node <- MCNode
    Caps = {0, 1, 2, 3}
    FreeCalls = {TRUE}
    MaxLen = 6
SYMMETRY Symmetry
INVARIANTS FreeStaysInList
CHECK_DEADLOCK FALSE
