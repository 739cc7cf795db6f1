SPECIFICATION Spec
CONSTANTS
    k1 = k1  k2 = k2  k3 = k3  k4 = k4
    a1 = a1  a2 = a2  a3 = a3
    v1 = v1  v2 = v2
    Null = Null
    Key <- MCKey
    Value <- MCValue
    Addr <- MCAddr
    Canon <- MCCanon
    Seeded <- MCSeeded
    Cap = 2
    BucketCap = 1
SYMMETRY Symmetry
INVARIANTS TypeOK NoDangling Placed Unique NoLeak LenCounts WithinRoom
PROPERTIES StablePointers ImplementsMap
