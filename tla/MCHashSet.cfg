SPECIFICATION Spec
CONSTANTS
    k1 = k1  k2 = k2  k3 = k3  k4 = k4  k5 = k5
    Null = Null
    Key <- MCKey
    Canon <- MCCanon
    Seeded <- MCSeeded
    Cap = 2
    BucketCap = 1
SYMMETRY Symmetry
INVARIANTS TypeOK WellFormed GrowthAsked
PROPERTIES ImplementsSet
