SPECIFICATION Spec
CONSTANTS
    Data = {d1, d2}  MaxNodes = 4  MaxCompared = 3
    Entropy = {e1, e2}  Clock = {c1, c2}
    Null = Null
    Rank = {1, 2, 3}
    MaxLen = 6
    Needles = {1, 2, 3, 4, 5}
    MaxSearched = 7
    BlockSize = 2
    Word = 16
    Lengths = {0, 1, 2, 5}
    MaxBlocks = 5
INVARIANTS TypeOK LoopInvariants Sorts Answers ShallowStack
PROPERTIES NoBlockTwice Terminates
CHECK_DEADLOCK FALSE
