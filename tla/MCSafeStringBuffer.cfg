CONSTANTS
    INITIAL_SIZE = 2
    MAX_SIZE = 11
    truncLen = 3
    Lengths = {0, 1, 2, 3, 5, 7, 9, 10, 11, 25}
SPECIFICATION FairSpec
INVARIANTS TypeOK SizeBound AccessBound LossVisible
PROPERTY AppendReturns
