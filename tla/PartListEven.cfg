SPECIFICATION Spec
CONSTANTS
    Total = 12
    Ranges <- EvenRanges
    BlockSizes = {1, 2, 3, 4}
    Width = 16
INVARIANT
    StatusExact
PROPERTY
    IsByteSet
