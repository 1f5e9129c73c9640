SPECIFICATION Spec
CONSTANTS
    Total = 7
    Ranges <- AllRanges
    BlockSizes = {2, 3, 4, 5}
    Width = 16
INVARIANT SplitReachesTheEnd
