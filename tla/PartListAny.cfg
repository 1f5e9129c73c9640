SPECIFICATION Spec
CONSTANTS
    Total = 7
    Ranges <- AllRanges
    BlockSizes = {2, 3, 4, 5}
    Width = 16
INVARIANTS
    TypeOK
    Ascending
    ClaimsReceived
    AnswerSound
    ExistsSound
    SplitCovers
    LoopsAgree
PROPERTY
    LosesAtMostTheStart
