SPECIFICATION Spec
CONSTANTS
    LengthSets = TRUE
    OldMax <- OldMaxBytes
    Sent <- ClientSends
    Came <- ClientGets
INVARIANTS
    SentAsDocumented
    ReadAsDocumented
    HelloUnderstood
    SizeUnderstood
    ReadBack
    CutIsRefused
    NodesUnderstand
    ResultMeansWhatItSays
