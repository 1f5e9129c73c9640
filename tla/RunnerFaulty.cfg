SPECIFICATION Spec
CONSTANTS
    f1 = f1
    f2 = f2
    s1 = s1
    s2 = s2
    p1 = p1
    p2 = p2
    p3 = p3
    File = {f1, f2}
    Server = {s1}
    Peer = {p1, p2}
    NoFile = NoFile
    NoAddr = NoAddr
    Flaky = {s1, p1}
    LengthSets = TRUE
    MaxConn = 3
    Size <- Size8
    BlockSize = 2
    Width = 64
    BadDir = {f2}
    ListLimit = 2
    MaxTask = 3
    InitSrvs = {s1}
    ServerLists <- NoLists
    SourceSets <- BothPeers
    MinPacket = 2
    Liar = {p1}
    Repeater = {p2}
    MaxBoot = 3
INVARIANTS
    DoneMeansWhole
    CompleteIsFinished
    NothingForgotten
PROPERTIES
    FinishedStays
    IsDownload
CHECK_DEADLOCK FALSE
