SPECIFICATION Spec
CONSTANTS
    f1 = f1
    f2 = f2
    s1 = s1
    s2 = s2
    p1 = p1
    p2 = p2
    p3 = p3
    File = {f1}
    Server = {s1, s2}
    Peer = {p1}
    NoFile = NoFile
    NoAddr = NoAddr
    Flaky = {s1, s2, p1}
    LengthSets = FALSE
    MaxConn = 5
    Size <- Size4
    BlockSize = 2
    Width = 64
    BadDir = {}
    ListLimit = 2
    MaxTask = 2
    InitSrvs = {s1}
    ServerLists <- AllLists
    SourceSets <- BothPeers
    MinPacket = 2
    Liar = {}
    Repeater = {}
    MaxBoot = 1
INVARIANTS
    HelloIsRead
CHECK_DEADLOCK FALSE
