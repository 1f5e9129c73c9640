SPECIFICATION FairSpec
CONSTANTS
    f1 = f1
    f2 = f2
    s1 = s1
    s2 = s2
    p1 = p1
    p2 = p2
    p3 = p3
    File = {f1}
    Server = {s1, s2}
    Peer = {p1, p2}
    NoFile = NoFile
    NoAddr = NoAddr
    Flaky = {}
    LengthSets = TRUE
    MaxConn = 6
    Size <- Size11
    BlockSize = 3
    Width = 64
    BadDir = {}
    ListLimit = 2
    MaxTask = 1
    InitSrvs = {s1}
    ServerLists <- AllLists
    SourceSets <- SomePeers
    MinPacket = 2
    Liar = {}
    Repeater = {}
    MaxBoot = 1
INVARIANTS
    TypeOK
    AskedOnce
    ClaimsExact
    NoWriteAfterClose
PROPERTY
    TasksFinish
CHECK_DEADLOCK FALSE
