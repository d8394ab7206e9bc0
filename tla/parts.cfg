SPECIFICATION MCSpec
CONSTANTS
    None = None
    Writers = {th1, th2}
    LogPaths = {p1}
    MaxDays = 2
    Default = Default
    DirName = {Root, n1, n2, n3}
    Root = Root
    MkdirPaths <- SomePaths
    Plain <- AFile
    n1 = n1
    n2 = n2
    n3 = n3
    blank = blank
    mark = mark
    Addr = {ad1, ad2}
    FD = {fd1, fd2}
    Object = {h1, h2}
    Args <- Unnamed
    Given <- Named
    MaxPackets = 3
    QueueCap = 1
    Limit = 6
    MaxClock = 2
    MaxQueues = 2
    MaxMsgs = 1
    MaxCrashes = 1
    TimerId = {i1, i2}
    Timer = {t1, t2}
    Thread = {f1, f2}
    o1 = o1
CHECK_DEADLOCK FALSE
SYMMETRY Symmetry
INVARIANT TypeOK
INVARIANT LinesKept
INVARIANT MkdirpTells
INVARIANT HelpersKeepWhatTheyGet
INVARIANT ReadsText
INVARIANT WritesText
INVARIANT SocketKept
INVARIANT TimersKillable
INVARIANT PacketsInOrder
INVARIANT QueuesKept
