SPECIFICATION FairSpec
CONSTANTS
    Conn = {c1, c2}
    FD = {f1, f2}
    Thread = {t1, t2}
    None = None
    Absent = Absent
    MaxClient = 2
    QueueCap = 1
    IdleTimer = FALSE
    AppCloses = FALSE
PROPERTY ThreadReclaimed
PROPERTY ImplementsService
