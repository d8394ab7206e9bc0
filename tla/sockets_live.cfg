SPECIFICATION FairSpec
CONSTANTS
    Conn = {c1, c2}
    FD = {f1, f2}
    Thread = {t1, t2}
    None = None
    Absent = Absent
    QueueCap = 1
    Uses <- Serving
PROPERTY ThreadReclaimed
PROPERTY ImplementsService
