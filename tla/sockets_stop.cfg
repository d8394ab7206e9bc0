SPECIFICATION Spec
CONSTANTS
    Conn = {c1, c2}
    FD = {f1, f2}
    Thread = {t1, t2}
    None = None
    Absent = Absent
    QueueCap = 2
    Uses <- Stopping
INVARIANT StopClears
CHECK_DEADLOCK FALSE
