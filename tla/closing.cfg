SPECIFICATION Spec
CONSTANTS
    Conn = {c1, c2}
    FD = {f1, f2}
    Thread = {t1, t2}
    None = None
    Absent = Absent
    MaxClient = 1
    QueueCap = 1
    IdleTimer = TRUE
    AppCloses = TRUE
SYMMETRY Symmetry
INVARIANT EntryThreadUnjoined
INVARIANT CancelledIsJoined
INVARIANT NoFdForgotten
CHECK_DEADLOCK FALSE
