SPECIFICATION FairSpec
CONSTANTS
    Conn = {c1}
    FD = {f1}
    Thread = {t1}
    None = None
    Absent = Absent
    MaxClient = 2
    QueueCap = 2
    IdleTimer = TRUE
    AppCloses = FALSE
PROPERTY IdleEnds
CHECK_DEADLOCK FALSE
