SPECIFICATION FairSpec
CONSTANTS
    MaxStarts = 2
    MaxConns = 2
    FD = {f1}
    None = None
    QueueCap = 1
CHECK_DEADLOCK FALSE
INVARIANT TypeOK
INVARIANT StopClears
PROPERTY StopReturns
