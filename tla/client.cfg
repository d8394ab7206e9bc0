SPECIFICATION Spec
CONSTANTS
    MaxConnects = 2
    FD = {f1}
    None = None
    QueueCap = 1
    Apps <- SomeApps
CHECK_DEADLOCK FALSE
INVARIANT TypeOK
INVARIANT CallbackOrder
INVARIANT StopKnowsAll
