SPECIFICATION FairSpec
CONSTANTS
    None = None
    Object = {h1, h2}
    TimerId = {i1, i2}
    Timer = {t1, t2}
    Thread = {f1}
    FD = {fd1}
    o1 = o1
CHECK_DEADLOCK FALSE
PROPERTY ImplementsChannel
PROPERTY HandlerServes
PROPERTY EventsCome
