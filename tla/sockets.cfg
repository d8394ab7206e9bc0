SPECIFICATION Spec
CONSTANTS
    Conn = {c1, c2, c3}
    FD = {f1, f2}
    Thread = {t1, t2, t3}
    None = None
    Absent = Absent
    QueueCap = 3
    Uses <- SomeUses
SYMMETRY Symmetry
CONSTRAINT Small
CHECK_DEADLOCK FALSE
INVARIANT TypeOK
INVARIANT HandOff
INVARIANT DescriptorsKept
INVARIANT ThreadsKept
