SPECIFICATION Spec
CONSTANTS
    Conn = {c1, c2, c3, c4}
    FD = {f1, f2, f3, f4}
    Thread = {t1, t2}
    None = None
    Absent = Absent
    MaxClient = 1
    QueueCap = 1
    IdleTimer = FALSE
    AppCloses = FALSE
SYMMETRY Symmetry
INVARIANT TypeOK
INVARIANT FdAccounted
INVARIANT NoMixUp
INVARIANT JoinEnds
INVARIANT CallbackOrder
INVARIANT AdmissionBound
PROPERTY NoPulledSocket
