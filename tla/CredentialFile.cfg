SPECIFICATION Spec
CONSTANTS
    Origins = {o1}
    DeviceIds = {d1, d2}
    PairIds = {p1, p2}
    Sessions = {s1}
    NoSession = NoSession
    Threads = {t1, t2}
    NoThread = NoThread
    NoFile = NoFile
INVARIANTS FileIsWellFormed
PROPERTY AtomicTransactions
CHECK_DEADLOCK FALSE
