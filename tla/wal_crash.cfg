\* WAL durability: threads put, delete and read; the process crashes and restarts.
CONSTANTS
    Keys = {k1, k2}
    Values = {v1, v2}
    Threads = {t1, t2}
    NoValue = NoValue
    Tomb = Tomb
    Garbage = Garbage
    NoThread = NoThread
    NoTxn = NoTxn
    Ops = {"put", "delete", "get", "crash"}
    Faults = {}
    ClosedUse = FALSE
    MaxLog = 4
    MaxTxns = 2
    MaxRestarts = 2
SPECIFICATION Spec
PROPERTY KVSpecBehavior
