\* Calls racing database_close and database_open, no crash.
CONSTANTS
    Keys = {k1}
    Values = {v1, v2}
    Threads = {t1, t2}
    NoValue = NoValue
    Tomb = Tomb
    Garbage = Garbage
    NoThread = NoThread
    NoTxn = NoTxn
    Ops = {"put", "get", "close", "open"}
    Faults = {}
    ClosedUse = TRUE
    MaxLog = 4
    MaxTxns = 2
    MaxRestarts = 0
SPECIFICATION Spec
PROPERTY KVSpecBehavior
