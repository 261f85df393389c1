\* Every call, every fault, calls racing open/close, and a restart: the state stays well formed.
CONSTANTS
    Keys = {k1}
    Values = {v1}
    Threads = {t1, t2}
    NoValue = NoValue
    Tomb = Tomb
    Garbage = Garbage
    NoThread = NoThread
    NoTxn = NoTxn
    Ops = {"put", "delete", "get", "begin", "txput", "txdelete", "txget", "commit", "rollback", "open", "close", "checkpoint", "crash"}
    Faults = {"ioerror", "torn_header", "torn_body"}
    ClosedUse = TRUE
    MaxLog = 2
    MaxTxns = 3
    MaxRestarts = 1
SPECIFICATION Spec
INVARIANT TypeOK
