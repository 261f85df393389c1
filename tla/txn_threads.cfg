\* Transactions, open/close/checkpoint , no crash: commits are atomic and ids unique.
CONSTANTS
    Keys = {k1, k2}
    Values = {v1, v2}
    Threads = {t1, t2}
    NoValue = NoValue
    Tomb = Tomb
    Garbage = Garbage
    NoThread = NoThread
    NoTxn = NoTxn
    Ops = {"put", "delete", "get", "begin", "txput", "txget", "commit", "rollback", "open", "close", "checkpoint"}
    Faults = {}
    ClosedUse = FALSE
    MaxLog = 2
    MaxTxns = 2
    MaxRestarts = 0
SPECIFICATION Spec
INVARIANT TxnIdsUnique
PROPERTY KVSpecBehavior
