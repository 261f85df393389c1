------------------------------ MODULE KVStore ------------------------------
(***************************************************************************)
(* The storage engine of src/src/database/database.c: one database_t with  *)
(* its hash table (the Index), its write-ahead log file wal.log (the Log), *)
(* its pthread rwlock, its transaction-id counter and the transactions of  *)
(* the threads that call it.  The process may crash (or exit) at any       *)
(* moment; a new process then runs database_create and database_open,     *)
(* which replays wal.log into a fresh table.                               *)
(*                                                                         *)
(* Keys and values are model values; a WAL record is abstracted to its     *)
(* kind, key, value and how much of it reached the file.                   *)
(***************************************************************************)
EXTENDS Naturals, Sequences, FiniteSets

CONSTANTS
    Keys, Values,   \* keys and values callers pass (valid: non-null, non-empty)
    Threads,        \* caller threads
    NoValue,        \* "no entry" in a hash table
    Tomb,           \* a buffered delete in the ghost intent of a transaction
    Garbage,        \* a value built from bytes no caller wrote
    NoThread,       \* rwlock has no writer
    NoTxn,          \* the thread holds no transaction_t
    Ops,            \* the calls the callers of this model make
    Faults,         \* the faults the environment may inject
    ClosedUse,      \* callers may call while the engine is closed or closing
    MaxLog,         \* bound on the number of records in wal.log
    MaxTxns,        \* bound on next_txn_id within one process
    MaxRestarts     \* bound on process crashes/exits followed by a restart

AllOps == {"put", "delete", "get", "begin", "txput", "txdelete", "txget",
           "commit", "rollback", "open", "close", "checkpoint", "crash"}
AllFaults == {"ioerror", "torn_header", "torn_body"}

ASSUME /\ Ops \subseteq AllOps /\ Faults \subseteq AllFaults
       /\ ClosedUse \in BOOLEAN
       /\ MaxLog \in Nat /\ MaxTxns \in Nat /\ MaxRestarts \in Nat
       /\ {NoValue, Tomb, Garbage} \cap Values = {}

VARIABLES
    disk,       \* contents of <data_dir>/wal.log: a sequence of records
    table,      \* db->table: the Index, lost when the process dies
    walFd,      \* db->wal_fd >= 0
    isOpen,     \* db->is_open
    nextTxnId,  \* db->next_txn_id
    writer,     \* thread holding db->lock in write mode, or NoThread
    readers,    \* threads holding db->lock in read mode
    pc,         \* where each thread is inside a call
    loc,        \* the locals of the call in progress
    txn,        \* each thread's transaction_t: its id and txn->writes
    intent,     \* ghost: the writes each transaction asked for, deletes as Tomb
    ended,      \* ghost: how each thread's last transaction ended
    restarts    \* number of process restarts so far

vars == <<disk, table, walFd, isOpen, nextTxnId, writer, readers, pc, loc,
          txn, intent, ended, restarts>>

-----------------------------------------------------------------------------
(* Records of wal.log.  cut says how much of the record reached the file:  *)
(* "none" (all of it), "header" (it ends inside the 24-byte header) or     *)
(* "body" (the header is whole, the key/value bytes are short).            *)
Record == [op : {"put", "delete"}, key : Keys, val : Values \cup {NoValue},
           cut : {"none", "header", "body"}]

WalRecord(o, k, v) == [op |-> o, key |-> k, val |-> v, cut |-> "none"]

Overlay == [Keys -> Values \cup {NoValue}]
EmptyTable == [k \in Keys |-> NoValue]
IdleLoc == [key |-> CHOOSE k \in Keys : TRUE, val |-> NoValue,
            logged |-> FALSE, id |-> 0]

(* hash_table_put / hash_table_delete of one record on a table *)
ApplyRecord(tbl, r) ==
    [tbl EXCEPT ![r.key] = IF r.op = "put" THEN r.val ELSE NoValue]

(* database_recover: the tables replay of log onto tbl can produce.  It    *)
(* stops at a short header read or a bad magic.  A record whose header is  *)
(* whole but whose body is short is still applied: read() of the body is   *)
(* not checked, so a put stores a value of partly uninitialised bytes.     *)
RECURSIVE Recover(_, _)
Recover(tbl, log) ==
    IF log = <<>> THEN {tbl}
    ELSE LET r == Head(log) IN
         CASE r.cut = "none"   -> Recover(ApplyRecord(tbl, r), Tail(log))
           [] r.cut = "header" -> {tbl}
           [] r.cut = "body" /\ r.op = "put" -> {tbl, [tbl EXCEPT ![r.key] = Garbage]}
           [] r.cut = "body" /\ r.op = "delete" -> {tbl}

(* write(db->wal_fd, entry, ...) then fsync: the return values are ignored *)
WriteOutcomes(r) ==
    IF ~walFd THEN {disk}
    ELSE {Append(disk, r)}
         \cup (IF "ioerror" \in Faults
               THEN {disk, Append(disk, [r EXCEPT !.cut = "body"])} ELSE {})

LockFree == writer = NoThread /\ readers = {}

(* A thread may start call o: callers in this model make it, and (unless   *)
(* ClosedUse) only while the engine is open and not being closed.          *)
Callable(t, o) ==
    /\ o \in Ops
    /\ pc[t] = "idle"
    /\ ClosedUse \/ (isOpen /\ \A u \in Threads : pc[u] # "close_fd")

(* open/close are called with no other call in progress, unless ClosedUse *)
Quiet(t) == ClosedUse \/ \A u \in Threads \ {t} : pc[u] = "idle"

-----------------------------------------------------------------------------
Init ==
    /\ disk = <<>>
    /\ table = EmptyTable
    /\ walFd = TRUE
    /\ isOpen = TRUE
    /\ nextTxnId = 1
    /\ writer = NoThread
    /\ readers = {}
    /\ pc = [t \in Threads |-> "idle"]
    /\ loc = [t \in Threads |-> IdleLoc]
    /\ txn = [t \in Threads |-> NoTxn]
    /\ intent = [t \in Threads |-> NoTxn]
    /\ ended = [t \in Threads |-> "none"]
    /\ restarts = 0

(* database_put up to the fsync: take the write lock, append the record.  *)
(* A plausible bug: the WAL write is forgotten.                            *)
PutBeginNoLog(t, k, v) ==
    /\ Callable(t, "put") /\ LockFree /\ Len(disk) < MaxLog
    /\ writer' = t
    /\ loc' = [loc EXCEPT ![t] = [IdleLoc EXCEPT !.key = k, !.val = v]]
    /\ pc' = [pc EXCEPT ![t] = "apply"]
    /\ UNCHANGED <<disk, table, walFd, isOpen, nextTxnId, readers, txn, intent, ended, restarts>>

PutBegin(t, k, v) ==
    /\ Callable(t, "put") /\ LockFree /\ Len(disk) < MaxLog
    /\ writer' = t
    /\ \E d \in WriteOutcomes(WalRecord("put", k, v)) :
          /\ disk' = d
          /\ loc' = [loc EXCEPT ![t] = [key |-> k, val |-> v, id |-> 0,
                        logged |-> d = Append(disk, WalRecord("put", k, v))]]
    /\ pc' = [pc EXCEPT ![t] = "apply"]
    /\ UNCHANGED <<table, walFd, isOpen, nextTxnId, readers, txn, intent, ended, restarts>>

(* database_delete up to the fsync *)
DeleteBegin(t, k) ==
    /\ Callable(t, "delete") /\ LockFree /\ Len(disk) < MaxLog
    /\ writer' = t
    /\ \E d \in WriteOutcomes(WalRecord("delete", k, NoValue)) :
          /\ disk' = d
          /\ loc' = [loc EXCEPT ![t] = [key |-> k, val |-> NoValue, id |-> 0,
                        logged |-> d = Append(disk, WalRecord("delete", k, NoValue))]]
    /\ pc' = [pc EXCEPT ![t] = "apply"]
    /\ UNCHANGED <<table, walFd, isOpen, nextTxnId, readers, txn, intent, ended, restarts>>

(* the rest of database_put / database_delete: apply to the table, unlock *)
ApplyMutation(t) ==
    /\ pc[t] = "apply"
    /\ table' = [table EXCEPT ![loc[t].key] = loc[t].val]
    /\ writer' = NoThread
    /\ pc' = [pc EXCEPT ![t] = "idle"]
    /\ loc' = [loc EXCEPT ![t] = IdleLoc]
    /\ UNCHANGED <<disk, walFd, isOpen, nextTxnId, readers, txn, intent, ended, restarts>>

(* database_get / database_exists: rdlock, hash_table_get, unlock.  The    *)
(* value read is not kept: no property here is about it.                   *)
ReadBegin(t) ==
    /\ Callable(t, "get") /\ writer = NoThread
    /\ readers' = readers \cup {t}
    /\ pc' = [pc EXCEPT ![t] = "read"]
    /\ UNCHANGED <<disk, table, walFd, isOpen, nextTxnId, writer, loc, txn, intent, ended, restarts>>

ReadEnd(t) ==
    /\ pc[t] = "read"
    /\ readers' = readers \ {t}
    /\ pc' = [pc EXCEPT ![t] = "idle"]
    /\ UNCHANGED <<disk, table, walFd, isOpen, nextTxnId, writer, loc, txn, intent, ended, restarts>>

(* transaction_get: a miss in txn->writes falls through to database_get *)
TxGetBegin(t, k) ==
    /\ Callable(t, "txget") /\ txn[t] # NoTxn
    /\ txn[t].writes[k] = NoValue
    /\ writer = NoThread
    /\ readers' = readers \cup {t}
    /\ pc' = [pc EXCEPT ![t] = "read"]
    /\ UNCHANGED <<disk, table, walFd, isOpen, nextTxnId, writer, loc, txn, intent, ended, restarts>>

(* database_begin_transaction: wrlock, then txn_id = next_txn_id++.  A     *)
(* plausible bug: the counter is read without taking the lock.             *)
BeginLockUnlocked(t) ==
    /\ Callable(t, "begin") /\ txn[t] = NoTxn /\ nextTxnId <= MaxTxns
    /\ loc' = [loc EXCEPT ![t] = [IdleLoc EXCEPT !.id = nextTxnId]]
    /\ pc' = [pc EXCEPT ![t] = "begin_incr"]
    /\ UNCHANGED <<disk, table, walFd, isOpen, nextTxnId, writer, readers, txn, intent, ended, restarts>>

BeginLock(t) ==
    /\ Callable(t, "begin") /\ txn[t] = NoTxn /\ nextTxnId <= MaxTxns
    /\ LockFree
    /\ writer' = t
    /\ loc' = [loc EXCEPT ![t] = [IdleLoc EXCEPT !.id = nextTxnId]]
    /\ pc' = [pc EXCEPT ![t] = "begin_incr"]
    /\ UNCHANGED <<disk, table, walFd, isOpen, nextTxnId, readers, txn, intent, ended, restarts>>

BeginIncr(t) ==
    /\ pc[t] = "begin_incr"
    /\ nextTxnId' = loc[t].id + 1
    /\ txn' = [txn EXCEPT ![t] = [id |-> loc[t].id, writes |-> EmptyTable]]
    /\ intent' = [intent EXCEPT ![t] = EmptyTable]
    /\ ended' = [ended EXCEPT ![t] = "none"]
    /\ writer' = IF writer = t THEN NoThread ELSE writer
    /\ pc' = [pc EXCEPT ![t] = "idle"]
    /\ loc' = [loc EXCEPT ![t] = IdleLoc]
    /\ UNCHANGED <<disk, table, walFd, isOpen, readers, restarts>>

(* A plausible bug: transaction_put writes through to the shared table *)
TxPutWriteThrough(t, k, v) ==
    /\ Callable(t, "txput") /\ txn[t] # NoTxn
    /\ txn' = [txn EXCEPT ![t].writes[k] = v]
    /\ intent' = [intent EXCEPT ![t][k] = v]
    /\ table' = [table EXCEPT ![k] = v]
    /\ UNCHANGED <<disk, walFd, isOpen, nextTxnId, writer, readers, pc, loc, ended, restarts>>

(* transaction_put: hash_table_put into txn->writes, no lock *)
TxPut(t, k, v) ==
    /\ Callable(t, "txput") /\ txn[t] # NoTxn
    /\ txn' = [txn EXCEPT ![t].writes[k] = v]
    /\ intent' = [intent EXCEPT ![t][k] = v]
    /\ UNCHANGED <<disk, table, walFd, isOpen, nextTxnId, writer, readers, pc, loc, ended, restarts>>

(* transaction_delete: hash_table_delete from txn->writes.  The write set  *)
(* keeps no tombstone; the ghost intent records the delete as Tomb.        *)
TxDelete(t, k) ==
    /\ Callable(t, "txdelete") /\ txn[t] # NoTxn
    /\ txn' = [txn EXCEPT ![t].writes[k] = NoValue]
    /\ intent' = [intent EXCEPT ![t][k] = Tomb]
    /\ UNCHANGED <<disk, table, walFd, isOpen, nextTxnId, writer, readers, pc, loc, ended, restarts>>

(* transaction_commit: under the write lock every entry of txn->writes is  *)
(* hash_table_put into db->table; nothing is written to wal.log; then the  *)
(* transaction is freed.  No other call can observe the table while the    *)
(* loop runs, so the loop is one step.                                     *)
Commit(t) ==
    /\ Callable(t, "commit") /\ txn[t] # NoTxn
    /\ LockFree
    /\ table' = [k \in Keys |-> IF txn[t].writes[k] # NoValue
                                THEN txn[t].writes[k] ELSE table[k]]
    /\ txn' = [txn EXCEPT ![t] = NoTxn]
    /\ intent' = [intent EXCEPT ![t] = NoTxn]
    /\ ended' = [ended EXCEPT ![t] = "committed"]
    /\ UNCHANGED <<disk, walFd, isOpen, nextTxnId, writer, readers, pc, loc, restarts>>

(* transaction_rollback: free the write set and the transaction *)
Rollback(t) ==
    /\ Callable(t, "rollback") /\ txn[t] # NoTxn
    /\ txn' = [txn EXCEPT ![t] = NoTxn]
    /\ intent' = [intent EXCEPT ![t] = NoTxn]
    /\ ended' = [ended EXCEPT ![t] = "rolledback"]
    /\ UNCHANGED <<disk, table, walFd, isOpen, nextTxnId, writer, readers, pc, loc, restarts>>

(* database_open (closed engine): open wal.log with O_APPEND, then         *)
(* database_recover replays it onto db->table as it is (not emptied).      *)
Open(t) ==
    /\ "open" \in Ops /\ pc[t] = "idle" /\ ~isOpen /\ Quiet(t)
    /\ walFd' = TRUE
    /\ \E tb \in Recover(table, disk) : table' = tb
    /\ isOpen' = TRUE
    /\ UNCHANGED <<disk, nextTxnId, writer, readers, pc, loc, txn, intent, ended, restarts>>

(* database_close: database_checkpoint truncates wal.log (no lock) ...    *)
CloseBegin(t) ==
    /\ "close" \in Ops /\ pc[t] = "idle" /\ isOpen /\ Quiet(t)
    /\ disk' = IF walFd THEN <<>> ELSE disk
    /\ pc' = [pc EXCEPT ![t] = "close_fd"]
    /\ UNCHANGED <<table, walFd, isOpen, nextTxnId, writer, readers, loc, txn, intent, ended, restarts>>

(* ... then closes the file descriptor and clears is_open *)
CloseEnd(t) ==
    /\ pc[t] = "close_fd"
    /\ walFd' = FALSE
    /\ isOpen' = FALSE
    /\ pc' = [pc EXCEPT ![t] = "idle"]
    /\ UNCHANGED <<disk, table, nextTxnId, writer, readers, loc, txn, intent, ended, restarts>>

(* database_checkpoint: ftruncate(wal_fd, 0), no snapshot, no lock *)
Checkpoint(t) ==
    /\ Callable(t, "checkpoint") /\ walFd
    /\ disk' = <<>>
    /\ UNCHANGED <<table, walFd, isOpen, nextTxnId, writer, readers, pc, loc, txn, intent, ended, restarts>>

(* A crash in the middle of write(): part of a record reaches wal.log *)
TornCuts == {c \in {"header", "body"} : ("torn_" \o c) \in Faults}
CrashDisks ==
    {disk} \cup
    IF walFd /\ LockFree /\ Len(disk) < MaxLog /\ \E t \in Threads : pc[t] = "idle"
    THEN {Append(disk, [WalRecord(o, k, v) EXCEPT !.cut = c]) :
             c \in TornCuts, k \in Keys,
             <<o, v>> \in ({"put"} \X Values) \cup {<<"delete", NoValue>>}}
    ELSE {}

(* A plausible bug: the new process starts its transaction ids at 0 *)
RestartZeroId ==
    /\ "crash" \in Ops /\ restarts < MaxRestarts
    /\ \E d \in CrashDisks : /\ disk' = d
                             /\ \E tb \in Recover(EmptyTable, d) : table' = tb
    /\ walFd' = TRUE /\ isOpen' = TRUE /\ nextTxnId' = 0
    /\ writer' = NoThread /\ readers' = {}
    /\ pc' = [t \in Threads |-> "idle"] /\ loc' = [t \in Threads |-> IdleLoc]
    /\ txn' = [t \in Threads |-> NoTxn] /\ intent' = [t \in Threads |-> NoTxn]
    /\ ended' = [t \in Threads |-> "none"]
    /\ restarts' = restarts + 1

(* The process dies (crash, or exit after database_close/destroy) and a    *)
(* new one runs database_create and database_open on the same directory.   *)
Restart ==
    /\ "crash" \in Ops /\ restarts < MaxRestarts
    /\ \E d \in CrashDisks : /\ disk' = d
                             /\ \E tb \in Recover(EmptyTable, d) : table' = tb
    /\ walFd' = TRUE /\ isOpen' = TRUE /\ nextTxnId' = 1
    /\ writer' = NoThread /\ readers' = {}
    /\ pc' = [t \in Threads |-> "idle"] /\ loc' = [t \in Threads |-> IdleLoc]
    /\ txn' = [t \in Threads |-> NoTxn] /\ intent' = [t \in Threads |-> NoTxn]
    /\ ended' = [t \in Threads |-> "none"]
    /\ restarts' = restarts + 1

-----------------------------------------------------------------------------
Next ==
    \/ \E t \in Threads :
          \/ \E k \in Keys, v \in Values : PutBegin(t, k, v) \/ TxPut(t, k, v)
          \/ \E k \in Keys : DeleteBegin(t, k) \/ TxDelete(t, k) \/ TxGetBegin(t, k)
          \/ ApplyMutation(t) \/ ReadBegin(t) \/ ReadEnd(t)
          \/ BeginLock(t) \/ BeginIncr(t) \/ Commit(t) \/ Rollback(t)
          \/ Open(t) \/ CloseBegin(t) \/ CloseEnd(t) \/ Checkpoint(t)
    \/ Restart

Spec == Init /\ [][Next]_vars

-----------------------------------------------------------------------------
TypeOK ==
    /\ disk \in Seq(Record) /\ Len(disk) <= MaxLog
    /\ table \in [Keys -> Values \cup {NoValue, Garbage}]
    /\ walFd \in BOOLEAN /\ isOpen \in BOOLEAN
    /\ nextTxnId \in 1..(MaxTxns + 1)
    /\ writer \in Threads \cup {NoThread} /\ readers \subseteq Threads
    /\ pc \in [Threads -> {"idle", "apply", "read", "begin_incr", "close_fd"}]
    /\ txn \in [Threads -> [id : 1..MaxTxns, writes : Overlay] \cup {NoTxn}]
    /\ intent \in [Threads -> [Keys -> Values \cup {NoValue, Tomb}] \cup {NoTxn}]
    /\ ended \in [Threads -> {"none", "committed", "rolledback"}]
    /\ restarts \in 0..MaxRestarts

(* Transaction ids are unique: no two live transactions, nor one being     *)
(* begun, carry the same id, and every id is below next_txn_id.  This is   *)
(* what the write lock around next_txn_id++ in database_begin_transaction  *)
(* buys when several threads begin transactions at once.                  *)
TxnIdsUnique ==
    LET holders == {t \in Threads : txn[t] # NoTxn}
        begun   == {t \in Threads : pc[t] = "begin_incr"}
        idOf(t) == IF t \in holders THEN txn[t].id ELSE loc[t].id
    IN /\ \A t, u \in holders \cup begun : t # u => idOf(t) # idOf(u)
       /\ \A t \in holders : txn[t].id < nextTxnId
====
