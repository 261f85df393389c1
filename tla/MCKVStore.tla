------------------------------ MODULE MCKVStore ------------------------------
(***************************************************************************)
(* Model-checking harness for KVStore: the refinement mapping to KVSpec.   *)
(***************************************************************************)
EXTENDS KVStore
LOCAL INSTANCE SequencesExt

(* A put or delete whose record is whole in wal.log has taken effect (a    *)
(* restart would replay it) even before it reaches db->table: the abstract *)
(* store includes it from the moment of the write.                         *)
AbsStore ==
    IF \E t \in Threads : pc[t] = "apply" /\ loc[t].logged
    THEN LET t == CHOOSE u \in Threads : pc[u] = "apply" /\ loc[u].logged
         IN [table EXCEPT ![loc[t].key] = loc[t].val]
    ELSE table

(* The put or delete a thread has in progress: called once it holds the   *)
(* write lock, taken effect once its record is whole in wal.log or, if it  *)
(* is not, once it reaches db->table.                                      *)
NoOp == [idle |-> TRUE]

AbsOp ==
    [t \in Threads |-> IF pc[t] = "apply"
                       THEN [key |-> loc[t].key, val |-> loc[t].val, done |-> loc[t].logged]
                       ELSE NoOp]

KV == INSTANCE KVSpec WITH store <- AbsStore, op <- AbsOp, Idle <- NoOp, buf <- intent, ended <- ended

(* The engine implements the spec's promise: every step of the code is a  *)
(* step of KVSpec (or leaves its state alone).  A key changes only by the  *)
(* effect of a put or delete in progress, once, or by a commit applying    *)
(* the whole transaction at once; a restart, an open or a checkpoint       *)
(* changes no key, so every acknowledged write survives them.              *)
KVSpecBehavior == KV!Spec

(* spec.md 4.2: replay stops at the first invalid or short record and      *)
(* treats everything before it as the valid prefix.  Reference: the whole  *)
(* records before the first cut one, applied in order to an empty table.   *)
(* The property: every table database_recover can rebuild from wal.log is  *)
(* that one.                                                               *)
WholePrefix(log) ==
    LET i == SelectInSeq(log, LAMBDA r : r.cut # "none")
    IN IF i = 0 THEN log ELSE SubSeq(log, 1, i - 1)

RecoverIsValidPrefix ==
    \A tb \in Recover(EmptyTable, disk) :
        tb = FoldLeft(ApplyRecord, EmptyTable, WholePrefix(disk))
==============================================================================
