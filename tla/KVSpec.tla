------------------------------- MODULE KVSpec -------------------------------
(***************************************************************************)
(* What spec.md promises of the engine (sections 3, 4.3, 4.4, 7, 8): an    *)
(* atomic map from keys to values in which each put or delete takes effect *)
(* once, between its call and its return, every acknowledged one survives  *)
(* a restart, and nothing else changes the map.  Transactions buffer puts *)
(* and deletes (a delete as a tombstone) privately and apply them all at   *)
(* once on commit, or drop them on rollback or when the process dies.      *)
(***************************************************************************)
CONSTANTS Keys, Values, Threads, NoValue, Tomb, NoTxn, Idle

VARIABLES store,  \* the committed contents of the store
          op,     \* each thread's put or delete in progress, or Idle
          buf,    \* each thread's open transaction: its buffered writes
          ended   \* how each thread's last transaction ended

Init == /\ store = [k \in Keys |-> NoValue]
        /\ op = [t \in Threads |-> Idle]
        /\ buf = [t \in Threads |-> NoTxn]
        /\ ended = [t \in Threads |-> "none"]

(* An engine put (v a value) or delete (v = NoValue) is called, takes     *)
(* effect once, and returns.  Calling and taking effect, or taking effect *)
(* and returning, may be one step.                                         *)
Call(t, k, v) ==
    /\ op[t] = Idle
    /\ op' = [op EXCEPT ![t] = [key |-> k, val |-> v, done |-> FALSE]]
    /\ UNCHANGED <<store, buf, ended>>

Effect(o) == [store EXCEPT ![o.key] = o.val]

CallEffect(t, k, v) ==
    /\ op[t] = Idle
    /\ store' = Effect([key |-> k, val |-> v])
    /\ op' = [op EXCEPT ![t] = [key |-> k, val |-> v, done |-> TRUE]]
    /\ UNCHANGED <<buf, ended>>

Write(t) ==
    /\ op[t] # Idle /\ ~op[t].done
    /\ store' = Effect(op[t])
    /\ op' = [op EXCEPT ![t].done = TRUE]
    /\ UNCHANGED <<buf, ended>>

WriteReturn(t) ==
    /\ op[t] # Idle /\ ~op[t].done
    /\ store' = Effect(op[t])
    /\ op' = [op EXCEPT ![t] = Idle]
    /\ UNCHANGED <<buf, ended>>

Return(t) ==
    /\ op[t] # Idle /\ op[t].done
    /\ op' = [op EXCEPT ![t] = Idle]
    /\ UNCHANGED <<store, buf, ended>>

Begin(t) ==
    /\ buf[t] = NoTxn
    /\ buf' = [buf EXCEPT ![t] = [k \in Keys |-> NoValue]]
    /\ ended' = [ended EXCEPT ![t] = "none"]
    /\ UNCHANGED <<store, op>>

(* Transaction put (x a value) or delete (x = Tomb) *)
Stage(t, k, x) ==
    /\ buf[t] # NoTxn
    /\ buf' = [buf EXCEPT ![t][k] = x]
    /\ UNCHANGED <<store, op, ended>>

Commit(t) ==
    /\ buf[t] # NoTxn
    /\ store' = [k \in Keys |-> CASE buf[t][k] \in Values -> buf[t][k]
                                  [] buf[t][k] = Tomb    -> NoValue
                                  [] OTHER               -> store[k]]
    /\ buf' = [buf EXCEPT ![t] = NoTxn]
    /\ ended' = [ended EXCEPT ![t] = "committed"]
    /\ UNCHANGED op

Rollback(t) ==
    /\ buf[t] # NoTxn
    /\ buf' = [buf EXCEPT ![t] = NoTxn]
    /\ ended' = [ended EXCEPT ![t] = "rolledback"]
    /\ UNCHANGED <<store, op>>

(* The process dies and is restarted: calls in progress and open           *)
(* transactions are gone, the contents are not.                            *)
Restart ==
    /\ op' = [t \in Threads |-> Idle]
    /\ buf' = [t \in Threads |-> NoTxn]
    /\ ended' = [t \in Threads |-> "none"]
    /\ UNCHANGED store

Next ==
    \/ \E t \in Threads, k \in Keys, v \in Values \cup {NoValue} :
          Call(t, k, v) \/ CallEffect(t, k, v)
    \/ \E t \in Threads : Write(t) \/ WriteReturn(t) \/ Return(t)
    \/ \E t \in Threads :
          \/ Begin(t) \/ Commit(t) \/ Rollback(t)
          \/ \E k \in Keys, x \in Values \cup {Tomb} : Stage(t, k, x)
    \/ Restart

Spec == Init /\ [][Next]_<<store, op, buf, ended>>
=============================================================================
