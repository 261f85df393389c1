------------------------------- MODULE MQueue -------------------------------
(***************************************************************************)
(* src/src/mqueue/mqueue.c: a queue shared by publisher threads and one    *)
(* consumer thread per subscription, guarded by queue->lock and signalled  *)
(* through queue->cond.  A consumer dequeues under the lock, then (lock    *)
(* released) either runs its handler, if the topic is its own, or takes    *)
(* the lock again to put the message back.  mqueue_unsubscribe clears      *)
(* consumer->active, broadcasts, joins the thread and unlinks it.          *)
(*                                                                         *)
(* A message is [seq, topic, prio]: seq is total_published after its       *)
(* publish (the order publishes took the lock); payload and id are left    *)
(* out.  Spurious wake-ups of pthread_cond_wait are not modelled: the      *)
(* consumer re-checks its condition in a loop, so they only add stutter.   *)
(***************************************************************************)
EXTENDS Naturals, Sequences, FiniteSets, SequencesExt

CONSTANTS Publishers, Consumers, Topics,
          Script,       \* Script[p]: the <<topic, priority>> pairs publisher p sends, in order
          TopicOf,      \* TopicOf[c]: the topic consumer c subscribed to
          Unsubscribes, \* the consumers that some thread unsubscribes
          Late,         \* the consumers whose mqueue_subscribe runs while the queue is in use
          Admin,        \* the mqueue_reject and mqueue_clear calls of one more thread, in order
          Ordering,     \* ordering given to mqueue_create
          NoOne, NoMsg

ASSUME /\ Ordering \in {"none", "fifo", "priority"}
       /\ Unsubscribes \subseteq Consumers /\ Late \subseteq Consumers
       /\ Admin \in Seq({"reject", "clear"})

VARIABLES queue, mutex, waiting, sent, published,
          cpc, held, active, consumed, tmp,
          upc,
          apc,        \* the admin thread: how many of its calls have returned
          rejected,   \* queue->total_rejected
          delivered,  \* ghost: messages handed to a handler, in order
          cleared     \* ghost: seqs of the messages mqueue_clear destroyed

vars == <<queue, mutex, waiting, sent, published, cpc, held, active, consumed, tmp, upc,
          apc, rejected, delivered, cleared>>

MaxMsgs == SumSet({Len(Script[p]) : p \in Publishers}) + Cardinality(Publishers)
Msg == [seq : 1..MaxMsgs, topic : Topics, prio : Nat]

(* enqueue_message: FIFO/none append at the tail; PRIORITY inserts before   *)
(* the first node whose priority is strictly lower                          *)
Enqueue(q, m) ==
    LET i == SelectInSeq(q, LAMBDA x : x.prio < m.prio)
    IN IF Ordering = "priority" /\ i # 0 THEN InsertAt(q, i, m) ELSE Append(q, m)

Free == mutex = NoOne
-----------------------------------------------------------------------------
(* mqueue_create, then mqueue_subscribe for every consumer not in Late *)
Init ==
    /\ queue = <<>> /\ mutex = NoOne /\ waiting = {}
    /\ sent = [p \in Publishers |-> 0] /\ published = 0
    /\ cpc = [c \in Consumers |-> IF c \in Late THEN "none" ELSE "top"]
    /\ held = [c \in Consumers |-> NoMsg]
    /\ active = [c \in Consumers |-> c \notin Late]
    /\ consumed = 0 /\ tmp = [c \in Consumers |-> 0]
    /\ upc = [c \in Consumers |-> IF c \in Late THEN "none" ELSE "subscribed"]
    /\ apc = 0 /\ rejected = 0
    /\ delivered = <<>> /\ cleared = {}

(* mqueue_publish_with_priority: lock, enqueue, total_published++,        *)
(* broadcast, unlock                                                        *)
Publish(p) ==
    /\ sent[p] < Len(Script[p]) /\ Free
    /\ LET s == Script[p][sent[p] + 1]
       IN queue' = Enqueue(queue, [seq |-> published + 1, topic |-> s[1], prio |-> s[2]])
    /\ published' = published + 1
    /\ sent' = [sent EXCEPT ![p] = @ + 1]
    /\ waiting' = {}
    /\ UNCHANGED <<mutex, cpc, held, active, consumed, tmp, upc, delivered, apc, rejected, cleared>>

(* consumer_thread, loop head: while (consumer->active) pthread_mutex_lock *)
Top(c) ==
    /\ cpc[c] = "top"
    /\ cpc' = [cpc EXCEPT ![c] = IF active[c] THEN "lock" ELSE "exited"]
    /\ UNCHANGED <<queue, mutex, waiting, sent, published, held, active, consumed, tmp, upc, delivered, apc, rejected, cleared>>

Lock(c) ==
    /\ cpc[c] = "lock" /\ Free
    /\ mutex' = c
    /\ cpc' = [cpc EXCEPT ![c] = "check"]
    /\ UNCHANGED <<queue, waiting, sent, published, held, active, consumed, tmp, upc, delivered, apc, rejected, cleared>>

(* A plausible bug: the head node is read but queue->head not advanced *)
CheckPeek(c) ==
    /\ cpc[c] = "check"
    /\ \/ /\ queue = <<>> /\ active[c]
          /\ waiting' = waiting \cup {c}
          /\ cpc' = [cpc EXCEPT ![c] = "wait"]
          /\ UNCHANGED <<queue, held>>
       \/ /\ ~active[c]
          /\ cpc' = [cpc EXCEPT ![c] = "exited"]
          /\ UNCHANGED <<queue, held, waiting>>
       \/ /\ queue # <<>> /\ active[c]
          /\ held' = [held EXCEPT ![c] = Head(queue)]
          /\ cpc' = [cpc EXCEPT ![c] = "got"]
          /\ UNCHANGED <<queue, waiting>>
    /\ mutex' = NoOne
    /\ UNCHANGED <<sent, published, active, consumed, tmp, upc, delivered, apc, rejected, cleared>>

(* with the lock held: wait while empty and active; leave if inactive;     *)
(* otherwise dequeue the head and unlock                                   *)
Check(c) ==
    /\ cpc[c] = "check"
    /\ \/ /\ queue = <<>> /\ active[c]
          /\ waiting' = waiting \cup {c}
          /\ cpc' = [cpc EXCEPT ![c] = "wait"]
          /\ UNCHANGED <<queue, held>>
       \/ /\ ~active[c]
          /\ cpc' = [cpc EXCEPT ![c] = "exited"]
          /\ UNCHANGED <<queue, held, waiting>>
       \/ /\ queue # <<>> /\ active[c]
          /\ held' = [held EXCEPT ![c] = Head(queue)]
          /\ queue' = Tail(queue)
          /\ cpc' = [cpc EXCEPT ![c] = "got"]
          /\ UNCHANGED waiting
    /\ mutex' = NoOne
    /\ UNCHANGED <<sent, published, active, consumed, tmp, upc, delivered, apc, rejected, cleared>>

(* pthread_cond_wait returns after a broadcast, with the lock re-taken *)
Wake(c) ==
    /\ cpc[c] = "wait" /\ c \notin waiting /\ Free
    /\ mutex' = c
    /\ cpc' = [cpc EXCEPT ![c] = "check"]
    /\ UNCHANGED <<queue, waiting, sent, published, held, active, consumed, tmp, upc, delivered, apc, rejected, cleared>>

(* the ghost record of a delivery: the message and the consumer whose     *)
(* handler ran                                                             *)
Delivery(m, c) == [seq |-> m.seq, topic |-> m.topic, prio |-> m.prio, by |-> c]

(* own topic: run the handler (the message is delivered) *)
Handle(c) ==
    /\ cpc[c] = "got" /\ held[c].topic = TopicOf[c]
    /\ delivered' = Append(delivered, Delivery(held[c], c))
    /\ cpc' = [cpc EXCEPT ![c] = "count"]
    /\ UNCHANGED <<queue, mutex, waiting, sent, published, held, active, consumed, tmp, upc, apc, rejected, cleared>>

(* queue->total_consumed++ outside the lock: a load and a store *)
CountLoad(c) ==
    /\ cpc[c] = "count"
    /\ tmp' = [tmp EXCEPT ![c] = consumed]
    /\ cpc' = [cpc EXCEPT ![c] = "store"]
    /\ UNCHANGED <<queue, mutex, waiting, sent, published, held, active, consumed, upc, delivered, apc, rejected, cleared>>

(* ... then message_destroy and free the node *)
CountStore(c) ==
    /\ cpc[c] = "store"
    /\ consumed' = tmp[c] + 1
    /\ held' = [held EXCEPT ![c] = NoMsg]
    /\ cpc' = [cpc EXCEPT ![c] = "top"]
    /\ UNCHANGED <<queue, mutex, waiting, sent, published, active, tmp, upc, delivered, apc, rejected, cleared>>

(* another topic: lock, enqueue_message the node again, unlock, continue *)
Requeue(c) ==
    /\ cpc[c] = "got" /\ held[c].topic # TopicOf[c] /\ Free
    /\ queue' = Enqueue(queue, held[c])
    /\ held' = [held EXCEPT ![c] = NoMsg]
    /\ cpc' = [cpc EXCEPT ![c] = "top"]
    /\ UNCHANGED <<mutex, waiting, sent, published, active, consumed, tmp, upc, delivered, apc, rejected, cleared>>

(* mqueue_unsubscribe(c): consumer->active = 0 (no lock) ... *)
Deactivate(c) ==
    /\ c \in Unsubscribes /\ upc[c] = "subscribed"
    /\ active' = [active EXCEPT ![c] = FALSE]
    /\ upc' = [upc EXCEPT ![c] = "deactivated"]
    /\ UNCHANGED <<queue, mutex, waiting, sent, published, cpc, held, consumed, tmp, delivered, apc, rejected, cleared>>

(* A plausible bug: the broadcast is left out of mqueue_unsubscribe *)
BroadcastSkipped(c) ==
    /\ upc[c] = "deactivated" /\ Free
    /\ upc' = [upc EXCEPT ![c] = "joining"]
    /\ UNCHANGED <<queue, mutex, waiting, sent, published, cpc, held, active, consumed, tmp, delivered, apc, rejected, cleared>>

(* ... lock, broadcast, unlock ... *)
Broadcast(c) ==
    /\ upc[c] = "deactivated" /\ Free
    /\ waiting' = {}
    /\ upc' = [upc EXCEPT ![c] = "joining"]
    /\ UNCHANGED <<queue, mutex, sent, published, cpc, held, active, consumed, tmp, delivered, apc, rejected, cleared>>

(* ... pthread_join, then unlink from queue->consumers under the lock *)
Join(c) ==
    /\ upc[c] = "joining" /\ cpc[c] = "exited" /\ Free
    /\ upc' = [upc EXCEPT ![c] = "gone"]
    /\ UNCHANGED <<queue, mutex, waiting, sent, published, cpc, held, active, consumed, tmp, delivered, apc, rejected, cleared>>

(* mqueue_subscribe(c) while the queue is in use: active = 1, link the    *)
(* consumer under the lock, then pthread_create its consumer_thread        *)
Subscribe(c) ==
    /\ upc[c] = "none" /\ Free
    /\ active' = [active EXCEPT ![c] = TRUE]
    /\ upc' = [upc EXCEPT ![c] = "subscribed"]
    /\ cpc' = [cpc EXCEPT ![c] = "top"]
    /\ UNCHANGED <<queue, mutex, waiting, sent, published, held, consumed, tmp, apc, rejected, delivered, cleared>>
-----------------------------------------------------------------------------
(* mqueue_reject: the requeue flag is ignored; lock, total_rejected++, unlock *)
Reject ==
    /\ apc < Len(Admin) /\ Admin[apc + 1] = "reject" /\ Free
    /\ rejected' = rejected + 1 /\ apc' = apc + 1
    /\ UNCHANGED <<queue, mutex, waiting, sent, published, cpc, held, active, consumed, tmp, upc, delivered, cleared>>

(* mqueue_clear: under the lock, destroy every queued message and reset    *)
(* head, tail and size; messages a consumer holds outside the lock stay    *)
Clear ==
    /\ apc < Len(Admin) /\ Admin[apc + 1] = "clear" /\ Free
    /\ cleared' = cleared \cup {queue[i].seq : i \in 1..Len(queue)}
    /\ queue' = <<>> /\ apc' = apc + 1
    /\ UNCHANGED <<mutex, waiting, sent, published, cpc, held, active, consumed, tmp, upc, rejected, delivered>>

AdminStep == Reject \/ Clear

ConsumerStep(c) ==
    Top(c) \/ Lock(c) \/ Check(c) \/ Wake(c) \/ Handle(c) \/ CountLoad(c) \/ CountStore(c) \/ Requeue(c)

UnsubscribeStep(c) == Deactivate(c) \/ Broadcast(c) \/ Join(c)

SubscriptionStep(c) == Subscribe(c) \/ UnsubscribeStep(c)

(* Every thread has returned or is blocked for good: the program is done *)
Finished ==
    /\ \A p \in Publishers : sent[p] = Len(Script[p])
    /\ \A c \in Unsubscribes : upc[c] = "gone"
    /\ apc = Len(Admin) /\ \A c \in Late : upc[c] # "none"
    /\ UNCHANGED vars

Next ==
    \/ \E p \in Publishers : Publish(p)
    \/ \E c \in Consumers : ConsumerStep(c) \/ SubscriptionStep(c)
    \/ AdminStep
    \/ Finished

(* Each thread that can run eventually runs (the OS scheduler); a thread   *)
(* waiting for the mutex or the condition variable gets no more than that. *)
(* The calls in Script, Late, Unsubscribes and Admin are the program's:    *)
(* each thread makes them once it runs.                                    *)
Fairness ==
    /\ \A p \in Publishers : WF_vars(Publish(p))
    /\ \A c \in Consumers : WF_vars(ConsumerStep(c)) /\ WF_vars(SubscriptionStep(c))
    /\ WF_vars(AdminStep)

Spec == Init /\ [][Next]_vars /\ Fairness
-----------------------------------------------------------------------------
TypeOK ==
    /\ queue \in Seq(Msg) /\ mutex \in Consumers \cup {NoOne} /\ waiting \subseteq Consumers
    /\ cpc \in [Consumers -> {"none", "top", "lock", "check", "wait", "got", "count", "store", "exited"}]
    /\ held \in [Consumers -> Msg \cup {NoMsg}] /\ active \in [Consumers -> BOOLEAN]
    /\ apc \in 0..Len(Admin) /\ rejected \in 0..Len(Admin) /\ cleared \subseteq 1..MaxMsgs
    /\ upc \in [Consumers -> {"none", "subscribed", "deactivated", "joining", "gone"}]

(* No message is lost or duplicated: each published message is, at every  *)
(* moment, in exactly one place (the queue, a consumer's hands between     *)
(* dequeue and requeue or free, delivered, or destroyed by mqueue_clear),  *)
(* and is delivered at most once, although consumers take and put back     *)
(* other topics' messages and a clear can run while a consumer holds one.  *)
NoLossNoDup ==
    \A n \in 1..published :
        LET InQ == {i \in 1..Len(queue) : queue[i].seq = n}
            InH == {c \in Consumers : held[c] # NoMsg /\ held[c].seq = n /\ cpc[c] = "got"}
            InD == {i \in 1..Len(delivered) : delivered[i].seq = n}
            InC == IF n \in cleared THEN 1 ELSE 0
        IN Cardinality(InQ) + Cardinality(InH) + Cardinality(InD) + InC = 1

(* ORDERING_FIFO (mqueue.h): messages of one topic reach its handler in   *)
(* the order they were published.                                          *)
TopicFifo ==
    Ordering = "fifo" =>
        \A i, j \in 1..Len(delivered) :
            i < j /\ delivered[i].topic = delivered[j].topic => delivered[i].seq < delivered[j].seq

(* mqueue_get_stats: once no handler is running, total_consumed equals the *)
(* number of messages handed to handlers.                                  *)
ConsumedCounted ==
    (\A c \in Consumers : cpc[c] \notin {"count", "store"}) => consumed = Len(delivered)

(* mqueue_unsubscribe returns: the consumer thread is always woken and     *)
(* leaves its loop, so pthread_join does not block for ever.               *)
UnsubscribeReturns == <>(\A c \in Unsubscribes : upc[c] = "gone")
==============================================================================
