------------------------------- MODULE Cache --------------------------------
(***************************************************************************)
(* src/src/cache/cache.c: an LRU/LFU cache with per-entry TTL.  Every      *)
(* public call runs entirely under cache->lock (the write lock, except     *)
(* cache_exists, which only reads), so each call is one atomic step.       *)
(*                                                                         *)
(* Entries are identified by the id of their allocation.  The LRU list is  *)
(* a sequence of ids, head = most recently used.  The hash table is        *)
(* abstracted to chain[k]: the ids of entries with key k in bucket order   *)
(* (entries are pushed at the bucket head, so newest first); other keys    *)
(* that share the bucket do not change what find_entry returns for k.      *)
(* get_timestamp_ms reads CLOCK_REALTIME, which can step backwards.        *)
(***************************************************************************)
EXTENDS Naturals, Sequences, FiniteSets, SequencesExt, Functions

CONSTANTS Keys, Values, NoValue,
          Ttls,        \* ttl_ms arguments callers pass (0 = no expiry)
          MaxSize,     \* max_size given to cache_create
          Policies,    \* eviction policies caches are created with
          ClockSteps,  \* TRUE: the realtime clock may be set back
          ClockBits,   \* width of the timestamp arithmetic in the model
          MaxTime, MaxIds, MaxAcc

ASSUME MaxSize \in Nat \ {0} /\ Policies \subseteq {"lru", "lfu"}
ASSUME \A t \in Ttls : t < 2^ClockBits

VARIABLES policy, lru, entry, chain, nextId, now,
          latest   \* ghost: value of the last cache_put per key, NoValue after delete/clear

vars == <<policy, lru, entry, chain, nextId, now, latest>>

Entry == [key : Keys, val : Values, ts : 0..MaxTime, ttl : Ttls, acc : 0..MaxAcc]

(* now - entry->timestamp in uint64_t arithmetic *)
Elapsed(ts) == (now - ts) % (2^ClockBits)

Expired(e) == e.ttl > 0 /\ Elapsed(e.ts) > e.ttl

(* find_entry: the first entry of k in its bucket; NULL (0) if it expired *)
FindEntry(k) ==
    IF chain[k] = <<>> \/ Expired(entry[Head(chain[k])]) THEN 0 ELSE Head(chain[k])

Cur == [lru |-> lru, entry |-> entry, chain |-> chain]

(* move_to_head / add_to_head on the LRU list *)
MoveToHead(s, id) == <<id>> \o Remove(s, id)

(* remove_entry: unlink from its bucket and from the list, free it *)
RemoveEntry(c, id) ==
    [lru   |-> Remove(c.lru, id),
     entry |-> Restrict(c.entry, DOMAIN c.entry \ {id}),
     chain |-> [c.chain EXCEPT ![c.entry[id].key] = Remove(@, id)]]

(* find_victim: the tail for LRU; for LFU the entry nearest the head with  *)
(* the smallest access_count (the scan replaces only on a strictly smaller *)
(* count)                                                                   *)
Victim(c) ==
    IF policy = "lru" THEN c.lru[Len(c.lru)]
    ELSE LET m == Min({c.entry[i].acc : i \in ToSet(c.lru)})
         IN c.lru[SelectInSeq(c.lru, LAMBDA i : c.entry[i].acc = m)]

(* A plausible bug: evict only once the cache is over capacity *)
RECURSIVE EvictIfNeededLate(_)
EvictIfNeededLate(c) ==
    IF Len(c.lru) > MaxSize /\ c.lru # <<>>
    THEN EvictIfNeededLate(RemoveEntry(c, Victim(c))) ELSE c

(* evict_if_needed: while size >= max_size remove a victim (stop when none) *)
RECURSIVE EvictIfNeeded(_)
EvictIfNeeded(c) ==
    IF Len(c.lru) >= MaxSize /\ c.lru # <<>>
    THEN EvictIfNeeded(RemoveEntry(c, Victim(c))) ELSE c

Install(c) == lru' = c.lru /\ entry' = c.entry /\ chain' = c.chain
-----------------------------------------------------------------------------
Init ==
    /\ policy \in Policies
    /\ lru = <<>>
    /\ entry = [i \in {} |-> CHOOSE e \in Entry : TRUE]
    /\ chain = [k \in Keys |-> <<>>]
    /\ nextId = 1
    /\ now = 0
    /\ latest = [k \in Keys |-> NoValue]

(* cache_put_with_ttl, key found live: overwrite value, timestamp and ttl; *)
(* under LRU also move it to the head                                      *)
PutUpdate(k, v, ttl) ==
    LET id == FindEntry(k) IN
    /\ id # 0
    /\ entry' = [entry EXCEPT ![id].val = v, ![id].ts = now, ![id].ttl = ttl]
    /\ lru' = IF policy = "lru" THEN MoveToHead(lru, id) ELSE lru
    /\ latest' = [latest EXCEPT ![k] = v]
    /\ UNCHANGED <<policy, chain, nextId, now>>

(* cache_put_with_ttl, key not found (absent or expired): evict, then push *)
(* a new entry at the head of its bucket and of the list                   *)
PutInsert(k, v, ttl) ==
    LET c == EvictIfNeeded(Cur) IN
    /\ FindEntry(k) = 0 /\ nextId <= MaxIds
    /\ entry' = c.entry @@ (nextId :> [key |-> k, val |-> v, ts |-> now, ttl |-> ttl, acc |-> 0])
    /\ chain' = [c.chain EXCEPT ![k] = <<nextId>> \o @]
    /\ lru' = <<nextId>> \o c.lru
    /\ nextId' = nextId + 1
    /\ latest' = [latest EXCEPT ![k] = v]
    /\ UNCHANGED <<policy, now>>

(* cache_get hit: access_count++, under LRU move to head.  A miss changes *)
(* only the statistics, which are not modelled.                            *)
GetHit(k) ==
    LET id == FindEntry(k) IN
    /\ id # 0 /\ entry[id].acc < MaxAcc
    /\ entry' = [entry EXCEPT ![id].acc = @ + 1]
    /\ lru' = IF policy = "lru" THEN MoveToHead(lru, id) ELSE lru
    /\ UNCHANGED <<policy, chain, nextId, now, latest>>

(* cache_delete of a live key; an expired or absent key returns NOT_FOUND *)
Delete(k) ==
    /\ FindEntry(k) # 0
    /\ Install(RemoveEntry(Cur, FindEntry(k)))
    /\ latest' = [latest EXCEPT ![k] = NoValue]
    /\ UNCHANGED <<policy, nextId, now>>

(* cache_clear: free every entry on the list, zero the hash table *)
Clear ==
    /\ lru' = <<>>
    /\ entry' = [i \in {} |-> CHOOSE e \in Entry : TRUE]
    /\ chain' = [k \in Keys |-> <<>>]
    /\ latest' = [k \in Keys |-> NoValue]
    /\ UNCHANGED <<policy, nextId, now>>

(* The realtime clock advances, or (ClockSteps) is set back *)
Tick ==
    /\ now < MaxTime /\ now' = now + 1
    /\ UNCHANGED <<policy, lru, entry, chain, nextId, latest>>

ClockBack ==
    /\ ClockSteps /\ now' \in 0..(now - 1)
    /\ UNCHANGED <<policy, lru, entry, chain, nextId, latest>>

Next ==
    \/ \E k \in Keys, v \in Values, ttl \in Ttls : PutUpdate(k, v, ttl) \/ PutInsert(k, v, ttl)
    \/ \E k \in Keys : GetHit(k) \/ Delete(k)
    \/ Clear \/ Tick \/ ClockBack

Spec == Init /\ [][Next]_vars
-----------------------------------------------------------------------------
TypeOK ==
    /\ policy \in Policies
    /\ lru \in Seq(1..MaxIds)
    /\ DOMAIN entry \subseteq 1..MaxIds /\ \A i \in DOMAIN entry : entry[i] \in Entry
    /\ chain \in [Keys -> Seq(1..MaxIds)]
    /\ nextId \in 1..MaxIds + 1 /\ now \in 0..MaxTime
    /\ latest \in [Keys -> Values \cup {NoValue}]

(* The list and the hash chains hold exactly the allocated entries, each   *)
(* once and under its own key, and the cache never holds more than         *)
(* max_size entries (cache_put evicts before it inserts).                  *)
CacheWellFormed ==
    /\ Len(lru) <= MaxSize
    /\ Len(lru) = Cardinality(ToSet(lru))
    /\ ToSet(lru) = DOMAIN entry
    /\ \A k \in Keys : \A i \in 1..Len(chain[k]) :
          entry[chain[k][i]].key = k /\ \A j \in 1..Len(chain[k]) : chain[k][j] = chain[k][i] => i = j
    /\ UNION {ToSet(chain[k]) : k \in Keys} = DOMAIN entry

(* cache_get never returns a stale value: whenever cache_get(k) would hit, *)
(* it returns the value of the last cache_put(k), and nothing after a      *)
(* cache_delete(k) or cache_clear.                                         *)
LiveValueIsLatest ==
    \A k \in Keys : FindEntry(k) # 0 => entry[FindEntry(k)].val = latest[k]
==============================================================================
