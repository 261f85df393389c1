------------------------------ MODULE Services -------------------------------
(***************************************************************************)
(* src/src/distributed/distributed.c: the circuit breaker, the service     *)
(* registry, the rate limiter and the metrics collector, each used by      *)
(* several threads, and retry_with_policy.  They share nothing but the     *)
(* process, so one specification holds them side by side; every step       *)
(* belongs to exactly one of them.                                         *)
(***************************************************************************)
EXTENDS Naturals, Sequences, FiniteSets, SequencesExt

CONSTANTS Callers,       \* threads calling circuit_breaker_call
          Threshold,     \* failure_threshold
          Timeout,       \* timeout_ms, in clock ticks
          MaxFailures,   \* bound on failure_count
          Registrars,    \* threads calling service_register once each
          MaxIds,
          Clients,       \* client ids passed to rate_limiter_allow
          MaxRequests, WindowMs, MaxTime,
          None,
          Reporters,     \* threads reporting to one metrics collector
          MScript        \* MScript[r]: r's calls, [op, name, x] records

ASSUME Threshold \in Nat \ {0} /\ MaxFailures >= Threshold

-----------------------------------------------------------------------------
(* Circuit breaker.  The breaker's mutex is held only inside each of the   *)
(* steps below; func(arg) runs between them without it.  The clock is      *)
(* kept as cbAge = min(now - last_failure_time, Timeout + 1): the code     *)
(* only compares that difference with timeout_ms.                          *)
VARIABLES cbState, cbFailures, cbAge, cbPc, depUp,   \* circuit breaker
          srNextId, srPc, srTmp, services,            \* service registry
          now, rlStart, rlCount,                      \* rate limiter
          metrics, mLock, mPc, mCall, mFound          \* metrics collector

cbVars == <<cbState, cbFailures, cbAge, cbPc, depUp>>

CbInit ==
    /\ cbState = "closed" /\ cbFailures = 0 /\ cbAge = Timeout + 1
    /\ cbPc = [t \in Callers |-> "idle"]
    /\ depUp = FALSE

(* circuit_breaker_call up to func(arg): an OPEN breaker whose timeout     *)
(* has passed turns HALF_OPEN and lets the call through; within the        *)
(* timeout the call returns ERROR_TIMEOUT and changes nothing.             *)
CbEnter(t) ==
    /\ cbPc[t] = "idle"
    /\ cbState # "open" \/ cbAge > Timeout
    /\ cbState' = IF cbState = "open" THEN "half_open" ELSE cbState
    /\ cbPc' = [cbPc EXCEPT ![t] = "calling"]
    /\ UNCHANGED <<cbFailures, cbAge, depUp>>

(* A plausible bug: a success does not close a HALF_OPEN breaker *)
CbSucceedStuck(t) ==
    /\ cbPc[t] = "calling"
    /\ cbPc' = [cbPc EXCEPT ![t] = "idle"]
    /\ UNCHANGED <<cbState, cbFailures, cbAge, depUp>>

(* func returned SUCCESS: circuit_breaker_record_success.  Before the      *)
(* dependency recovers a call may succeed or fail; after, it succeeds.     *)
CbSucceed(t) ==
    /\ cbPc[t] = "calling"
    /\ IF cbState = "half_open"
       THEN cbState' = "closed" /\ cbFailures' = 0
       ELSE UNCHANGED <<cbState, cbFailures>>
    /\ cbPc' = [cbPc EXCEPT ![t] = "idle"]
    /\ UNCHANGED <<cbAge, depUp>>

(* func failed: circuit_breaker_record_failure *)
CbFail(t) ==
    /\ cbPc[t] = "calling" /\ ~depUp /\ cbFailures < MaxFailures
    /\ cbFailures' = cbFailures + 1
    /\ cbAge' = 0
    /\ cbState' = IF cbFailures + 1 >= Threshold THEN "open" ELSE cbState
    /\ cbPc' = [cbPc EXCEPT ![t] = "idle"]
    /\ UNCHANGED depUp

CbTick ==
    /\ cbAge <= Timeout /\ cbAge' = cbAge + 1
    /\ UNCHANGED <<cbState, cbFailures, cbPc, depUp>>

(* The dependency behind func comes back for good *)
CbRecover ==
    /\ ~depUp /\ depUp' = TRUE
    /\ UNCHANGED <<cbState, cbFailures, cbAge, cbPc>>

CbNext ==
    \/ \E t \in Callers : CbEnter(t) \/ CbSucceed(t) \/ CbFail(t)
    \/ CbTick \/ CbRecover

-----------------------------------------------------------------------------
(* Service registry.  service_register increments registry->next_id while  *)
(* formatting the id, before it takes registry->lock: a load and a store   *)
(* that another registrar can interleave with.  The node is then pushed    *)
(* at the head of the list under the write lock.                           *)
srVars == <<srNextId, srPc, srTmp, services>>

SrInit ==
    /\ srNextId = 1
    /\ srPc = [r \in Registrars |-> "load"]
    /\ srTmp = [r \in Registrars |-> 0]
    /\ services = <<>>

SrLoad(r) ==
    /\ srPc[r] = "load"
    /\ srTmp' = [srTmp EXCEPT ![r] = srNextId]
    /\ srPc' = [srPc EXCEPT ![r] = "store"]
    /\ UNCHANGED <<srNextId, services>>

SrStore(r) ==
    /\ srPc[r] = "store" /\ srTmp[r] < MaxIds
    /\ srNextId' = srTmp[r] + 1
    /\ srPc' = [srPc EXCEPT ![r] = "link"]
    /\ UNCHANGED <<srTmp, services>>

(* healthy = 1, then node->next = services; services = node *)
SrLink(r) ==
    /\ srPc[r] = "link"
    /\ services' = <<[id |-> srTmp[r], owner |-> r]>> \o services
    /\ srPc' = [srPc EXCEPT ![r] = "done"]
    /\ UNCHANGED <<srNextId, srTmp>>

(* service_deregister(id): unlink the first node whose id matches *)
SrDeregister(id) ==
    LET i == SelectInSeq(services, LAMBDA s : s.id = id) IN
    /\ i # 0
    /\ services' = RemoveAt(services, i)
    /\ UNCHANGED <<srNextId, srPc, srTmp>>

SrNext ==
    \/ \E r \in Registrars : SrLoad(r) \/ SrStore(r) \/ SrLink(r)
    \/ \E id \in 1..MaxIds : SrDeregister(id)

-----------------------------------------------------------------------------
(* Rate limiter.  rate_limiter_allow runs wholly under limiter->lock.      *)
(* rlStart[c] = None: no entry for c in limiter->entries.                  *)
rlVars == <<now, rlStart, rlCount>>

RlInit ==
    /\ now = 0
    /\ rlStart = [c \in Clients |-> None]
    /\ rlCount = [c \in Clients |-> 0]

(* find or create the entry, restart the window once more than window_ms  *)
(* has passed, then allow (count++) below max_requests or refuse           *)
RlAllow(c) ==
    LET start == IF rlStart[c] = None THEN now ELSE rlStart[c]
        fresh == now - start > WindowMs
        count == IF rlStart[c] = None \/ fresh THEN 0 ELSE rlCount[c]
    IN /\ rlStart' = [rlStart EXCEPT ![c] = IF fresh THEN now ELSE start]
       /\ rlCount' = [rlCount EXCEPT ![c] = IF count < MaxRequests THEN count + 1 ELSE count]
       /\ UNCHANGED now

(* rate_limiter_reset: unlink and free the client's entry *)
RlReset(c) ==
    /\ rlStart[c] # None
    /\ rlStart' = [rlStart EXCEPT ![c] = None]
    /\ rlCount' = [rlCount EXCEPT ![c] = 0]
    /\ UNCHANGED now

RlTick ==
    /\ now < MaxTime /\ now' = now + 1
    /\ UNCHANGED <<rlStart, rlCount>>

RlNext == \/ \E c \in Clients : RlAllow(c) \/ RlReset(c)
          \/ RlTick

-----------------------------------------------------------------------------
(* Metrics collector.  collector->metrics is a list, head first, of        *)
(* [name, num, den]: the double value is num / den, exact for the values   *)
(* the calls produce.  Each call takes collector->lock, runs               *)
(* find_or_create_metric (scan, else push a new node at the head) and      *)
(* updates the value before it unlocks; the scan and the update are two    *)
(* steps so that what the lock excludes is visible.                        *)
mVars == <<metrics, mLock, mPc, mCall, mFound>>

MInit ==
    /\ metrics = <<>> /\ mLock = None
    /\ mPc = [r \in Reporters |-> "idle"]
    /\ mCall = [r \in Reporters |-> 1]
    /\ mFound = [r \in Reporters |-> FALSE]

MArgs(r) == MScript[r][mCall[r]]

(* A plausible bug: the call does not take the lock *)
MLockSkipped(r) ==
    /\ mPc[r] = "idle" /\ mCall[r] <= Len(MScript[r])
    /\ mPc' = [mPc EXCEPT ![r] = "find"]
    /\ UNCHANGED <<metrics, mLock, mCall, mFound>>

(* pthread_mutex_lock(&collector->lock) *)
MLock(r) ==
    /\ mPc[r] = "idle" /\ mCall[r] <= Len(MScript[r])
    /\ mLock = None
    /\ mLock' = r /\ mPc' = [mPc EXCEPT ![r] = "find"]
    /\ UNCHANGED <<metrics, mCall, mFound>>

(* find_or_create_metric: the strcmp scan of the list *)
MFind(r) ==
    /\ mPc[r] = "find"
    /\ mFound' = [mFound EXCEPT ![r] = \E i \in 1..Len(metrics) : metrics[i].name = MArgs(r).name]
    /\ mPc' = [mPc EXCEPT ![r] = "update"]
    /\ UNCHANGED <<metrics, mLock, mCall>>

(* the value after metrics_counter_inc (+= 1.0), metrics_gauge_set (= x)   *)
(* or metrics_histogram_observe ((value + x) / 2.0)                        *)
MValue(v, a) ==
    CASE a.op = "inc"     -> [v EXCEPT !.num = v.num + v.den]
      [] a.op = "gauge"   -> [num |-> a.x, den |-> 1]
      [] a.op = "observe" -> [num |-> v.num + a.x * v.den, den |-> 2 * v.den]

(* create the node at the head if the scan missed (calloc: value 0.0),     *)
(* update the first node of that name, then unlock                         *)
MUpdate(r) ==
    LET a    == MArgs(r)
        list == IF mFound[r] THEN metrics
                ELSE <<[name |-> a.name, num |-> 0, den |-> 1]>> \o metrics
        i    == SelectInSeq(list, LAMBDA m : m.name = a.name)
        v    == MValue([num |-> list[i].num, den |-> list[i].den], a)
    IN /\ mPc[r] = "update"
       /\ metrics' = [list EXCEPT ![i] = [name |-> a.name, num |-> v.num, den |-> v.den]]
       /\ mLock' = None
       /\ mPc' = [mPc EXCEPT ![r] = "idle"]
       /\ mCall' = [mCall EXCEPT ![r] = @ + 1]
       /\ UNCHANGED mFound

MNext == \E r \in Reporters : MLock(r) \/ MFind(r) \/ MUpdate(r)

-----------------------------------------------------------------------------
(* retry_with_policy: calls func up to max_retries + 1 times, stopping at  *)
(* the first SUCCESS, and sleeps delay_ms between attempts, the delay      *)
(* becoming (uint64_t)(delay_ms * backoff_multiplier) after each sleep.    *)
(* policy.num / policy.den is the multiplier; outs[k] is what the k-th     *)
(* call of func returns.  The result is the last call's result, the number *)
(* of calls and the delays slept.  With max_retries < 0 func is never      *)
(* called and the uninitialized `result` is returned: "Uninit".            *)
RECURSIVE RetryFromSleepLast(_, _, _, _, _, _)
(* A plausible bug: the loop also sleeps after the last failed attempt     *)
(* (attempt <= max_retries)                                                *)
RetryFromSleepLast(policy, outs, attempt, delay, result, sleeps) ==
    IF attempt > policy.maxRetries
    THEN [result |-> result, calls |-> attempt, sleeps |-> sleeps]
    ELSE LET r == outs[attempt + 1] IN
         IF r = "SUCCESS" THEN [result |-> r, calls |-> attempt + 1, sleeps |-> sleeps]
         ELSE RetryFromSleepLast(policy, outs, attempt + 1, (delay * policy.num) \div policy.den,
                                 r, Append(sleeps, delay))

RECURSIVE RetryFrom(_, _, _, _, _, _)
RetryFrom(policy, outs, attempt, delay, result, sleeps) ==
    IF attempt > policy.maxRetries
    THEN [result |-> result, calls |-> attempt, sleeps |-> sleeps]
    ELSE LET r == outs[attempt + 1] IN
         IF r = "SUCCESS" THEN [result |-> r, calls |-> attempt + 1, sleeps |-> sleeps]
         ELSE IF attempt < policy.maxRetries
              THEN RetryFrom(policy, outs, attempt + 1, (delay * policy.num) \div policy.den,
                             r, Append(sleeps, delay))
              ELSE RetryFrom(policy, outs, attempt + 1, delay, r, sleeps)

RetryWithPolicy(policy, outs) == RetryFrom(policy, outs, 0, policy.initial, "Uninit", <<>>)

-----------------------------------------------------------------------------
vars == <<cbVars, srVars, rlVars, mVars>>

Init == CbInit /\ SrInit /\ RlInit /\ MInit

(* a step of the breaker alone *)
Cb(A) == A /\ UNCHANGED <<srVars, rlVars, mVars>>

(* a step of the metrics collector alone *)
M(A) == A /\ UNCHANGED <<cbVars, srVars, rlVars>>

Next ==
    \/ Cb(CbNext)
    \/ SrNext /\ UNCHANGED <<cbVars, rlVars, mVars>>
    \/ RlNext /\ UNCHANGED <<cbVars, srVars, mVars>>
    \/ M(MNext)

(* Callers keep calling and the clock keeps running (OS scheduling); the  *)
(* dependency is not assumed to recover.  No property here needs the     *)
(* registrars, the rate limiter's clients or the reporters to progress.    *)
Fairness ==
    /\ \A t \in Callers : WF_vars(Cb(CbEnter(t))) /\ WF_vars(Cb(CbSucceed(t) \/ CbFail(t)))
    /\ WF_vars(Cb(CbTick))

Spec == Init /\ [][Next]_vars /\ Fairness
-----------------------------------------------------------------------------
TypeOK ==
    /\ cbState \in {"closed", "open", "half_open"} /\ cbFailures \in 0..MaxFailures
    /\ cbAge \in 0..Timeout + 1 /\ cbPc \in [Callers -> {"idle", "calling"}]
    /\ srNextId \in 1..MaxIds /\ services \in Seq([id : 1..MaxIds, owner : Registrars])
    /\ rlCount \in [Clients -> 0..MaxRequests]
    /\ mLock \in Reporters \cup {None} /\ mPc \in [Reporters -> {"idle", "find", "update"}]
    /\ \A r \in Reporters : mCall[r] \in 1..Len(MScript[r]) + 1

(* Once the dependency is back, the breaker ends up CLOSED and stays so:   *)
(* an OPEN breaker lets a trial call through after timeout_ms, and that    *)
(* call's success closes it, even with other callers' late results.       *)
BreakerRecloses == <>[](depUp => cbState = "closed")

(* service_register hands every registered service its own service_id, so *)
(* service_deregister and service_heartbeat address exactly one service.   *)
ServiceIdsUnique ==
    \A i, j \in 1..Len(services) : i # j => services[i].id # services[j].id

MCalls == UNION {{<<r, k>> : k \in 1..Len(MScript[r])} : r \in Reporters}
(* names only ever passed to metrics_counter_inc *)
CounterNames ==
    {MScript[c[1]][c[2]].name : c \in MCalls}
        \ {MScript[c[1]][c[2]].name : c \in {d \in MCalls : MScript[d[1]][d[2]].op # "inc"}}
(* metrics_counter_inc calls on n that have returned *)
IncsDone(n) ==
    Cardinality({c \in MCalls : c[2] < mCall[c[1]] /\ MScript[c[1]][c[2]] = [op |-> "inc", name |-> n, x |-> 0]})

(* Whatever the interleaving of the reporters, collector->metrics holds    *)
(* one node per name (find_or_create_metric never creates a second), and   *)
(* a counter's value is the number of metrics_counter_inc calls on it that *)
(* have returned: no increment is lost or split over two nodes.            *)
MetricsConsistent ==
    /\ \A i, j \in 1..Len(metrics) : i # j => metrics[i].name # metrics[j].name
    /\ \A n \in CounterNames :
          LET i == SelectInSeq(metrics, LAMBDA m : m.name = n)
          IN  IF i = 0 THEN IncsDone(n) = 0 ELSE metrics[i].num = IncsDone(n) * metrics[i].den

(* The policies and call outcomes checked: max_retries 0..2, delays 0..2,  *)
(* multipliers 1.5 and 2, every pattern of three results.                  *)
RetryPolicies ==
    [maxRetries : 0..2, initial : 0..2, num : {3, 4}, den : {2}]
RetryOutcomes == [1..3 -> {"SUCCESS", "ERROR"}]

(* retry_with_policy calls func until the first SUCCESS and at most        *)
(* max_retries + 1 times, returns the last call's result, and sleeps only  *)
(* between two calls, delay_ms never shrinking when the multiplier is at   *)
(* least 1.                                                                *)
RetryAsDocumented ==
    \A p \in RetryPolicies, outs \in RetryOutcomes :
        LET res   == RetryWithPolicy(p, outs)
            wins  == {k \in 1..p.maxRetries + 1 : outs[k] = "SUCCESS"}
            calls == IF wins = {} THEN p.maxRetries + 1 ELSE CHOOSE k \in wins : \A j \in wins : k <= j
        IN /\ res.calls = calls
           /\ res.result = outs[calls]
           /\ Len(res.sleeps) = calls - 1
           /\ \A k \in 1..Len(res.sleeps) - 1 : res.sleeps[k] <= res.sleeps[k + 1]
==============================================================================
