# TLA+ models of backend-in-c

This directory holds TLA+ models of the C sources under `src/src/`. TLC checks them.
`PROJECT.json` is the machine-readable index. It lists every component, every TLC run,
the mutants that show each property can fail, the source lines behind each definition,
the findings and the hazards.

## The system and its parts

| Part | Source | State | Concurrency | Status |
|---|---|---|---|---|
| Storage engine | `database/database.c` | hash table `db->table`, WAL file `wal.log`, `wal_fd`, `is_open`, `next_txn_id`, one `pthread_rwlock_t` | callers' threads | **modelled** (`KVStore`, `KVSpec`, `MCKVStore`) |
| LRU/LFU cache with TTL | `cache/cache.c` | doubly linked LRU list, hash buckets, TTL and access count per entry, rwlock | callers' threads | **modelled** (`Cache`) |
| Message queue | `mqueue/mqueue.c` | linked queue (FIFO or priority), consumer list, mutex + condvar | one thread per consumer | **partly** (`MQueue`, `MCMQueue`; not `mqueue_destroy`) |
| Distributed utilities | `distributed/distributed.c` | service registry, rate limiter, circuit breaker, retry, metrics | callers' threads | **partly** (`Services`, `AuthToken`, `MCServices`) |
| Web server | `webserver/webserver.c` | listening socket, `is_running` flag, server thread, one detached thread per client | main, server and client threads | **modelled** (`WebServer`, `MCWebServer`) |
| HTTP parser | `http/http_parser.c` | none (pure parsing and formatting) | none | **partly** (`HttpParser`: `http_request_parse`, against a reference; `HttpResponse`: response create, add_header, set_body, serialize) |
| HTTP status table | `http_status/http_status.c` | constant table | none | **modelled** (`HttpStatus`, checked by an ASSUME of `MCWebServer`) |
| Common helpers, TCP/UDP wrappers | `common.c`, `tcp_udp.c` | allocation wrappers / socket calls | none | not modelled: no logic of their own |
| Stubs | `auth`, `crypto`, `security`, `concurrency`, `cache_strategies`, `db_performance`, `latency_observability`, `network_serialization` | placeholders | — | not modelled |

The storage engine is the core that `spec.md` describes. The cache, the queue and the
distributed utilities are independent libraries beside it; none of them calls another. The web
server calls the HTTP parser from each client thread (`handle_client`), so `WebServer` extends
`HttpParser` and applies `Parse` to the bytes each client sends; it also extends `HttpResponse`,
whose `ResponseSerialize` is what each client thread hands to `send`. `MCWebServer` takes a
handler's reason phrase from `HttpStatus`.
The engine's parts interact as follows:

- `database_put` and `database_delete` take the write lock, append a record to the WAL
  (write and fsync, with both results ignored), apply the change to the table, and unlock.
- `database_get` and `database_exists` take the read lock.
- A transaction buffers writes in a private hash table, `txn->writes`, which has no lock.
- `transaction_commit` copies that table into `db->table` under the write lock. It writes nothing to the WAL.
- `database_checkpoint` truncates the WAL without taking the lock, and `database_close` calls it.
- `database_open` opens the WAL with `O_APPEND`. It then calls `database_recover`, which replays
  records onto the table as it stands. Replay stops at a short header or at a bad magic number.

## Modules

- **`KVStore.tla`** models `database.c`, including crashes.
  - **State:**
    - `disk` is the WAL, a sequence of records. A record's `cut` field says whether the record is
      whole, has a torn header, or has a torn body.
    - `table` is `db->table`, a function from keys to values or `NoValue`.
    - `walFd` and `isOpen` model `wal_fd >= 0` and `is_open`.
    - `nextTxnId` is `next_txn_id`.
    - `writer` and `readers` model the rwlock.
    - `pc` and `loc` hold each thread's program counter and local variables.
    - `txn` holds each thread's transaction: its id and its write set `writes`.
    - `intent` and `ended` are ghost state used only by the refinement mapping. `intent` is the overlay as
      the spec defines it, where a delete is a `Tomb`. `ended` records how the last transaction ended.
    - `restarts` counts restarts.
  - **Where actions are split:** an action is split only where the code releases or takes a lock,
    or where another thread can observe a partial state:
    - `PutBegin` and `DeleteBegin` run from the lock to the fsync. `ApplyMutation` updates the table and unlocks.
    - `BeginLock` and `BeginIncr` make up `database_begin_transaction`.
    - `CloseBegin` (the truncate) and `CloseEnd` (closing the fd) make up `database_close`.
    - `ReadBegin` and `ReadEnd` are a read under the read lock. `TxGetBegin` is a `transaction_get`
      that misses the overlay and falls through to the engine.
  - **Actions that are a single step:** `TxPut`, `TxDelete`, `Commit`, `Rollback`, `Open`, `Checkpoint`.
    - `Commit` is atomic because it holds the write lock for its whole loop.
  - **`Restart`** is a process exit followed by `database_create` and `database_open` on the same directory.
    - At the crash, the WAL can end with a torn record. This happens when the crash interrupts a `write`.
  - **`Recover`** is a RECURSIVE operator for `database_recover`. It returns the *set* of tables
    recovery can produce:
    - A torn header stops the replay.
    - A torn body is applied with an uninitialized value (`Garbage`), or is not applied at all.
      Reading a short body is undefined behaviour, so both outcomes are included.
  - **Environment constants:**
    - `Ops` says which calls the callers make.
    - `Faults` chooses which I/O faults can happen: `ioerror` (a write that fails or is partial),
      `torn_header` and `torn_body`.
    - `ClosedUse` allows calls on a closed engine, and calls that race `close`.
    - `MaxLog`, `MaxTxns` and `MaxRestarts` bound the WAL length, the transaction ids and the restarts.
- **`KVSpec.tla`** is the engine's promise, taken from `spec.md`:
  - a store that changes only through operations in flight: `op[t]` is thread `t`'s put or delete
    between its call and its return (or `Idle`). `Call`, `Write` and `Return` are the call, the one
    step at which it takes effect, and the return; `CallEffect` and `WriteReturn` join two of them
    in one step. A write that is lost, applied twice, or applied to another key breaks it;
  - per-thread overlays, in which a delete is a tombstone;
  - atomic commit that applies puts and deletes;
  - rollback;
  - a restart that keeps the store and drops the overlays.
- **`MCKVStore.tla`** maps `KVStore` onto `KVSpec` with `INSTANCE ... WITH`:
  - **Abstract store:** `AbsStore` is the table, plus any put or delete whose record is already whole
    in the WAL but not yet applied to the table. The WAL write is the linearization point.
  - **Operations in flight:** `AbsOp` gives a thread at `pc = "apply"` (inside `database_put` or
    `database_delete`) the abstract operation on its key and value, marked done once its record is
    logged; any other thread is idle.
  - **Overlays:** the abstract overlays are `intent`.
  - **Recovery:** `RecoverIsValidPrefix` compares recovery with a reference, `FoldLeft` of the
    record-apply function over the whole records before the first torn one.
- **`Cache.tla`** models `cache.c`. Every public call holds `cache->lock` for its whole body, so each
  call is one action.
  - **State:** `lru` is the list as a sequence of entry ids (head = most recent); `entry` maps an id to
    its key, value, timestamp, TTL and access count; `chain[k]` lists the ids with key `k` in bucket
    order (newest first, since `cache_put` pushes at the bucket head); `now` is the realtime clock;
    `latest` is ghost state, the value of the last put of each key.
  - **Actions:** `PutUpdate` and `PutInsert` are the two branches of `cache_put_with_ttl`;
    `PutInsert` runs the whole `evict_if_needed` loop (the RECURSIVE `EvictIfNeeded`) before it links
    the new entry. `GetHit` is a `cache_get` hit (`access_count++`, move to head under LRU); a miss changes
    only statistics. `Delete`, `Clear`, `Tick` and `ClockBack` (CLOCK_REALTIME set back) complete it.
  - **Expiry** is `find_entry`'s test `now - timestamp > ttl_ms` computed modulo `2^ClockBits`, as in
    uint64. An expired entry is not unlinked: `find_entry` returns NULL and the entry stays.
  - **Victim** follows `find_victim`: the tail for LRU; for LFU the first entry from the head with the
    smallest `access_count`.
- **`MQueue.tla`** models `mqueue.c` with one process per publisher, per consumer thread and per
  unsubscribing thread.
  - **State:** `queue` (messages `[seq, topic, prio]`), `mutex` and `waiting` (the mutex and the
    condition variable), each consumer's program counter `cpc`, the message it `held`, its `active` flag
    and its `tmp` copy of `total_consumed` (`consumed`); `upc` is the unsubscriber's program counter;
    `delivered` is ghost state, the messages handed to handlers in order.
  - **Consumer loop:** `Top` (test `active`), `Lock`, `Check` (sleep if empty and active, leave if not
    active, else dequeue and unlock), `Wake`, then `Handle` or `Requeue` (lock, enqueue, unlock).
    `total_consumed++` is unlocked and is split into `CountLoad` and `CountStore`.
  - **Unsubscribe:** `Deactivate` (clear `active` with no lock), `Broadcast` (lock, broadcast,
    unlock), `Join` (wait for the thread to exit, then unlink).
  - **Subscribe, reject, clear:** `Subscribe` is `mqueue_subscribe` for a consumer in `Late`, made
    while the queue is in use (the others subscribe before any publish). An admin thread runs the
    calls in `Admin` in order: `Reject` (`total_rejected++` under the lock; the requeue flag is
    ignored by the code) and `Clear` (destroy every queued node under the lock). `cleared` is ghost
    state, the messages a clear destroyed.
  - `MCMQueue.tla` gives the publishers' scripts, the consumers' topics and the admin's calls.
- **`Services.tla`** holds the four stateful parts of `distributed.c` side by side; every step
  belongs to one of them.
  - **Circuit breaker:** `CbEnter` is `circuit_breaker_call` up to `func(arg)` (OPEN past the
    timeout turns HALF_OPEN; within it the call is refused). `CbSucceed` and `CbFail` are
    `record_success` and `record_failure`, each under the lock, after `func` ran without it. The clock is
    kept as `cbAge = min(now - last_failure_time, Timeout + 1)`, all the code compares. `CbRecover` is
    the environment: the dependency comes back.
  - **Registry:** `service_register` evaluates `registry->next_id++` before it takes the lock; this
    is `SrLoad` and `SrStore`, then `SrLink` pushes the node under the write lock. `SrDeregister`
    unlinks the first node with the id.
  - **Rate limiter:** `RlAllow` (find or create the entry, restart the window after more than
    `window_ms`, count or refuse) and `RlReset`, each wholly under the limiter's mutex.
  - **Metrics collector:** `metrics` is the list, head first, of `[name, num, den]`. The double
    value is kept exactly as `num / den`. Each reporter runs its `MScript` of counter, gauge and
    histogram calls. A call is split into three steps:
    - `MLock` takes `collector->lock`;
    - `MFind` is `find_or_create_metric`'s strcmp scan;
    - `MUpdate` pushes a new node at the head if the scan missed, applies `MValue` (`+= 1.0`,
      `= x`, or `(v + x) / 2.0`) and unlocks.
    Splitting the scan from the update shows what the lock excludes.
  - **`retry_with_policy`:** the recursive operator `RetryFrom` follows the loop. It stops at the
    first SUCCESS and sleeps only if `attempt < max_retries`. The delay becomes
    `(delay * num) \div den`, the truncating cast of `delay * multiplier`. It returns the last
    result, the number of calls and the delays slept.
- **`AuthToken.tla`** models the auth tokens of `distributed.c` as operators over character
  sequences.
  - `TokenCreate` and `TokenValid` (uint64 arithmetic modulo `2^64`).
  - `Serialize` is `snprintf("%s:%lu:%lu")` into 256 bytes.
  - `Deserialize` is `sscanf("%127[^:]:%lu:%lu")`. `UserField` reads up to 127 characters other
    than `:`, and `DigitsAt` reads a `%lu`. The result is NULL unless all three fields convert.
- `MCServices.tla` gives the reporters' scripts (both count `m1`; one sets and one observes `m2`)
  and the token domain: short ids, a 127-character id, times and ttls of one to four digits.

- **`HttpParser.tla`** models `http_request_parse` as operators over short character sequences.
  SP, CR, LF, `:` and `?` keep their identity; every other byte is a letter, and one-letter words
  stand for the method and version names (`G` = GET, `H` = HTTP/1.1).
  - `StrStr` and `StrChr` are `strstr` and `strchr` (`strchr` runs to the end of the input, past any CRLF).
  - `ScanWords` is `sscanf("%15s %2047s %15s")`: skip white space (CR and LF included), read at most
    the width of non-space bytes, stop at the end of input.
  - `CountLines` and `FillHeaders` are the two header loops, with their `next >= headers_end` exits;
    `Parse` returns the request record, with `NULL` for header entries the fill loop never reached.
  - `RefParse` is the reference: a request as RFC 9112 section 2.1 defines it (three words separated
    by single spaces, header lines containing a colon, an empty line, the body).
- **`WebServer.tla`** models `webserver.c` with three kinds of thread.
  - **Main thread (`mpc`):** `Start` (each of the socket, setsockopt/bind/listen and pthread_create
    failures, or success), `StopFlag` (`is_running = 0`, from `webserver_stop` or from
    `webserver_destroy`), `StopShut` (shutdown and close, which wakes `accept` and resets the
    connections still queued), `StopJoin` (join the server thread), `Destroy` and `Free`.
  - **Server thread (`spc`):** `Loop` (test `is_running`), `Accept` (take a queued connection, or fail
    on a closed socket), `Spawn` (pthread_create a detached client thread, or close the connection).
  - **Client threads (`cst[c]`):** `Connect` and `PeerAct` are the peer: it connects, then sends its
    request or hangs up (`peer[c]`), or stays silent. `Recv` returns only once the peer has acted, as
    the blocking `recv` with no timeout does; a request that arrived is looked up in `Parsed`, the
    table of `Parse` over the inputs, and a hang-up is the `bytes_read <= 0` branch. Then `Respond` (read `server->handler`, send), `Close`.
    `Respond` builds the default response (`DefaultResponse`: 200 "OK", the 24-byte body and
    `Content-Type: text/plain`) or, once a handler is set, one of `HandlerResponses`, and records it
    in `sent[c]`; serializing it is left to the invariant, which keeps the liveness check fast.
  - **`SetHandler`** is `webserver_set_handler` from the main thread, at any time while the server
    exists, with no lock; `handler` is `None` or `"set"`.
  - `MCWebServer.tla` defines the request inputs and the handler's responses, and checks the status
    table in an ASSUME (`StatusTableAgrees`).
- **`HttpResponse.tla`** models the response functions of `http_parser.c` over text lengths: a
  response is a status code, the length of its message, a sequence of header `[name, value]`
  lengths and a body length. `BufferSize` is the size `http_response_serialize` allocates;
  `Snprintf` is one `offset += snprintf(buffer + offset, size - offset, ...)`, which records the
  offset, the end of what was written and whether the text was cut. Once offset passes size,
  `size - offset` wraps as a `size_t` and bounds nothing. `ResponseSerialize` chains the status line,
  the headers, the blank line and the body `memcpy`.
- **`HttpStatus.tla`** models `http_status.c`: `StatusMessage` is the switch of
  `http_status_get_message` (with `"Unknown"` as its default), `Category` is
  `http_status_get_category`, and `IsInformational` through `IsError` are the `http_status_is_*`
  predicates. `StatusCodes` is the `http_status_code_t` enumeration.

## Runs

The KV runs use keys `k1`, `k2`, values `v1`, `v2` and threads `t1`, `t2` as model values,
except where the table says otherwise.

| Run | Module | Checks | Bounds | Result |
|---|---|---|---|---|
| `wal_crash` | MCKVStore | `KVSpecBehavior` | put/delete/get, no faults, MaxLog 4, 2 restarts | pass: every acknowledged write survives a crash when the WAL works |
| `txn_threads` | MCKVStore | `TxnIdsUnique`, `KVSpecBehavior` | all calls except crash and txdelete, MaxLog 2 | pass: a staged write reaches the table only at commit, live transactions never share an id |
| `all_ops` | MCKVStore | `TypeOK` | one key, one value, every call and fault, `ClosedUse`, MaxTxns 3, 1 restart | pass; fires every KVStore action |
| `close_race` | MCKVStore | `KVSpecBehavior` | one key, put/get/close/open with `ClosedUse` | violation (F7) |
| `cache_ttl` | Cache | `CacheWellFormed` | keys `k1`, `k2`, values `v1`, `v2`, TTL {0,1}, max_size 2, LRU and LFU, clock 0..3 with steps back, 5 allocations | pass: list and buckets agree and size <= max_size |
| `cache_clock_step` | Cache | `LiveValueIsLatest` | as `cache_ttl` | violation (C1) |
| `mqueue_delivery` | MCMQueue | `NoLossNoDup`, `UnsubscribeReturns` | p1 sends b (priority 0), b (2); p2 sends a (1); c1 takes a, c2 (subscribing late) takes b; an admin rejects then clears; ORDERING_PRIORITY; both unsubscribed | pass |
| `services` | MCServices | `MetricsConsistent`, `BreakerRecloses` (and the ASSUME of `RetryAsDocumented`, `TokenRoundTrip`) | 2 callers, threshold 2, timeout 1 tick; 1 registrar, 2 ids; 1 client, 2 requests per 1-tick window, clock to 2; 2 reporters of 2 calls each; max_retries 0..2, delays 0..2, multipliers 1.5 and 2, all 8 result patterns; 3 user ids × 4 times × 2 ttls | pass |
| `registry_ids` | MCServices | `ServiceIdsUnique` | as `services`, with 2 registrars and 3 ids | violation (S1) |
| `webserver` | MCWebServer | `ResponseFitsBuffer`, `StopReturns`, `ConnectionsClosed` (and the ASSUME of `StatusTableAgrees`) | 2 clients, 2 inputs (one answered, one rejected), every start outcome, 2 starts, failing client pthread_create, peers that send, hang up or stay silent, a handler set at any time with 3 responses | pass |
| `webserver_uaf` | MCWebServer | `ServerOutlivesClients` | 1 client, start succeeds | violation (W1) |
| `http_headers` | MCWebServer | `HandlerSeesRequest` | 1 client sending a request with one header | violation (H1) |

### What the passing runs show

- **Engine:** with a working WAL, each put and delete takes effect once between its call and its
  return and survives crashes, and nothing else changes the store; a transaction's writes reach the
  table only at commit; two live transactions never share an id.
- **Cache:** through puts that expire and re-insert, LFU and LRU eviction, deletes, clears and a clock
  that jumps back, the LRU list and the hash chains always hold the same entries, each once under its
  own key, and never more than `max_size`.
- **Queue:** consumers of topic `a` and `b` keep taking each other's messages and putting them back,
  yet every published message is at every moment in exactly one place (queue, a consumer's hands,
  delivered, or destroyed by `mqueue_clear`) and is handled at most once. A clear can run while a
  consumer holds a message of the other topic; that message is put back after the clear and is
  still accounted for;
  and every `mqueue_unsubscribe` returns, though `active` is cleared without the lock, because the
  broadcast is sent under the lock after it.
- **Breaker:** once the dependency is back, the breaker ends CLOSED for good, whatever order the
  two callers' late results arrive in.
- **Metrics:** two reporters that increment the same new name at once still create one node.
  `collector->lock` spans both the scan and the create. The counter always equals the
  increments that have returned.
- **Retry:** `retry_with_policy` makes at most `max_retries + 1` calls and stops at the first
  success. It returns the last result, sleeps only between two calls, and its delays never shrink.
- **Tokens:** a token whose user id has no `:` and at most 127 characters survives
  `auth_token_serialize` followed by `auth_token_deserialize`. An id with `:`, or one of 128
  characters, comes back as NULL (a hazard).
- **Web server:** whatever start fails, however often the server is started and stopped, and
  whether the server is stopped or destroyed with clients in flight, `webserver_stop` returns
  (shutdown wakes `accept`), and every connection the socket queued is closed by its client thread,
  by the server thread when pthread_create fails, or by the kernel at shutdown, as soon as its peer
  has sent a request or hung up. A peer that stays silent keeps its client thread in `recv` forever
  (a hazard), so `ConnectionsClosed` is stated for peers that act.
- **Responses:** `http_response_serialize` reserves 256 bytes for the status line (line 245,
  "Initial size for status line"). Every response whose status line (`StatusLine`) fits in those
  256 bytes is serialized whole: no `snprintf` truncates its text, no write passes the buffer, and
  `send` reads only what was written, however many headers and body bytes follow. The handler's
  responses include one whose status line is exactly 256 bytes (a 241-character message) and one
  with a 300-character message, outside the property; without the antecedent TLC reports that one
  truncated, and a longer status line overruns the buffer (a hazard).
- **Status table:** every code of `http_status_code_t` has its own phrase, and its category is the
  one `http_status_is_*` range it is in. Outside 100..599 `http_status_get_category` still answers
  `CLIENT_ERROR` while `http_status_is_client_error` is false, which is why the check ranges over
  the enumeration only.

### What the violations show

The `findings` in `PROJECT.json` give each violation a source line.

- **F7:** a put that races `close`, followed by a reopen, replays stale data over a newer acknowledged value.
- **C1 (`cache.c:88`):** an LFU cache holds `k1 = v1` with TTL 1; the clock passes it, so the entry
  expires but stays linked; `cache_put(k1, v1, 0)` links a new entry in front; `cache_delete(k1)`
  removes only that one; the realtime clock is set back, and `cache_get(k1)` returns `v1` again.
- **S1 (`distributed.c:50`):** two `service_register` calls both read `next_id = 1` before either
  stores it, and two services get `service-1`.
- **W1 (`webserver.c:36`):** a client connects, is accepted, and the main thread stops and destroys
  the server before the client thread runs. `webserver_stop` joins only the server thread; the client
  thread, detached, then parses its request and reads `server->handler` from the freed server.
- **H1 (`http_parser.c:107`):** `headers_end` points at the CRLF that ends the last header line, and
  the count loop stops at a line whose CRLF is at `headers_end`. A request with one header reaches
  the handler with `header_count = 0`. Evaluating `Parse` on other inputs shows more (listed as
  hazards): a two-word request line takes its third word from the next line, and a header line with
  no colon leaves a `NULL` entry that `http_request_get_header` passes to `strcasecmp`.

Six engine disagreements have no run of their own, because the run budget goes to
the other components. They are listed as hazards in `PROJECT.json` with the constants that reproduce
them under `MCKVStore`: a clean close truncates the WAL so the next process starts empty
(`database.c:408`), a torn tail is not truncated so later appends are never replayed (`:214`),
recovery installs a record with a short body (`:425`, property `RecoverIsValidPrefix`), commit is
not logged (`:343`), write errors are ignored (`:261`), and a transactional delete is dropped at
commit (`:391`). The passing runs keep these cases out of
`KVSpecBehavior`'s reach so that everything else is still checked. In the same way, `MQueue` states
`TopicFifo` and `ConsumedCounted`, both violated under `mqueue_delivery`'s constants, with `Ordering = "fifo"` for `TopicFifo` (requeue at the
tail reorders a topic, `mqueue.c:157`; the unlocked `total_consumed++` loses updates, `:153`).

### Why these bounds are enough

- **Threads:** two of each kind are enough for every race here, since each race is between two callers.
- **Keys and values:** two of each tell an overwrite from a fresh write and one key from another.
- **WAL length:** MaxLog 2–4 lets a record be followed by a newer one, which F7 and the torn-tail case need.
- **Restarts:** two are enough for "crash, recover, write, crash again".
- **Cache:** max_size 2 makes eviction happen with two keys; TTL 1 and a clock of 0..3 let an entry
  expire and be re-inserted; five allocations cover insert, expire, re-insert, evict.
- **Queue:** three messages of two topics make each consumer take a message that is not its own
  and put it back behind another. Their priorities 0, 2 and 1 under `ORDERING_PRIORITY` make
  `enqueue_message` insert at the head, in the middle and at the tail. The FIFO branch (`mqueue.c:101`)
  is a plain tail append; with `Ordering = "fifo"` the run passes as well.
- **Breaker:** threshold 2 and two callers let one caller's stale result land after the other's
  failures opened the breaker. In `services` the registry and the limiter run with one registrar
  and a clock to 2: they are independent of the breaker and the collector, and nothing in that run
  is about them. The registry race has its own run, `registry_ids`, with two registrars.
- **Metrics:** two reporters that both count `m1` first make the find-or-create race possible.
  The second calls, a gauge and a histogram on `m2`, exercise the other two updates and the
  order-dependent value.
- **Retry and tokens:** these are operators. `MCServices` states `ASSUME RetryAsDocumented /\
  TokenRoundTrip`, which TLC evaluates over every input in the sets above when a run of
  `MCServices` starts; a constant statement has no state to be violated in, so it is not an
  invariant of the run. With
  max_retries up to 2 and three results, the cases covered are success at each attempt and
  exhaustion. The 127-character id is the longest that `%127[^:]` reads whole.
- **Web server:** two clients let one be in flight while the other is still queued at shutdown;
  two starts cover a restart after a failed start and after a stop; one input that parses and one
  that does not cover both branches of `handle_client`, and a peer that hangs up covers the third.
  The handler's responses sit exactly at serialize's 256-byte status-line allowance (a 241-character
  message and two headers), below it (404 with a header and a body, so the `memcpy` branch runs) and
  beyond it (a 300-character message).

Every property of a passing run has a mutant in `PROJECT.json`: a plausible bug that TLC catches under
the same cfg.

- `PutBeginNoLog`: the WAL write is dropped.
- `TxPutWriteThrough`: the overlay writes through to the table.
- `BeginLockUnlocked`: the id is taken without the lock.
- `RestartZeroId`: ids restart at 0.
- `EvictIfNeededLate`: `evict_if_needed` tests `>` instead of `>=`.
- `CheckPeek`: the consumer reads the head without dequeuing it.
- `BroadcastSkipped`: `mqueue_unsubscribe` does not broadcast.
- `CbSucceedStuck`: a success leaves a HALF_OPEN breaker HALF_OPEN.
- `MLockSkipped`: a metrics call runs without taking the collector's lock.
- `StopNoShutdown`: `webserver_stop` closes without `shutdown`, so `accept` is not woken.
- `SpawnLeak`: a failed pthread_create does not close the accepted connection.
- `BufferSizeShort`: serialize allows 2 bytes per header instead of 4.

The two ASSUMEs have mutants of the same kind, which make TLC stop with the assumption false:
`RetryFromSleepLast` (the retry loop also sleeps after the last failed attempt) and
`UserFieldScanS` (the user id read with `%127s` instead of `%127[^:]`). `StatusTableAgrees`
fails in the same way if a case of the `http_status_get_message` switch is dropped.

## Fairness

- **Engine and cache:** none; their properties are safety properties. Whether a writer waiting on
  glibc's reader-preferring rwlock gets it depends on the C library, not on this code, so no
  property claims it.
- **Queue:** weak fairness on each publisher, each consumer thread, each subscribing or unsubscribing thread and the admin thread (the calls in the MC scripts are the program's): the OS
  scheduler runs a thread that can run. A thread blocked on the mutex or the condition variable gets
  nothing more; `UnsubscribeReturns` holds without strong fairness. `Finished` is the stutter of a
  program whose threads have all returned, so it is not a deadlock.
- **Breaker:** weak fairness on each caller's entry and on its result, and on the clock. The dependency
  is not assumed to recover; `BreakerRecloses` is about the runs where it does.
- **Registry, rate limiter, metrics:** no fairness; no property needs them to progress.
- **Web server:** weak fairness on the server thread's steps, on each client thread, and on the
  steps of a `webserver_stop` or `webserver_destroy` already under way. Starting, stopping,
  destroying, and a peer's connect, send or hang-up are the caller's choice and get none. `webserver.cfg` has no
  SYMMETRY, because TLC's liveness checking is not sound under symmetry.

## Not modelled, and why

- **Use after free:** a second `transaction_commit`, or `rollback` after `commit`, reads the freed
  transaction (`database.c:339`, `:359`). In the model a thread's transaction becomes `NoTxn`
  when it ends, so neither call is enabled.
- **One transaction shared by two threads:** `spec.md` §5 leaves this case to the caller.
- **Record sizes and the WAL path:** records have no sizes in the model, and there is one WAL.
- **`database_destroy`, indexes, compaction, stats:** placeholders, read-only, or only part of a process exit.
- **Cache statistics and `cache_exists`:** counters and reads that change no entry.
- **Queue:** `mqueue_destroy` is `mqueue_unsubscribe` of every consumer, then `mqueue_clear`, then
  freeing the queue, which is correct only when no other thread still uses the queue; the two calls
  it makes are modelled. `mqueue_acknowledge` is a placeholder; the setters write fields nothing
  modelled reads; statistics are reads.
- **Distributed:** `service_heartbeat` rewrites `healthy = 1`, which nothing clears, and a
  timestamp nothing reads; `service_discover` is read-only. `metrics_export` formats under the lock
  and changes nothing; its buffer overflow needs about a hundred metrics and is a hazard. The
  create and destroy functions only allocate and free.
- **Web server:** `handler` and `user_data` are one value, so the torn pair that the unlocked
  `webserver_set_handler` can leave is a hazard only. File descriptor numbers are not modelled, so
  fd reuse after `close` is a hazard only.
- **HTTP parser:** `http_request_create`, `destroy`, `add_header` and `get_header`, and
  `http_response_destroy`, allocate, free or read; no path of the web server calls
  `http_request_add_header`. Text is modelled by its length in `HttpResponse`, because only the
  lengths decide where serialize writes.
- **Stubs:** `concurrency.c`, `cache_strategies.c`, `db_performance.c`, `latency_observability.c`,
  `network_serialization.c`, `tcp_udp.c`, `auth.c`, `crypto.c` and `security.c` are placeholders that
  return constants, fill in dummies or wrap one system call. `atomic_counter_increment` in
  `concurrency.c` is a plain `++`, but nothing in the repository calls it concurrently. These files
  are most of the source lines, so the map cannot cover much more than the modelled components.

## Plan for the remaining parts

1. **Queue liveness:** whether a message of a subscribed topic is eventually handled despite
   requeue ping-pong. It needs fairness on which consumer wins the lock, which the code does not give.
2. **Breaker trial calls:** a stale success closing a HALF_OPEN breaker, if a single-trial rule is to be checked.
