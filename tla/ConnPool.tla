------------------------------ MODULE ConnPool ------------------------------
(***************************************************************************)
(* The outbound connection pool of cspcl (src/src/cspcl.c) and the threads *)
(* that call cspcl_send_bundle() and cspcl_conn_pool_add() on it.          *)
(*                                                                         *)
(* The pool caches at most one table of PoolSize libcsp connections.  A    *)
(* sender takes the pool mutex, finds or opens a connection to the peer,   *)
(* sends, waits for the peer's acknowledgement, and on failure closes the  *)
(* connection and tries once more; the mutex is held throughout.  Here the *)
(* outcome of one send-and-wait is any of the values libcsp can return;    *)
(* module Delivery replaces that choice by the link and the receiver.      *)
(*                                                                         *)
(* An unused entry keeps stale fields in C, but every read of an entry is  *)
(* guarded by its used flag, so an unused entry is the one value Free.     *)
(***************************************************************************)
EXTENDS Naturals, FiniteSets, FiniteSetsExt

CONSTANTS
    PoolSize,         \* CSPCL_CONN_POOL_SIZE
    Dests,            \* destinations: pairs (dest_addr, dest_port)
    Conns,            \* libcsp's connection objects (its conn_max table)
    Threads,          \* threads that call into the library
    Adders,           \* the threads that call cspcl_conn_pool_add()
    NULL,             \* the null pointer, and "no thread"
    TickMod,          \* range of the uint32_t access counter (2^32)
    MaxAgeMs,         \* CSPCL_MAX_CONN_AGE_MS, 0 = never age out
    QuiescentCleanup, \* the caller stops its senders before the cleanup
    ClockStep,        \* the clock's granularity in the model, in ms
    MaxClock,         \* bound: last value of the clock, in ms
    MaxOps            \* bound: calls made by all the threads

ASSUME ConnPoolAssumption ==
    /\ PoolSize \in Nat \ {0}
    /\ NULL \notin Dests /\ NULL \notin Conns /\ NULL \notin Threads
    /\ Adders \subseteq Threads
    /\ TickMod \in Nat \ {0}
    /\ MaxAgeMs \in Nat
    /\ QuiescentCleanup \in BOOLEAN
    /\ ClockStep \in Nat \ {0}
    /\ MaxClock \in Nat
    /\ MaxOps \in Nat

VARIABLES
    entries,      \* pool->entries
    tick,         \* pool->tick
    stats,        \* pool->stats
    initialized,  \* pool->initialized
    lock,         \* holder of pool->lock, NULL when free
    mutex,        \* pool->lock as an object: live, about to be destroyed, gone
    conns,        \* libcsp: peer of each connection object, NULL = closed
    pc,           \* where each thread is
    dest,         \* its destination arguments
    attempt,      \* its loop counter in cspcl_send_bundle()
    slot,         \* the entry it is about to fill
    cur,          \* the connection it uses
    ret,          \* its local ret / conn_failed
    result,       \* what its last call returned
    clock,        \* wall clock in ms; time(NULL) is its seconds
    born,         \* history: clock value when a connection entered the pool
    ops           \* calls made so far

poolVars == <<entries, tick, stats, initialized, lock, mutex>>
threadVars == <<pc, dest, attempt, slot, cur, ret, result>>
vars == <<poolVars, conns, threadVars, clock, born, ops>>

-----------------------------------------------------------------------------
(* Types *)

Slots == 1..PoolSize

Entry == [used: BOOLEAN, dest: Dests \cup {NULL}, conn: Conns \cup {NULL},
          last_used: 0..(TickMod - 1), connected_at: Nat]

Free == [used |-> FALSE, dest |-> NULL, conn |-> NULL,
         last_used |-> 0, connected_at |-> 0]

Counter == {"hits", "misses", "evictions", "connect_failures", "invalidations"}

ZeroStats == [k \in Counter |-> 0]

PC == {"idle", "checked", "get", "connect", "confirm", "unlock",
       "add", "addchecked"}

Rets == {"NONE", "TIMEDOUT", "OTHER", "CONNFAILED"}

Results == {"none", "OK", "INVALID_PARAM", "NOT_INITIALIZED",
            "BUNDLE_TOO_LARGE", "CONNECTION", "TIMEOUT", "CSP_SEND"}

TypeOK ==
    /\ entries \in [Slots -> Entry]
    /\ tick \in 0..(TickMod - 1)
    /\ stats \in [Counter -> Nat]
    /\ initialized \in BOOLEAN
    /\ lock \in Threads \cup {NULL}
    /\ mutex \in {"live", "closing", "destroyed"}
    /\ conns \in [Conns -> Dests \cup {NULL}]
    /\ pc \in [Threads -> PC]
    /\ dest \in [Threads -> Dests \cup {NULL}]
    /\ attempt \in [Threads -> 0..2]
    /\ slot \in [Threads -> Slots]
    /\ cur \in [Threads -> Conns \cup {NULL}]
    /\ ret \in [Threads -> Rets]
    /\ result \in [Threads -> Results]
    /\ clock \in Nat
    /\ born \in [Conns -> Nat]
    /\ ops \in Nat

-----------------------------------------------------------------------------
(* Reading the table *)

Used == {i \in Slots : entries[i].used}

\* The entries a lookup of d accepts; the scan stops at the lowest one.
Matches(d) ==
    {i \in Used : entries[i].dest = d /\ entries[i].conn # NULL}

\* Mutant: the scan keeps the most recent entry.
LruSlot_Newest ==
    CHOOSE i \in Slots : \A j \in Slots :
        \/ entries[i].last_used > entries[j].last_used
        \/ entries[i].last_used = entries[j].last_used /\ i <= j

\* The entry the LRU scan ends on: least last_used, lowest index first.
LruSlot ==
    CHOOSE i \in Slots : \A j \in Slots :
        \/ entries[i].last_used < entries[j].last_used
        \/ entries[i].last_used = entries[j].last_used /\ i <= j

Now == clock \div 1000

\* Mutant: seconds compared with milliseconds.
Aged_Ms(i) ==
    /\ MaxAgeMs > 0
    /\ Now - entries[i].connected_at > MaxAgeMs

\* Age check of a lookup; the clock never runs backwards in the model.
Aged(i) ==
    /\ MaxAgeMs > 0
    /\ Now - entries[i].connected_at > MaxAgeMs \div 1000

NextTick == (tick + 1) % TickMod

Filled(d, c) ==
    [used |-> TRUE, dest |-> d, conn |-> c, last_used |-> tick,
     connected_at |-> Now]

Count(k) == stats' = [stats EXCEPT ![k] = @ + 1]

\* Mutant: the closed connection stays in the table.
CloseEntry_KeepsUsed(i) ==
    /\ entries' = entries
    /\ conns' = [conns EXCEPT ![entries[i].conn] = NULL]

\* Mutant: the entry is freed without csp_close().
CloseEntry_NoClose(i) ==
    /\ entries' = [entries EXCEPT ![i] = Free]
    /\ conns' = conns

\* csp_close() on the connection of entry i, which becomes free.
CloseEntry(i) ==
    /\ entries' = [entries EXCEPT ![i] = Free]
    /\ conns' = [conns EXCEPT ![entries[i].conn] = NULL]

-----------------------------------------------------------------------------
Init ==
    /\ entries = [i \in Slots |-> Free]
    /\ tick = 0
    /\ stats = ZeroStats
    /\ initialized = TRUE
    /\ lock = NULL
    /\ mutex = "live"
    /\ conns = [c \in Conns |-> NULL]
    /\ pc = [t \in Threads |-> "idle"]
    /\ dest = [t \in Threads |-> NULL]
    /\ attempt = [t \in Threads |-> 0]
    /\ slot = [t \in Threads |-> 1]
    /\ cur = [t \in Threads |-> NULL]
    /\ ret = [t \in Threads |-> "TIMEDOUT"]
    /\ result = [t \in Threads |-> "none"]
    /\ clock = 0
    /\ born = [c \in Conns |-> 0]
    /\ ops = 0

-----------------------------------------------------------------------------
(* cspcl_send_bundle() *)

\* A call returns r; the thread's locals are gone.
Return(t, r) ==
    /\ pc' = [pc EXCEPT ![t] = "idle"]
    /\ dest' = [dest EXCEPT ![t] = NULL]
    /\ attempt' = [attempt EXCEPT ![t] = 0]
    /\ slot' = [slot EXCEPT ![t] = 1]
    /\ cur' = [cur EXCEPT ![t] = NULL]
    /\ ret' = [ret EXCEPT ![t] = "TIMEDOUT"]
    /\ result' = [result EXCEPT ![t] = r]

Goto(t, l) == pc' = [pc EXCEPT ![t] = l]

\* Null or empty bundle, or one larger than CSPCL_MAX_BUNDLE_SIZE.
SendReject(t, r) ==
    /\ pc[t] = "idle" /\ ops < MaxOps
    /\ r = "INVALID_PARAM" \/ (r = "BUNDLE_TOO_LARGE" /\ initialized)
    /\ Return(t, r)
    /\ ops' = ops + 1
    /\ UNCHANGED <<poolVars, conns, clock, born>>

\* The argument checks and the unlocked read of pool->initialized.
SendCheck(t, d) ==
    /\ pc[t] = "idle" /\ ops < MaxOps
    /\ ops' = ops + 1
    /\ \/ /\ initialized
          /\ Goto(t, "checked")
          /\ dest' = [dest EXCEPT ![t] = d]
          /\ UNCHANGED <<attempt, slot, cur, ret, result>>
       \/ /\ ~initialized
          /\ Return(t, "NOT_INITIALIZED")
    /\ UNCHANGED <<poolVars, conns, clock, born>>

\* pthread_mutex_lock() gets the mutex.  On a destroyed mutex a waiter
\* already inside the call may still get it.
SendLock(t) ==
    /\ pc[t] = "checked" /\ lock = NULL
    /\ lock' = t
    /\ Goto(t, "get")
    /\ UNCHANGED <<entries, tick, stats, initialized, mutex, conns, dest,
                   attempt, slot, cur, ret, result, clock, born, ops>>

\* pthread_mutex_lock() fails on a destroyed mutex.
SendLockFails(t) ==
    /\ pc[t] = "checked" /\ mutex = "destroyed"
    /\ Return(t, "CONNECTION")
    /\ UNCHANGED <<poolVars, conns, clock, born, ops>>

\* cspcl_pool_get_or_create_locked(): the cached connection is reused.
GetHit(t) ==
    /\ pc[t] = "get"
    /\ Matches(dest[t]) # {}
    /\ LET i == Min(Matches(dest[t])) IN
         /\ ~Aged(i)
         /\ entries' = [entries EXCEPT ![i].last_used = NextTick]
         /\ cur' = [cur EXCEPT ![t] = entries[i].conn]
    /\ tick' = NextTick
    /\ Count("hits")
    /\ Goto(t, "confirm")
    /\ UNCHANGED <<initialized, lock, mutex, conns, dest, attempt, slot,
                   ret, result, clock, born, ops>>

\* The cached connection is too old: closed, its entry or an earlier free
\* one is filled next.
GetAged(t) ==
    /\ pc[t] = "get"
    /\ Matches(dest[t]) # {}
    /\ LET i == Min(Matches(dest[t])) IN
         /\ Aged(i)
         /\ CloseEntry(i)
         /\ slot' = [slot EXCEPT ![t] = Min({i} \cup (Slots \ Used))]
    /\ tick' = NextTick
    /\ Count("invalidations")
    /\ Goto(t, "connect")
    /\ UNCHANGED <<initialized, lock, mutex, dest, attempt, cur, ret,
                   result, clock, born, ops>>

\* No cached connection, the first free entry will take the new one.
GetFree(t) ==
    /\ pc[t] = "get"
    /\ Matches(dest[t]) = {}
    /\ Used # Slots
    /\ slot' = [slot EXCEPT ![t] = Min(Slots \ Used)]
    /\ tick' = NextTick
    /\ Goto(t, "connect")
    /\ UNCHANGED <<entries, stats, initialized, lock, mutex, conns, dest,
                   attempt, cur, ret, result, clock, born, ops>>

\* Mutant: the victim is left to be overwritten after csp_connect().
GetEvict_Late(t) ==
    /\ pc[t] = "get"
    /\ Matches(dest[t]) = {}
    /\ Used = Slots
    /\ slot' = [slot EXCEPT ![t] = LruSlot]
    /\ tick' = NextTick
    /\ Count("evictions")
    /\ Goto(t, "connect")
    /\ UNCHANGED <<entries, conns, initialized, lock, mutex, dest, attempt, cur,
                   ret, result, clock, born, ops>>

\* No cached connection and no free entry: the least recently used one is
\* closed, before csp_connect() is called.
GetEvict(t) ==
    /\ pc[t] = "get"
    /\ Matches(dest[t]) = {}
    /\ Used = Slots
    /\ CloseEntry(LruSlot)
    /\ slot' = [slot EXCEPT ![t] = LruSlot]
    /\ tick' = NextTick
    /\ Count("evictions")
    /\ Goto(t, "connect")
    /\ UNCHANGED <<initialized, lock, mutex, dest, attempt, cur, ret,
                   result, clock, born, ops>>

\* csp_connect() hands out a connection object that is not in use.
ConnectOK(t) ==
    /\ pc[t] = "connect"
    /\ \E c \in Conns :
         /\ conns[c] = NULL
         /\ conns' = [conns EXCEPT ![c] = dest[t]]
         /\ born' = [born EXCEPT ![c] = clock]
         /\ entries' = [entries EXCEPT ![slot[t]] = Filled(dest[t], c)]
         /\ cur' = [cur EXCEPT ![t] = c]
    /\ Count("misses")
    /\ Goto(t, "confirm")
    /\ UNCHANGED <<tick, initialized, lock, mutex, dest, attempt, slot,
                   ret, result, clock, ops>>

\* csp_connect() returns NULL: a hard error on the first attempt only.
ConnectFails(t) ==
    /\ pc[t] = "connect"
    /\ Count("connect_failures")
    /\ ret' = IF attempt[t] = 0 THEN [ret EXCEPT ![t] = "CONNFAILED"] ELSE ret
    /\ Goto(t, "unlock")
    /\ UNCHANGED <<entries, tick, initialized, lock, mutex, conns, dest,
                   attempt, slot, cur, result, clock, born, ops>>

\* cspcl_send_and_confirm() returns CSP_ERR_NONE.
ConfirmOK(t) ==
    /\ pc[t] = "confirm"
    /\ ret' = [ret EXCEPT ![t] = "NONE"]
    /\ Goto(t, "unlock")
    /\ UNCHANGED <<poolVars, conns, dest, attempt, slot, cur, result, clock,
                   born, ops>>

\* Mutant: the port is not compared.
Invalidated_AddrOnly(d) == {i \in Used : entries[i].dest[1] = d[1]}

\* The entries cspcl_pool_invalidate_locked() looks for; it takes the first.
Invalidated(d) == {i \in Used : entries[i].dest = d}

\* Mutant: the connection stays in the pool after a failed send.
ConfirmFails_KeepsConn(t, r) ==
    /\ pc[t] = "confirm"
    /\ ret' = [ret EXCEPT ![t] = r]
    /\ attempt' = [attempt EXCEPT ![t] = @ + 1]
    /\ Goto(t, IF attempt[t] = 0 THEN "get" ELSE "unlock")
    /\ UNCHANGED <<entries, conns, stats, tick, initialized, lock, mutex, dest,
                   slot, cur, result, clock, born, ops>>

\* Mutant: the loop sends again on the same connection until it is answered.
ConfirmFails_Forever(t, r) ==
    /\ pc[t] = "confirm"
    /\ ret' = [ret EXCEPT ![t] = r]
    /\ UNCHANGED <<poolVars, conns, pc, dest, attempt, slot, cur, result, clock,
                   born, ops>>

\* cspcl_send_and_confirm() fails with r: invalidate, and loop once.
ConfirmFails(t, r) ==
    /\ pc[t] = "confirm"
    /\ ret' = [ret EXCEPT ![t] = r]
    /\ CloseEntry(Min(Invalidated(dest[t])))
    /\ Count("invalidations")
    /\ attempt' = [attempt EXCEPT ![t] = @ + 1]
    /\ Goto(t, IF attempt[t] = 0 THEN "get" ELSE "unlock")
    /\ UNCHANGED <<tick, initialized, lock, mutex, dest, slot, cur,
                   result, clock, born, ops>>

\* Mutant: an ack timeout is reported as success.
ErrorOf_TimeoutOk(r) ==
    CASE r \in {"NONE", "TIMEDOUT"} -> "OK"
      [] r = "CONNFAILED" -> "CONNECTION"
      [] OTHER -> "CSP_SEND"

\* What the call reports for its last ret.
ErrorOf(r) ==
    CASE r = "NONE" -> "OK"
      [] r = "TIMEDOUT" -> "TIMEOUT"
      [] r = "CONNFAILED" -> "CONNECTION"
      [] OTHER -> "CSP_SEND"

SendUnlock(t) ==
    /\ pc[t] = "unlock"
    /\ lock' = NULL
    /\ Return(t, ErrorOf(ret[t]))
    /\ UNCHANGED <<entries, tick, stats, initialized, mutex, conns, clock,
                   born, ops>>

-----------------------------------------------------------------------------
(* cspcl_conn_pool_add(): hands a connection of the caller to the pool *)

CallerConnects(t, d) ==
    /\ pc[t] = "idle" /\ ops < MaxOps /\ t \in Adders
    /\ \E c \in Conns :
         /\ conns[c] = NULL
         /\ conns' = [conns EXCEPT ![c] = d]
         /\ cur' = [cur EXCEPT ![t] = c]
    /\ dest' = [dest EXCEPT ![t] = d]
    /\ Goto(t, "add")
    /\ ops' = ops + 1
    /\ UNCHANGED <<poolVars, attempt, slot, ret, result, clock, born>>

\* An error of the call leaves the connection with the caller, who closes it.
AddFails(t, r) ==
    /\ \/ pc[t] = "add" /\ ~initialized /\ r = "NOT_INITIALIZED"
       \/ pc[t] = "addchecked" /\ mutex = "destroyed" /\ r = "CONNECTION"
    /\ conns' = [conns EXCEPT ![cur[t]] = NULL]
    /\ Return(t, r)
    /\ UNCHANGED <<poolVars, clock, born, ops>>

AddCheck(t) ==
    /\ pc[t] = "add" /\ initialized
    /\ Goto(t, "addchecked")
    /\ UNCHANGED <<poolVars, conns, dest, attempt, slot, cur, ret, result,
                   clock, born, ops>>

\* Lock, cspcl_pool_find_free_or_evict_locked(), fill the entry, unlock.
AddStore(t) ==
    /\ pc[t] = "addchecked" /\ lock = NULL
    /\ tick' = NextTick
    /\ LET e == [Filled(dest[t], cur[t]) EXCEPT !.last_used = NextTick] IN
         \/ /\ Used # Slots
            /\ entries' = [entries EXCEPT ![Min(Slots \ Used)] = e]
            /\ UNCHANGED <<conns, stats>>
         \/ /\ Used = Slots
            /\ entries' = [entries EXCEPT ![LruSlot] = e]
            /\ conns' = [conns EXCEPT ![entries[LruSlot].conn] = NULL]
            /\ Count("evictions")
    /\ born' = [born EXCEPT ![cur[t]] = clock]
    /\ Return(t, "OK")
    /\ UNCHANGED <<initialized, lock, mutex, clock, ops>>

-----------------------------------------------------------------------------
(* cspcl_conn_pool_init() and cspcl_conn_pool_cleanup() *)

NobodyInside == \A t \in Threads : pc[t] = "idle"

\* Check, lock, close everything, initialized = false, unlock.
Cleanup ==
    /\ QuiescentCleanup => NobodyInside
    /\ initialized /\ lock = NULL
    /\ conns' = [c \in Conns |->
                   IF \E i \in Used : entries[i].conn = c THEN NULL ELSE conns[c]]
    /\ entries' = [i \in Slots |-> Free]
    /\ initialized' = FALSE
    /\ mutex' = "closing"
    /\ UNCHANGED <<tick, stats, lock, threadVars, clock, born, ops>>

\* pthread_mutex_destroy(); it fails on a mutex a late sender has taken.
Destroy ==
    /\ mutex = "closing"
    /\ mutex' = IF lock = NULL THEN "destroyed" ELSE "live"
    /\ UNCHANGED <<entries, tick, stats, initialized, lock, conns, threadVars,
                   clock, born, ops>>

\* The next cspcl_init() on the same instance.  That nobody is inside is what the
\* caller owes: cspcl_conn_pool_init() does not look, and would initialise a
\* mutex that is held.
PoolInit ==
    /\ ~initialized /\ mutex # "closing" /\ NobodyInside
    /\ entries' = [i \in Slots |-> Free]
    /\ tick' = 0
    /\ stats' = ZeroStats
    /\ initialized' = TRUE
    /\ mutex' = "live"
    /\ UNCHANGED <<lock, conns, threadVars, clock, born, ops>>

ClockAdvances ==
    /\ clock + ClockStep <= MaxClock
    /\ clock' = clock + ClockStep
    /\ UNCHANGED <<poolVars, conns, threadVars, born, ops>>

-----------------------------------------------------------------------------
\* The steps of one thread inside a call.
ThreadStep(t) ==
    \/ SendLock(t) \/ SendLockFails(t)
    \/ GetHit(t) \/ GetAged(t) \/ GetFree(t) \/ GetEvict(t)
    \/ ConnectOK(t) \/ ConnectFails(t)
    \/ ConfirmOK(t)
    \/ \E r \in {"TIMEDOUT", "OTHER"} : ConfirmFails(t, r)
    \/ SendUnlock(t)
    \/ \E r \in {"NOT_INITIALIZED", "CONNECTION"} : AddFails(t, r)
    \/ AddCheck(t) \/ AddStore(t)

Call(t) ==
    \/ \E r \in {"INVALID_PARAM", "BUNDLE_TOO_LARGE"} : SendReject(t, r)
    \/ \E d \in Dests : SendCheck(t, d) \/ CallerConnects(t, d)

Next ==
    \/ \E t \in Threads : ThreadStep(t) \/ Call(t)
    \/ Cleanup \/ Destroy \/ PoolInit
    \/ ClockAdvances

Spec == Init /\ [][Next]_vars

\* Threads inside a call keep running; nobody has to make calls.
FairSpec == Spec /\ \A t \in Threads : WF_vars(ThreadStep(t))

-----------------------------------------------------------------------------
(* Properties *)

CallerHolds(t, c) == pc[t] \in {"add", "addchecked"} /\ cur[t] = c

\* Every used entry points to an open connection to its own destination, and
\* no two owners share a connection: the pool never sends on a closed or
\* recycled connection object and never closes one twice.
EntriesOwnConns ==
    /\ \A i \in Used : /\ entries[i].dest # NULL /\ entries[i].conn # NULL
                       /\ conns[entries[i].conn] = entries[i].dest
                       /\ \A t \in Threads : ~CallerHolds(t, entries[i].conn)
    /\ \A i, j \in Used : entries[i].conn = entries[j].conn => i = j

Owned(c) ==
    \/ \E i \in Used : entries[i].conn = c
    \/ \E t \in Threads : CallerHolds(t, c)

Lost(c) == conns[c] # NULL /\ ~Owned(c)

\* Eviction, ageing, invalidation, failed connects and cleanup lose no open
\* connection: it stays in the pool or in the hands of the caller of
\* cspcl_conn_pool_add().  Only cspcl_conn_pool_init() drops one unclosed, on a
\* pool that a late sender filled again after the cleanup.
NoLeak ==
    [][\A c \in Conns :
         Lost(c)' => Lost(c) \/ (~initialized /\ initialized')]_vars

\* Every open connection has its owner, in the pool or in a caller.
NothingLost == \A c \in Conns : ~Lost(c)

\* While csp_connect() runs, the pool holds fewer than PoolSize connections:
\* the victim is closed first, so libcsp has a free connection object.
RoomToConnect ==
    \A t \in Threads : pc[t] = "connect" => ~entries[slot[t]].used

\* The connection on which a send failed is the one that is closed, also when
\* the pool holds several connections to the destination: a late ack on it
\* can never be taken for the ack of another bundle.
FailedConnClosed ==
    [][\A t \in Threads :
         pc[t] = "confirm" /\ pc'[t] # "confirm" /\ ret'[t] # "NONE"
           => conns'[cur[t]] = NULL]_vars

\* A connection a send reuses entered the pool at most MaxAgeMs, rounded up to
\* the next second, ago, however often it was used in between.
ReuseAgeInSeconds ==
    [][\A t \in Threads :
         pc[t] = "get" /\ pc'[t] = "confirm" /\ MaxAgeMs > 0
           => clock - born[cur'[t]] < 1000 * (MaxAgeMs \div 1000 + 1)]_vars

\* Every call returns: no path leaves the mutex locked.
CallsReturn == \A t \in Threads : pc[t] # "idle" ~> pc[t] = "idle"

\* A sender that observes initialized = false finds every pooled connection
\* closed.
UninitializedMeansClosed == ~initialized => \A i \in Slots : ~entries[i].used

=============================================================================
