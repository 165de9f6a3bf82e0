# cspcl: verification project

Formal models of cspcl, the CSP convergence layer for DTN bundles: TLA+ modules,
TLC configurations and TLAPS proofs. Paths below are relative to the
repository; `src/cspcl.c` is the C library, `rust-bindings/cspcl/src` the Rust
binding. `PROJECT.json` maps every definition to the lines it models and lists
runs, mutants, hazards, findings and theorems.

## 1. The system

A bundle protocol agent hands a bundle to cspcl, which sends it over a libcsp
connection (RDP, fragmented with SFP) and waits for a one-byte acknowledgement
the receiver sends once it holds the whole bundle.

| Component | State | Operations | Interacts with |
|---|---|---|---|
| Outbound connection pool, `src/cspcl.c:82-243,420-492` | 8-16 entries, access counter, statistics, `initialized`, mutex | lookup/connect, evict, age out, invalidate, add, init, cleanup | senders (mutex), libcsp |
| Bundle send and ack, `src/cspcl.c:506-621,740-808` | none of its own; locals of the retry loop | `cspcl_send_bundle`, `cspcl_recv_from_conn_timeout` | pool, links, the peer |
| C receive table, `src/cspcl.c:817-949` | inbound entries, `rx_tick` | `cspcl_recv_bundle`, `cspcl_rx_table_store` | accept, links |
| Stack and RX socket, `src/cspcl.c:40-58,258-418,632-738` | process-wide stack flags, socket, port, global lock | `cspcl_init`, `cspcl_cleanup`, open/close of the RX socket | every instance of the process |
| Receiver of the Rust binding, `inbound.rs`, `instance.rs` | subscribers, pending bundles, `accept_running`, stop time, closes in progress, accept mutex | `subscribe`, `unsubscribe`, `deliver`, `close_rx_socket`, accept thread, listener threads | streams of the application, C accept and read |
| Inbound connection table of the Rust binding, `inbound.rs:375-520` | listeners with running/evicted flags and activity times | `register`, `supersede`, `wait_for_slot`, listener drop | accept thread, listeners, `Arc<Cspcl>` |
| Send API of the Rust binding, `bundle.rs`, `instance.rs`, `error.rs` | send mutex, cancellation flag, reference count | blocking, async, dropped sends, runtime shutdown | C send, tokio's blocking pool |
| hardy-cspcl, picod3tn-cspcl | transport or link with its closed flag and lock, cancellation, backoff, `CLAIMED` | open, register, receive loop, send, shutdown | inbound streams, send API, stack |
| ud3tn convergence layer, `ud3tn-integration/src/cla_csp.c` | link hash table, per-link semaphores and tasks | create, send, receive, terminate links | C library |
| Unibo-BP daemon, `unibo-integration/src/cspcl_daemon.c` | peer table with a fixed number of slots | callbacks, receive loop, shutdown | C library, Unibo-BP |
| Addresses, interface specs, error categories | none | pure conversions | all |

Hard behaviours: threads sharing a pool whose `initialized` flag is read without
its lock; acknowledgements that name no bundle; a retry of what may already have
arrived; an accept thread that starts and stops while streams open and close; a
close racing an accept that would reopen the socket; listeners that still hold a
bundle when nobody listens; table slots freed in a fixed order; counters that
wrap and ages in whole seconds; threads that start the process-wide stack at
once and fail halfway; sends dropped by their callers while they queue; a thread
that opens a stream behind a shutdown; tasks that wait for each other's
semaphores.

What makes each component correct: the pool owns its connections exclusively,
loses none, closes its victim before it connects and only ever evicts the one
unused for longest; a send reports OK only for a bundle its peer kept; the
receiver neither loses nor duplicates an acknowledged bundle, runs one accept
thread and stays closed when closed; the table bounds what is open and the C
cleanup comes last; the process has one stack that every instance agrees with,
each on its own port; a caller of send hears what happened to its bundle and the
instance outlives its sends; a receive loop reopens after failures and is over
after a shutdown; every call returns.

## 2. Modules

| Module | Models | Notes |
|---|---|---|
| `ConnPool` | pool, `cspcl_send_bundle`, `cspcl_conn_pool_add`, init, cleanup | one action per critical step; a thread's `pc` says where it is in the call |
| `LruPool` | what the pool promises (abstract) | bounded list in order of use |
| `Delivery` | `ConnPool` composed with links and receiving nodes | extends `ConnPool`: every action of a sender is taken together with its effect on the link; `cspcl_conn_pool_add` is not composed |
| `BundleService` | what a hop promises (abstract) | honest OK, at most two copies, one final answer |
| `Receiver` | streams, accept thread, listeners, `close_rx_socket` | one action per critical section of the state mutex or the accept mutex, or per blocking C call |
| `RxTable` | `cspcl_recv_bundle`, `cspcl_rx_table_store`, the table's part of init and cleanup | one call at a time: accept, then one action per read of the scan |
| `ListenerTable` | connection table, drop order, reference count | receiving is a switch of the environment here; `Receiver` models it |
| `Stack` | `cspcl_init`, `cspcl_open_rx_socket`, `cspcl_close_rx_socket`, `cspcl_cleanup`, `Cspcl::new`/`Drop`, `CspclLink::new`, `Cla::new` | one thread per instance; one action per critical section of the global lock, or what lies between two |
| `LinkConfig` | what picod3tn's command line accepts and what reaches the C structure | operators; texts are numbers and lengths |
| `Errors` | C codes, Rust errors, categories, `FailureKind` | operators |
| `SendQueue` | `send_bundle`, `send_bundle_async`, `CspclLink::send`, `Cla::forward` | a future and a task per send, the send mutex, the `Arc` count |
| `RxLoop` | hardy's dispatcher and pico's `incoming()`, the thread that opens a stream, `cleanup()`/`shutdown()` | the receiver reduced to one stream |
| `Ud3tnLinks` | link table, link managers, receive task, contact calls, launch, terminate | one action per semaphore operation that can block |
| `MC*` | constants, symmetry sets, views, refinement mappings for TLC | |
| `*Proofs` | theorems | section 5 |

How they fit together. `Delivery` extends `ConnPool` and refines `BundleService`;
`ConnPool` refines `LruPool`. `Stack` and `SendQueue` use `Errors`, `Stack` uses
`LinkConfig`. `RxLoop` sits on top of what `Receiver` shows (bundles kept for the
next stream, streams ended by a close or by the accept thread), `SendQueue` on top
of what `Delivery` shows (the codes a send can return and what they mean for the
wire).

`ConnPool`. `entries`, `tick`, `stats`, `initialized` are the fields of
`cspcl_conn_pool_t`; `lock` is the mutex's holder and `mutex` whether the mutex
object exists; `conns` is libcsp's connection table. `SendCheck` is the unlocked
part of `cspcl_send_bundle`, `SendLock` the mutex, `GetHit/GetAged/GetFree/
GetEvict` the lookup up to `csp_connect`, `ConnectOK/ConnectFails` its outcome,
`ConfirmOK/ConfirmFails` the outcome of send-and-wait with the invalidation that
follows a failure, `SendUnlock` the return. The other actions are
`cspcl_conn_pool_add` (`CallerConnects`, `AddCheck`, `AddStore`, `AddFails`),
`Cleanup`, `Destroy`, `PoolInit` and the clock. An unused entry is one value:
every read in C is guarded by `used`. A destroyed mutex is undefined behaviour in
C; a waiter may get it or the call may fail. That `PoolInit` happens only while no
thread is inside the pool is an assumption on the caller: `cspcl_conn_pool_init`
(`src/cspcl.c:420-458`) checks nothing of the kind.

`Delivery` names a call and its bundle by the call's number. A connection object
stands for a link with fragments in flight, fragments reassembled so far and acks
in flight back. The receiver keeps the bundle and then acknowledges, or fails to;
it times out between fragments, closes on a fragment out of order, or its end of
the link goes away with what is in flight. Links never reorder or duplicate: that
is RDP's promise and libcsp is external. Its threads only send: what
`cspcl_conn_pool_add` does to the table is checked in `ConnPool`, and whether a
connection handed to it is quiet is up to its caller. A bundle larger than the receiver's
buffer is not modelled (both ends share `CSPCL_MAX_BUNDLE_SIZE`).

`Receiver` keeps the fields of `ReceiverState` under their names; `stopped` is the
stop time reduced to not stopped, within the grace, and past it. A stream goes
unused, waiting for closes, possibly asleep on the condition variable, spawning
the accept thread, open, dropped. `Kept(q)` is what a closing stream hands on: the
bundles of its queue in order, without the errors. It is written by rank, so that
it can be reasoned about; TLC checks it against `SelectSeq` (`KeptFilters` in
`MCReceiver`). `Listeners` has as many names as the table has
slots, and a listener may be told to close at any time.

`RxTable` keeps `rx_conns` and `rx_tick`. A call is `Call`, then `AcceptNew`,
`AcceptTimeout` or `AcceptFails`, then the scan: `ReadOK`, `ReadTimeout`,
`ReadError`, `ScanEnds`. `inbox` is what waits on a connection; `spent` is the
longest the call may have waited in vain. The code asks for `read_timeout`, but
libcsp raises the timeout of a read on an RDP connection to that of the connection
(`RdpMs`, 10 s) and starts it again for every fragment (`inbound.rs:8-12,56-75`), so
a read costs up to `ReadWait` per fragment, with at most `MaxFrags` fragments. `since` (for each connection of the table,
those active after it) and `wrapped` are history. The ack a read sends is part of
`Delivery`.

`ListenerTable` keeps activity times as ranks: `recency` is 0 for a listener
without one, and the most recently active has the highest. Two activities in the
same millisecond are ordered; no property depends on it.

`Stack` names a socket for the port it is bound to: libcsp gives a port to one
socket and never takes it back. The steps of `cspcl_open_rx_socket` are a lookup
under the lock, `csp_bind` and `csp_listen` without it, and a publication under
it; `cspcl_accept_conn` goes through the same steps (`re...`), where an error only
ends the accept. `links` is history: links ever opened.

`SendQueue`: a send is called once. `task` goes queued, running (waiting for the
send mutex), in C, finished, done; a runtime shutdown aborts what is queued.
`holds` and `owner` are the `Arc`s; `cret` and `wire` remember what C returned and
whether fragments left. A task may panic before its turn or after it, when it logs
the outcome. A caller told "cancelled" knows nothing of its bundle: the docs say it
may still be delivered if its send had started (`bundle.rs:77-79`, picod3tn
`error.rs:60-61`), and `AnswerCut` lets the stopped runtime end the wait for a task
in any state. So `GivenUpNotSent` speaks of permanent failures only, and what is
claimed of a cancelled send is that it does not start afterwards (`DroppedNotSent`).
`FailureKind_of`, `from_raw` and `code` are in `Errors`.

`RxLoop`: hardy and pico differ in how they learn of a shutdown, so `adapter` is
chosen in `Init` and the guards that differ name it. `loop` is the await the task
is at; `closed`, `holder`, `cancel` are the flag, its mutex and the token or watch;
`cause` and `streak` are history. Delays are in milliseconds. `queue` has the
unread bundles of the stream and `errs` counts its unread errors: both loops log an
error and read on, so where it lies between two bundles decides nothing. `Arrive` is
a listener's `deliver()`; bundles are numbered in that order. With several listeners
the order of the acknowledgements, sent before, may differ.

`Ud3tnLinks`: `param_semphr` of each link, `param_htab_sem` and `rx_task_sem` are
booleans, whether the semaphore can be taken; nobody owns them. After a failed
`csp_cla_launch` (`LaunchFails`) the agent makes no call. The bytes and the parser
are left out.

In every module `TypeOK` documents the shape of the state. It is proved for
`ConnPool`; the proofs about the other modules carry the part of it they need
(`ShapeInv`) in their inductive invariants.

## 3. Runs

`pass` unless marked. Runs with a liveness property are fair. Symmetry is used in
safety runs only. A view leaves out only variables that no guard and no property
of the run reads, or that the others determine.

| Run | Bounds | Shows |
|---|---|---|
| `conn_pool` | 2 entries, 2 destinations that share their address, 3 connections, a sender and an adder, 3 calls, cleanup at any moment, one step of the clock past the maximal age | `EntriesOwnConns`, `NoLeak`, `RoomToConnect`, `FailedConnClosed`; `ImplementsLru`: the table refines `LruPool`; `CallsReturn` |
| `delivery` | 1 entry, 2 nodes, 2 bundles of 2 fragments, 3 links, ageing after 1 s with clock steps of 1.1 s up to 2.2 s | `CleanReuse`, `ReuseAgeInSeconds`; `ImplementsService`: refines `BundleService` |
| `receiver` | 2 streams, 2 closes, 1 listener, 1 bundle, 1 error | `StreamsServed`, `NoReopenAfterClose`, `BundlesConserved`, `OneReadAfterStop`, `CallsReturn`, `StopsForGood` |
| `listener_table` | 1 slot + 1 extra, 3 listener names, 2 peers | `OpenBound`, `CleanupLast`, `NewcomerKept`, `AcceptsAgain`, `EventuallyCleaned` |
| `rx_table` | 2 entries, 3 peers, 3 connections, timeouts of 0 (the default), 1 ms and 30 s, RDP timeout of 10 s, bundles of 2 fragments, counter modulo 4 | `RxOwnsConns`, `WaitBound`, `EvictsIdlest` |
| `rx_table_live` | 2 entries, 2 peers, 3 connections, the default timeout | `ServedWhenQuiet` |
| `rx_loop` | both adapters, 2 bundles, 7 failures | `StoppedForGood`, `BundlesKept`, `BackoffLaw`, `EndNotRetried`, `ShutdownReturns`, `Reopens` |
| `send_queue` | 2 sends of every kind, 1 pool thread, 1 panic | `AnswerIsTrue`, `GivenUpNotSent`, `FreedAfterLastSend`, `DroppedNotSent`, `EverySendAnswered`, `InstanceFreed` |
| `stack` | 3 threads, 3 opens, 1 failure, configurations at the limits | `OneLink`, `ListensOnItsPort`, `StackAgrees`, `ConfigUsable` |
| `conn_pool_cleanup` (violation) | 1 sender, cleanup at any moment | a late sender connects in a cleaned-up pool |
| `rx_starvation` (violation) | 2 entries, 2 peers, 3 connections | a peer that reconnects for every bundle starves another |
| `ud3tn` (violation) | 1 peer, 2 links | `csp_cla_terminate()` waits for ever |

Why the bounds are enough. In `conn_pool`, two entries and an adder make a hit, a
miss, an eviction, an invalidation and a duplicate interact; three calls fill the
pool and evict, and the clock's one step ages whatever was pooled before it. The LRU refinement is only claimed,
and only true, without a wrap of the counter (`TickMod = 64` there, 2^32 in C);
that the table stays sound when it wraps is proved. In `delivery`, three links
allow a first connection, its replacement by the retry, and an eviction by a
second bundle; two fragments allow a bundle to break in the middle. In `receiver`,
two closes overlap, two streams hand bundles over in both orders, and the error
budget of one pays for a failed spawn, a panic, an accept error or a read error.
In `rx_table`, three peers for two entries make a reconnect, an eviction and a
read error interact; the third connection is the one waiting to be accepted. Of the
timeouts, 30 s is the one whose share of a read exceeds the RDP timeout. The
counter is a multiple of the table's size, as 2^32 is of 8; in the fair runs it
runs modulo 2, because only its remainder matters there. In `rx_loop`, seven
failures are what the pause needs to reach 30 s (500 ms doubles six times) and
stay there. In `send_queue`, one thread makes the second send queue behind the
first, and a blocking call on its caller's thread competes for the mutex. In
`stack`, three opens are a first start that fails or succeeds, and two instances
that race on the socket; the numbers are at the ends of their ranges (address 31,
port 32, names of 63 and 64 bytes). In `ud3tn` two links are one that ends and its
successor.

Deadlock is checked in the runs of the pool, the delivery and the C receive
table. The others may rest: every stream dropped, every send answered, every
instance open, the CLA terminated.

Fairness, weak unless said. `ConnPool`: a thread inside a call keeps running;
libcsp's calls have timeouts. `Receiver`: threads inside the library run and the
grace passes; the application owes no poll or drop, peers no bundle.
`ListenerTable`: reads end by `CSPCL_SFP_TIMEOUT_MS`, polls by `ACCEPT_POLL`.
`RxTable`: the caller receives in a loop, as the daemons do, and each C call ends by
its timeout; peers owe nothing. `RxLoop`: the task is polled while it is ready, the
opening thread runs, a `cleanup()` in progress goes on; nobody has to shut down.
`SendQueue`: pool threads run, C returns, a caller that has not given up polls its
future. The mutexes need no strong fairness: a holder always leaves them and, in
the bounded instances, the other threads run out of calls. `Ud3tnLinks` has strong
fairness on its semaphores, so that what the run finds is no matter of scheduling.

Mutants. Each property of a passing run comes with a mutant of a mapped
definition (a dropped check, a missing reset, a wrong order) that TLC must catch.

## 4. Findings

1. `conn_pool_cleanup`: `cspcl_send_bundle` does not look at `initialized` again
   under the lock; a sender overtaken by the cleanup opens a connection that the
   next init forgets. That init is the only step that loses a connection (theorem
   `PoolLosesNothing`), and with the caller's senders stopped first it loses none
   (theorem `QuiescentPoolLosesNothing`).
2. `rx_starvation`: the scan of `cspcl_recv_bundle` starts at `rx_tick` modulo the
   table's size. The counter moves by two in a call that accepts and then reads a
   bundle, so a peer that reconnects for every bundle can make every scan reach its
   own entry before a neighbour's, whose bundle then waits for ever. Without new
   connections the start does go round (`ServedWhenQuiet`).
3. `ud3tn`: the manager of a link that ended takes `param_semphr`, keeps it, and
   takes it again before it frees the link (`cla_csp.c:298,312`); when the link
   could not be set up it was never released. The receive task with a bundle for
   that link waits behind it, and `csp_cla_terminate()` waits for the receive task.

Smaller divergences met while modelling, without a run of their own:

- Ages are compared in whole seconds (`src/cspcl.c:164`) where `docs/api/c.md:80`
  says milliseconds; `ReuseAgeInSeconds` is what holds.
- `cspcl_conn_pool_add` does not look for an entry of the same peer
  (`src/cspcl.c:128`), so the "fresh connection" of the retry may be a cached one.
- `docs/api/c.md:183` says `cspcl_recv_bundle` blocks "until a complete bundle is
  received, or until `timeout_ms` milliseconds elapse", and the code splits "the
  remaining time between them" (`src/cspcl.c:914`). On RDP connections libcsp makes
  each of those reads last 10 s, per fragment, as `inbound.rs:8-12` notes: with a
  full table of idle connections a call of 1 s takes 80 s. `WaitBound` is what the
  split still guarantees: per fragment, the timeout once and one RDP timeout (or the
  50 ms floor, if longer) for each entry.
- A listener's check and its read are not atomic (`inbound.rs:641-646`), so a read
  can start, once per listener, after the last stream was dropped
  (`OneReadAfterStop`, proved).
- `csp_init()` runs again after a start whose interface or router failed
  (`src/cspcl.c:304`).
- An instance whose port another instance bound, but whose socket is no longer the
  published one, fails to open (`src/cspcl.c:53-56` speaks of sharing).
- picod3tn calls a failed connection retryable (`error.rs:34-36`) while
  `cspcl_error_is_retryable` does not; `GivenUpNotSent` only needs the other
  direction.
- hardy looks a peer up by the source port of its connection
  (`dispatcher.rs:138-142`), which libcsp picks; pico does not (`rx.rs:27-28`).
- hardy checks no interface name: copy_c_string() cuts one over 63 bytes silently.
  For picod3tn it cannot happen (`ConfigUsable`).
- A `Cla` registered again after it was unregistered never receives again: its
  transport stays closed.

## 5. Proofs

Checked by TLAPS for every value of the constants, from the assumptions named in
the modules (sizes positive, NULL distinct, sets of names finite, lengths natural
numbers). In each module the theorems come from an inductive invariant with
lemmas for its start and for every action.

`ConnPoolProofs`. `TypeCorrect`, `PoolOwnsConns`, `EvictsBeforeConnect`,
`FailureClosesItsConn` and `PoolLosesNothing` hold with cleanup at any moment;
`QuiescentPoolLosesNothing` assumes `QuiescentCleanup`. `TypeOK` needs the bound on
the loop counter (`AttemptBound`). `EntriesOwnConns` needs `OwnInv`: only the holder
of the mutex is inside the send loop (`LockHeld`), a connecting sender has a free
entry that comes before any other entry of its destination (`RoomToConnect`,
`ConnectsAhead`), a sender waiting for an ack uses the first entry of its
destination (`ConfirmsFirst`), and a caller of `cspcl_conn_pool_add` owns an open
connection of its own (`CallerOwns`). `ConfirmsFirst` is what makes
`FailureClosesItsConn` true in the presence of duplicates. `NoLeak` follows from
`OwnInv` step by step; `NothingLost` adds `StoppedEmpty`: with a quiescent cleanup
an uninitialised pool is empty and no sender is inside it. `ReuseAgeBounded` ties
the seconds an entry keeps to the milliseconds of the clock (`BornInv`); two
truncated readings at most m seconds apart are less than m + 1 seconds apart.

`DeliveryProofs`. `HopInvariant` is the inductive invariant, `ReuseIsClean` its most
useful consequence and `HopImplementsService` the refinement of `BundleService`,
action by action. The hop keeps the pool's invariant because each of its steps is a
step of the pool or leaves the pool alone. An ack names no bundle, so that an OK is
true rests on where connections have been: a pooled connection that nobody uses is
quiet (`PooledInv`), and one in use carries its sender's fragments in order, or its
ack, and nothing else (`CarriesInv`). That a call makes at most two copies is a
count: the copies kept and those that can still be completed never exceed the
attempts made (`CopyInv`).

`ReceiverProofs`. `ReceivingTracksStreams`, `OneAcceptThread` and `NothingParked`
from `StreamInv`; `ClosedStaysClosed` from `CloseInv`, which counts the closes in
progress (`closing = Cardinality(Closing)`) and keeps the accept call and the close
apart by the accept mutex; `AtMostOneLateAck` from `ReadInv`: a listener that has
read since the stop is past its check. `NoBundleLost` from `HoldInv`: `Split` shares
the acknowledged bundles out among the listeners' hands, the kept bundles, the
streams and the application, no queue has one twice (`Once`), and only an open
stream has any (`PlaceInv`). The lemmas about `Kept` say that a closing stream hands
on all its bundles, once each.

`RxTableProofs`. `RxTableOwnsConns` needs that the backlog's connections are open
and distinct (`BacklogInv`) and that the table is empty while the library is not
initialised (`ClearedInv`); the lemmas about `Min`, `LeastActive` and `SlotFor` say
where a connection is stored. `IdlestIsEvicted` from `OrderInv`: until the counter
wraps, `last_active` orders the entries as their activity did. `WaitIsBounded` from
`BudgetInv`: what a call has waited plus what the entries still to be read may add
(each costs `MaxFrags` times the longer of its share and the RDP timeout) is within
the limit, which is where dividing the rest of the timeout among the entries in use
is needed.

`ListenerTableProofs`. `CleanupComesLast` and `OpenIsCounted` from `TableInv`: an
open connection belongs to its listener before "release", or to the accept thread
that has not started the listener yet (`OwnerInv`); after the cleanup nobody can
get the instance again (`CleanInv`). `OpenIsBounded` from `RoomInv`: a slot is free
while a connection is accepted, and the listeners that stay are at most `MaxConns`,
of different peers, the newcomer left out until `supersede()` has made room.
`NewcomerIsKept` from `NewInv`: the newcomer is not evicted when `supersede()`
starts.

`RxLoopProofs`. `ShutdownIsFinal` from `LockInv`, which says who holds the lock and
that a thread past its check of the flag keeps the shutdown out;
`ShutdownEndsLoop` also from `PlaceInv` and `CloseInv`: a shutdown that ends a
stream finds it in the loop's hands, and pico's loop with that stream does not get
back to opening another. `BackoffDoubles` from `BackoffInv`: `backoff` is the delay
of the next quick failure. `AckedBundlesKept` from `KeepInv`: each acknowledged
bundle is in one place (`ShareInv`), and while the loop lives the delivered bundles,
the one in hand, the unread and the kept ones are one line in the order the
listeners handed them over (`LineInv`). It needs `PlaceInv`: the one stream that is dropped
behind kept bundles is one nobody waits for any more, because the loop is over.

`SendQueueProofs`. `InstanceOutlivesSends` from `KeptInv`: a send that may still
enter C has its own `Arc`, or is a blocking call whose caller borrows the
application's; `DroppedNeverStarts` from `DropInv`: the flag of a future that is
gone is set. `CallersAreTold` and `GivenUpNeverSent` from `OutcomeInv`, which follows
the outcome from C to the caller: a task's result is the error of C's code, a send
C was not called for put nothing on the wire, and a task that skipped its turn has
no caller any more. A panic or a cancellation hides the outcome; neither is
permanent.

`StackProofs`. `OneStack`, `OwnPort`, `OneLinkPerProcess` from three inductive
invariants: the router runs exactly when the stack does and nobody is past the
start before (`StackInv`), a socket about to be published is on its instance's port
(`PortInv`), and the one link being opened has the claim (`ClaimInv`).
`AcceptedIsUsable` from `UsableInv` and what the checks of the command line let
through (`NamesFit`, `AddressesInRange`, `ArgsUsable`), for names of any length and
numbers of any size.

Only model-checked: everything under fairness (liveness is out of the prover's
reach), that is `CallsReturn`, `StopsForGood`, `AcceptsAgain`, `EventuallyCleaned`,
`ServedWhenQuiet`, `ShutdownReturns`, `Reopens`, `EverySendAnswered` and
`InstanceFreed`; and `ImplementsLru`, whose mapping sorts the table into a list by
a recursive operator, which no theorem can reach.

## 6. Not modelled

- libcsp, tokio, the BPAs and Unibo-BP: external; modelled where `src/` shows how
  they are used.
- The Unibo-BP daemon, for scope. Its peer slots, receive loop and shutdown are
  decided in `cspcl_daemon.c` and could be modelled; that a bundle of a new peer is
  dropped while every slot is taken can be read off lines 447-458 and 770. Only
  whether a send callback can still use a peer while the shutdown clears it depends
  on which callbacks the external Unibo-BP library runs when, and a model would have
  to assume that.
- The bytes in ud3tn's link buffers and its bundle parser; the table of peers by
  address in hardy.
- Parsing and formatting of addresses and specifications, beyond the ranges and
  lengths in `LinkConfig`; error texts; logging.
- Getters and raw connection wrappers of the FFI layer: no state of their own.
- The command line of hardy-cspcl-server, stubs, tools, docker and CI files.

What would extend the project: a model of the Unibo-BP daemon, with the library's
callback rules as its assumptions; `cspcl_conn_pool_add` in `Delivery`; the refinement of `LruPool` with a mapping that
needs no recursion, so that it could be proved.
