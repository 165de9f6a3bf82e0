------------------------------ MODULE Receiver ------------------------------
(***************************************************************************)
(* The inbound side of a Cspcl instance of the Rust binding                *)
(* (rust-bindings/cspcl/src/inbound.rs and instance.rs): the streams an    *)
(* application opens and drops, the accept thread that runs while a stream *)
(* is open, the listener threads that read and acknowledge bundles, and    *)
(* close_rx_socket().                                                      *)
(*                                                                         *)
(* Each action is one critical section of the receiver's state mutex, one  *)
(* critical section of the accept mutex, or one blocking C call.  Which    *)
(* connection a full table gives up is module ListenerTable's subject;     *)
(* here a listener may be told to close at any time, and Listeners holds   *)
(* as many names as the table has slots.  A bundle is its number in the    *)
(* order the reads acknowledged them.                                      *)
(***************************************************************************)
EXTENDS Naturals, Sequences, FiniteSets

CONSTANTS
    Streams,      \* InboundStreams, each opened and dropped at most once
    Closers,      \* threads that call close_rx_socket() once
    Listeners,    \* listener threads, one per inbound connection
    NULL,         \* "nobody" holding the accept lock
    MaxBundles,   \* bound: bundles the peers send
    MaxErrors     \* bound: accept and read errors

ASSUME ReceiverAssumption ==
    /\ IsFiniteSet(Closers) /\ NULL \notin Closers
    /\ "accept" \notin Closers /\ NULL # "accept"
    /\ MaxBundles \in Nat
    /\ MaxErrors \in Nat

VARIABLES
    \* ReceiverState
    next_id, subscribers, pending, accept_running, stopped, closing,
    id,           \* the id each stream was given
    stream,       \* where each stream is in its life
    queue,        \* the unread items of each stream
    acc,          \* where the accept thread is
    accept_lock,  \* holder of Cspcl.accept
    sock,         \* rx_socket is not NULL
    closer,       \* where each close_rx_socket() call is
    lis,          \* where each listener is
    hand,         \* the bundle a listener has read and not yet delivered
    read,         \* bundles read and acknowledged so far
    errors,       \* errors so far
    taken,        \* history: bundles the application took from its streams
    reopenable,   \* history: a stream was opened since the last close
    late          \* history: reads that ended since receiving last stopped

stateVars == <<next_id, subscribers, pending, accept_running, stopped, closing>>
streamVars == <<id, stream, queue>>
acceptVars == <<acc, accept_lock, sock>>
listenerVars == <<lis, hand, read, late>>
vars == <<stateVars, streamVars, acceptVars, closer, listenerVars, errors,
          taken, reopenable>>

-----------------------------------------------------------------------------
(* Types *)

ERR == 0   \* an error item in a stream

Items == 0..MaxBundles

StreamStates == {"unused", "wait", "asleep", "spawn", "open", "dropped"}
AcceptStates == {"none", "top", "slot", "poll", "locked", "got", "error", "pause"}
CloserStates == {"idle", "begun", "closed", "unlocked", "done"}
ListenerStates == {"none", "check", "ready", "reading", "hand"}

TypeOK ==
    /\ next_id \in Nat
    /\ subscribers \subseteq Streams
    /\ pending \in Seq(Items)
    /\ accept_running \in BOOLEAN
    /\ stopped \in {"no", "grace", "over"}
    /\ closing \in Nat
    /\ id \in [Streams -> Nat]
    /\ stream \in [Streams -> StreamStates]
    /\ queue \in [Streams -> Seq(Items)]
    /\ acc \in AcceptStates
    /\ accept_lock \in Closers \cup {"accept", NULL}
    /\ sock \in BOOLEAN
    /\ closer \in [Closers -> CloserStates]
    /\ lis \in [Listeners -> ListenerStates]
    /\ hand \in [Listeners -> Items]
    /\ read \in 0..MaxBundles
    /\ errors \in 0..MaxErrors
    /\ taken \subseteq 1..MaxBundles
    /\ reopenable \in BOOLEAN
    /\ late \in [Listeners -> Nat]

\* cspcl_init() opened the socket.
Init ==
    /\ next_id = 0
    /\ subscribers = {}
    /\ pending = <<>>
    /\ accept_running = FALSE
    /\ stopped = "grace"
    /\ closing = 0
    /\ id = [s \in Streams |-> 0]
    /\ stream = [s \in Streams |-> "unused"]
    /\ queue = [s \in Streams |-> <<>>]
    /\ acc = "none"
    /\ accept_lock = NULL
    /\ sock = TRUE
    /\ closer = [k \in Closers |-> "idle"]
    /\ lis = [l \in Listeners |-> "none"]
    /\ hand = [l \in Listeners |-> ERR]
    /\ read = 0
    /\ errors = 0
    /\ taken = {}
    /\ reopenable = TRUE
    /\ late = [l \in Listeners |-> 0]

-----------------------------------------------------------------------------
(* ReceiverState *)

is_receiving == stopped = "no"

\* set_receiving(false): the grace starts only when receiving was on.
StopReceiving == stopped' = IF is_receiving THEN "grace" ELSE stopped

\* The last element of the subscribers vector: ids grow with the pushes.
Newest(subs) == CHOOSE s \in subs : \A x \in subs : id[x] <= id[s]

IsBundle(x) == x # ERR

\* What a stream that ends leaves to others: the bundles among its unread items,
\* in their order.  A bundle goes where its rank among them says.
Kept(q) ==
    LET at == {i \in DOMAIN q : IsBundle(q[i])}
        Rank(i) == Cardinality({j \in at : j <= i})
    IN [k \in 1..Cardinality(at) |-> q[CHOOSE i \in at : Rank(i) = k]]

\* Mutant: a bundle nobody takes is dropped.
deliver_Drops(items) ==
    IF subscribers # {}
    THEN /\ queue' = [queue EXCEPT ![Newest(subscribers)] = @ \o items]
         /\ UNCHANGED pending
    ELSE UNCHANGED <<pending, queue>>

\* deliver() to the newest stream, or keep the bundles for the next one.
deliver(items) ==
    IF subscribers # {}
    THEN /\ queue' = [queue EXCEPT ![Newest(subscribers)] = @ \o items]
         /\ UNCHANGED pending
    ELSE /\ pending' = pending \o Kept(items)
         /\ UNCHANGED queue

\* changed.notify_all(): the streams waiting for a close look again.
Woken == [s \in Streams |-> IF stream[s] = "asleep" THEN "wait" ELSE stream[s]]

-----------------------------------------------------------------------------
(* Streams: subscribe(), accept_failed(), unsubscribe() *)

OpenStream(s) ==
    /\ stream[s] = "unused"
    /\ stream' = [stream EXCEPT ![s] = "wait"]
    /\ UNCHANGED <<stateVars, id, queue, acceptVars, closer, listenerVars,
                   errors, taken, reopenable>>

\* The condition of the wait does not hold: sleep until notified.
SubscribeSleep(s) ==
    /\ stream[s] = "wait" /\ closing > 0
    /\ stream' = [stream EXCEPT ![s] = "asleep"]
    /\ UNCHANGED <<stateVars, id, queue, acceptVars, closer, listenerVars,
                   errors, taken, reopenable>>

Subscribe(s) ==
    /\ stream[s] = "wait" /\ closing = 0
    /\ id' = [id EXCEPT ![s] = next_id]
    /\ next_id' = next_id + 1
    /\ accept_running' = TRUE
    /\ queue' = [queue EXCEPT ![s] = pending]
    /\ pending' = <<>>
    /\ subscribers' = subscribers \cup {s}
    /\ stopped' = "no"
    /\ stream' = [(IF is_receiving THEN stream ELSE Woken) EXCEPT ![s] =
                    IF accept_running THEN "open" ELSE "spawn"]
    /\ late' = [l \in Listeners |-> 0]
    /\ reopenable' = TRUE
    /\ UNCHANGED <<closing, acceptVars, closer, lis, hand, read, errors, taken>>

SpawnAccept(s) ==
    /\ stream[s] = "spawn"
    /\ stream' = [stream EXCEPT ![s] = "open"]
    /\ acc' = "top"
    /\ UNCHANGED <<stateVars, id, queue, accept_lock, sock, closer,
                   listenerVars, errors, taken, reopenable>>

\* The thread does not start: accept_failed(), then the stream gets the error.
SpawnAcceptFails(s) ==
    /\ stream[s] = "spawn"
    /\ errors < MaxErrors
    /\ errors' = errors + 1
    /\ stream' = [stream EXCEPT ![s] = "open"]
    /\ accept_running' = FALSE
    /\ subscribers' = {}
    /\ StopReceiving
    /\ pending' = pending \o Kept(queue[s])
    /\ queue' = [x \in Streams |->
                   IF x = s THEN <<ERR>>
                   ELSE IF x \in subscribers THEN Append(queue[x], ERR)
                   ELSE queue[x]]
    /\ UNCHANGED <<next_id, closing, id, acceptVars, closer, listenerVars,
                   taken, reopenable>>

\* The application polls the next item.
PollNext(s) ==
    /\ stream[s] = "open" /\ queue[s] # <<>>
    /\ queue' = [queue EXCEPT ![s] = Tail(@)]
    /\ taken' = taken \cup ({Head(queue[s])} \ {ERR})
    /\ UNCHANGED <<stateVars, id, stream, acceptVars, closer, listenerVars,
                   errors, reopenable>>

\* unsubscribe(): what was not read goes to the newest other stream, or waits.
Unsubscribe(s) ==
    /\ stream[s] = "open"
    /\ LET others == subscribers \ {s}
           rest == Kept(queue[s])
       IN /\ subscribers' = others
          /\ IF others # {}
             THEN /\ queue' = [queue EXCEPT ![s] = <<>>,
                                            ![Newest(others)] = @ \o rest]
                  /\ UNCHANGED <<pending, stopped>>
                  /\ stream' = [stream EXCEPT ![s] = "dropped"]
             ELSE /\ queue' = [queue EXCEPT ![s] = <<>>]
                  /\ pending' = pending \o rest
                  /\ StopReceiving
                  /\ stream' = [(IF is_receiving THEN Woken ELSE stream)
                                  EXCEPT ![s] = "dropped"]
    /\ UNCHANGED <<next_id, accept_running, closing, id, acceptVars, closer,
                   listenerVars, errors, taken, reopenable>>

-----------------------------------------------------------------------------
(* close_rx_socket() *)

begin_close(k) ==
    /\ closer[k] = "idle"
    /\ StopReceiving
    /\ subscribers' = {}
    /\ closing' = closing + 1
    /\ stream' = Woken
    /\ closer' = [closer EXCEPT ![k] = "begun"]
    /\ UNCHANGED <<next_id, pending, accept_running, id, queue, acceptVars,
                   listenerVars, errors, taken, reopenable>>

\* With the accept lock: the C side forgets the socket.
CloseSocket(k) ==
    /\ closer[k] = "begun" /\ accept_lock = NULL
    /\ accept_lock' = k
    /\ sock' = FALSE
    /\ reopenable' = FALSE
    /\ closer' = [closer EXCEPT ![k] = "closed"]
    /\ UNCHANGED <<stateVars, streamVars, acc, listenerVars, errors, taken>>

\* The guards drop in reverse order: accept lock, then CloseGuard.
ReleaseAccept(k) ==
    /\ closer[k] = "closed"
    /\ accept_lock' = NULL
    /\ closer' = [closer EXCEPT ![k] = "unlocked"]
    /\ UNCHANGED <<stateVars, streamVars, acc, sock, listenerVars, errors,
                   taken, reopenable>>

\* Mutant: the waiting streams are not notified.
EndClose_NoNotify(k) ==
    /\ closer[k] = "unlocked"
    /\ closing' = closing - 1
    /\ closer' = [closer EXCEPT ![k] = "done"]
    /\ UNCHANGED <<next_id, subscribers, pending, accept_running, stopped,
                   streamVars, acceptVars, listenerVars, errors, taken,
                   reopenable>>

EndClose(k) ==
    /\ closer[k] = "unlocked"
    /\ closing' = closing - 1
    /\ stream' = IF closing = 1 THEN Woken ELSE stream
    /\ closer' = [closer EXCEPT ![k] = "done"]
    /\ UNCHANGED <<next_id, subscribers, pending, accept_running, stopped, id,
                   queue, acceptVars, listenerVars, errors, taken, reopenable>>

-----------------------------------------------------------------------------
(* The accept thread: accept_loop(), poll_connection(), spawn_listener() *)

AcceptGoto(a) ==
    /\ acc' = a
    /\ UNCHANGED <<stateVars, streamVars, accept_lock, sock, closer,
                   listenerVars, errors, taken, reopenable>>

FreeListeners == {l \in Listeners : lis[l] = "none"}

\* Mutant: the thread ends without clearing accept_running.
AcceptStop_KeepsClaim == acc = "top" /\ ~is_receiving /\ AcceptGoto("none")

\* Receiving is off: the thread gives up its claim, under the state lock.
AcceptStop ==
    /\ acc = "top" /\ ~is_receiving
    /\ acc' = "none"
    /\ accept_running' = FALSE
    /\ UNCHANGED <<next_id, subscribers, pending, stopped, closing, streamVars,
                   accept_lock, sock, closer, listenerVars, errors, taken,
                   reopenable>>

AcceptContinue == acc = "top" /\ is_receiving /\ AcceptGoto("slot")

\* wait_for_slot()
AcceptNoSlot == acc = "slot" /\ FreeListeners = {} /\ AcceptGoto("top")

AcceptSlot == acc = "slot" /\ FreeListeners # {} /\ AcceptGoto("poll")

\* Mutant: poll_connection() does not look at the receiver state.
AcceptLock_Unchecked ==
    /\ acc = "poll" /\ accept_lock = NULL
    /\ acc' = "locked"
    /\ accept_lock' = "accept"
    /\ UNCHANGED <<stateVars, streamVars, sock, closer, listenerVars, errors,
                   taken, reopenable>>

\* poll_connection() holds the accept lock and finds receiving on ...
AcceptLock ==
    /\ acc = "poll" /\ accept_lock = NULL /\ is_receiving
    /\ acc' = "locked"
    /\ accept_lock' = "accept"
    /\ UNCHANGED <<stateVars, streamVars, sock, closer, listenerVars, errors,
                   taken, reopenable>>

\* ... or off: Err(Timeout) without accepting.
AcceptRefused ==
    /\ acc = "poll" /\ accept_lock = NULL /\ ~is_receiving
    /\ AcceptGoto("top")

\* cspcl_accept_conn() reopens a forgotten socket and returns a connection,
\* a timeout or an error; the accept lock is released.
AcceptCall ==
    /\ acc = "locked"
    /\ sock' = TRUE
    /\ accept_lock' = NULL
    /\ \/ acc' \in {"got", "top"} /\ UNCHANGED errors
       \/ acc' = "error" /\ errors < MaxErrors /\ errors' = errors + 1
    /\ UNCHANGED <<stateVars, streamVars, closer, listenerVars, taken,
                   reopenable>>

SpawnListener(l) ==
    /\ acc = "got" /\ lis[l] = "none"
    /\ lis' = [lis EXCEPT ![l] = "check"]
    /\ late' = [late EXCEPT ![l] = 0]
    /\ acc' = "top"
    /\ UNCHANGED <<stateVars, streamVars, accept_lock, sock, closer, hand, read,
                   errors, taken, reopenable>>

\* The listener thread does not start; its connection is closed.
SpawnListenerFails ==
    /\ acc = "got" /\ errors < MaxErrors
    /\ errors' = errors + 1
    /\ acc' = "error"
    /\ UNCHANGED <<stateVars, streamVars, accept_lock, sock, closer,
                   listenerVars, taken, reopenable>>

AcceptError ==
    /\ acc = "error"
    /\ deliver(<<ERR>>)
    /\ acc' = "pause"
    /\ UNCHANGED <<next_id, subscribers, accept_running, stopped, closing, id,
                   stream, accept_lock, sock, closer, listenerVars, errors,
                   taken, reopenable>>

AcceptResume == acc = "pause" /\ AcceptGoto("top")

\* A panic outside the C call: AcceptGuard ends the streams.
AcceptPanic ==
    /\ acc \in {"slot", "got"}
    /\ errors < MaxErrors
    /\ errors' = errors + 1
    /\ acc' = "none"
    /\ accept_running' = FALSE
    /\ subscribers' = {}
    /\ StopReceiving
    /\ UNCHANGED <<next_id, pending, closing, streamVars, accept_lock, sock,
                   closer, listenerVars, taken, reopenable>>

-----------------------------------------------------------------------------
(* Listeners: listen() *)

ListenerGoto(l, x) ==
    /\ lis' = [lis EXCEPT ![l] = x]
    /\ UNCHANGED <<stateVars, streamVars, acceptVars, closer, hand, read, late,
                   errors, taken, reopenable>>

\* Mutant: the listener reads on regardless.
MayRead_Unchecked(l) == lis[l] = "check" /\ ListenerGoto(l, "ready")

\* wait_while_stopped() returns true.
MayRead(l) == lis[l] = "check" /\ is_receiving /\ ListenerGoto(l, "ready")

\* Mutant: the end of the grace is not noticed.
ListenerStops_OnlyEvicted(l) ==
    /\ lis[l] = "check" /\ is_receiving
    /\ ListenerGoto(l, "none")

\* The grace is over, or the listener was evicted: the connection is closed.
ListenerStops(l) ==
    /\ lis[l] = "check" /\ stopped # "grace"
    /\ ListenerGoto(l, "none")

\* recv_bundle_from_conn() is called: the C library reads from here on.
StartRead(l) == lis[l] = "ready" /\ ListenerGoto(l, "reading")

\* History: one more read has ended, which counts while receiving is off.
CountLate(l) == late' = [late EXCEPT ![l] = IF is_receiving THEN 0 ELSE @ + 1]

\* The C library reassembled a bundle and acknowledged it.
ReadBundle(l) ==
    /\ lis[l] = "reading" /\ read < MaxBundles
    /\ read' = read + 1
    /\ hand' = [hand EXCEPT ![l] = read']
    /\ CountLate(l)
    /\ lis' = [lis EXCEPT ![l] = "hand"]
    /\ UNCHANGED <<stateVars, streamVars, acceptVars, closer, errors, taken,
                   reopenable>>

DeliverBundle(l) ==
    /\ lis[l] = "hand"
    /\ deliver(<<hand[l]>>)
    /\ hand' = [hand EXCEPT ![l] = ERR]
    /\ lis' = [lis EXCEPT ![l] = "check"]
    /\ UNCHANGED <<next_id, subscribers, accept_running, stopped, closing, id,
                   stream, acceptVars, closer, read, late, errors, taken,
                   reopenable>>

\* Timeout: read again; or the peer reset it, or it idled out: close.
ReadTimeout(l) ==
    /\ lis[l] = "reading"
    /\ \E x \in {"check", "none"} : lis' = [lis EXCEPT ![l] = x]
    /\ CountLate(l)
    /\ UNCHANGED <<stateVars, streamVars, acceptVars, closer, hand, read, errors,
                   taken, reopenable>>

ReadError(l) ==
    /\ lis[l] = "reading" /\ errors < MaxErrors
    /\ errors' = errors + 1
    /\ deliver(<<ERR>>)
    /\ lis' = [lis EXCEPT ![l] = "none"]
    /\ UNCHANGED <<next_id, subscribers, accept_running, stopped, closing, id,
                   stream, acceptVars, closer, hand, read, late, taken,
                   reopenable>>

\* STOP_GRACE passes.
GraceEnds ==
    /\ stopped = "grace"
    /\ stopped' = "over"
    /\ UNCHANGED <<next_id, subscribers, pending, accept_running, closing,
                   streamVars, acceptVars, closer, listenerVars, errors, taken,
                   reopenable>>

-----------------------------------------------------------------------------
\* The library's part of opening a stream.
StreamStep(s) ==
    SubscribeSleep(s) \/ Subscribe(s) \/ SpawnAccept(s) \/ SpawnAcceptFails(s)

CloserStep(k) == CloseSocket(k) \/ ReleaseAccept(k) \/ EndClose(k)

AcceptStep ==
    \/ AcceptStop \/ AcceptContinue \/ AcceptNoSlot \/ AcceptSlot
    \/ AcceptLock \/ AcceptRefused \/ AcceptCall
    \/ (\E l \in Listeners : SpawnListener(l)) \/ SpawnListenerFails
    \/ AcceptError \/ AcceptResume \/ AcceptPanic

ListenerStep(l) ==
    \/ MayRead(l) \/ ListenerStops(l) \/ StartRead(l) \/ ReadBundle(l)
    \/ DeliverBundle(l) \/ ReadTimeout(l) \/ ReadError(l)

Next ==
    \/ \E s \in Streams :
         OpenStream(s) \/ StreamStep(s) \/ PollNext(s) \/ Unsubscribe(s)
    \/ \E k \in Closers : begin_close(k) \/ CloserStep(k)
    \/ AcceptStep
    \/ \E l \in Listeners : ListenerStep(l)
    \/ GraceEnds

Spec == Init /\ [][Next]_vars

\* Threads inside the library keep running and time passes; the application
\* and the peers owe nothing.
FairSpec ==
    /\ Spec
    /\ \A s \in Streams : WF_vars(StreamStep(s))
    /\ \A k \in Closers : WF_vars(CloserStep(k))
    /\ WF_vars(AcceptStep)
    /\ \A l \in Listeners : WF_vars(ListenerStep(l))
    /\ WF_vars(GraceEnds)

-----------------------------------------------------------------------------
(* Properties *)

Spawning == {s \in Streams : stream[s] = "spawn"}

\* Receiving is on exactly while a stream is open.
ReceivingIffSubscribed == is_receiving <=> subscribers # {}

\* Every open stream has an accept thread, running or about to be spawned by
\* exactly one subscribe(); there are never two.
StreamsServed ==
    /\ subscribers # {} => accept_running
    /\ accept_running <=> (acc # "none" \/ Spawning # {})
    /\ acc # "none" => Spawning = {}
    /\ \A s, x \in Spawning : s = x

\* No acknowledged bundle waits in the receiver while a stream is open.
PendingOnlyWhileStopped == subscribers # {} => pending = <<>>

\* Once close_rx_socket() has closed the socket, nothing reopens it until
\* another stream is opened.
NoReopenAfterClose == sock => reopenable

Positions(b, q) == {n \in DOMAIN q : q[n] = b}

\* Where a bundle is, each unread copy a place of its own.
Places(b) ==
    {<<"hand", l>> : l \in {m \in Listeners : hand[m] = b}}
      \cup {<<"pending", i>> : i \in Positions(b, pending)}
      \cup {x \in {<<"taken">>} : b \in taken}
      \cup UNION {{<<"queue", s, i>> : i \in Positions(b, queue[s])} : s \in Streams}

\* Every acknowledged bundle is in exactly one place: in the hands of its
\* listener, kept for the next stream, unread in one stream, or taken by the
\* application.
BundlesConserved == \A b \in 1..read : \E p \in Places(b) : Places(b) = {p}

\* Once receiving has stopped, at most one more read of a listener ends, with a
\* bundle it acknowledged or without, before a stream is opened again.
OneReadAfterStop == \A l \in Listeners : late[l] <= 1

\* Some close_rx_socket() runs or some stream is being opened.
InCall ==
    \/ \E k \in Closers : closer[k] \notin {"idle", "done"}
    \/ \E s \in Streams : stream[s] \in {"wait", "asleep", "spawn"}

\* close_rx_socket() returns, since the accept thread gives way, and a stream
\* that is being opened opens, however the closes it waits for overlap.  One
\* call that never ended would keep InCall true for ever.
CallsReturn == InCall ~> ~InCall

\* When receiving stays off, every connection is eventually closed and the
\* accept thread ends.
StopsForGood ==
    [](stopped = "over" => <>(is_receiving \/
         (acc = "none" /\ \A l \in Listeners : lis[l] = "none")))

=============================================================================
