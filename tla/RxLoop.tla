------------------------------- MODULE RxLoop -------------------------------
(***************************************************************************)
(* The receive loops the bundle protocol agents run over a Cspcl instance: *)
(* hardy-cspcl's dispatcher task (dispatcher.rs, lib.rs, cla.rs,           *)
(* transport.rs) and picod3tn-cspcl's incoming() stream (rx.rs, link.rs).  *)
(* They are copies of one another that differ in how they learn of a       *)
(* shutdown, so they are one module: "adapter" is chosen at Init.          *)
(*                                                                         *)
(* Four threads of control meet here: the loop, the thread it starts to    *)
(* open a stream, the caller of cleanup()/shutdown(), and the binding's    *)
(* receiver (module Receiver), of which this module keeps what a loop with *)
(* one stream sees.  The loop is a location between two awaits.            *)
(***************************************************************************)
EXTENDS Integers, Sequences

CONSTANTS
    Adapters,     \* the loops to check, of {"hardy", "pico"}
    MaxBundles,   \* bound: bundles the receiver acknowledges
    MaxFails      \* bound: failed opens, failed streams, receive errors

ASSUME RxLoopAssumption ==
    /\ Adapters \subseteq {"hardy", "pico"}
    /\ MaxBundles \in Nat
    /\ MaxFails \in Nat

VARIABLES
    adapter,      \* which loop runs
    sink,         \* the CLA was registered (hardy)
    closed,       \* the mutex-protected flag of the transport or the link
    holder,       \* who holds that mutex
    cancel,       \* cancellation token (hardy), shutdown watch (pico)
    loop,         \* where the loop is
    backoff,      \* Backoff.delay
    pause,        \* the delay the loop last waited, or waits
    hand,         \* the bundle the loop is dispatching (hardy)
    opener,       \* where the thread that opens a stream is
    answer,       \* what that thread put in the oneshot channel
    shut,         \* where cleanup() or shutdown() is
    stream,       \* the InboundStream, wherever it is held
    queue,        \* its unread bundles
    errs,         \* its unread errors, wherever they lie between the bundles
    pending,      \* ReceiverState.pending
    arrived,      \* bundles acknowledged so far
    fails,        \* failures so far
    got,          \* history: bundles the application or the BPA has
    gone,         \* history: bundles the BPA refused, or whose dispatch was dropped
    cause,        \* history: whether a stream was opened, why the last ended
    streak        \* history: quick failures in a row

flagVars == <<closed, holder, cancel>>
loopVars == <<loop, backoff, pause, hand, streak>>
openVars == <<opener, answer>>
recvVars == <<stream, queue, errs, pending>>
histVars == <<got, gone, cause>>
countVars == <<arrived, fails>>
vars == <<adapter, sink, flagVars, loopVars, openVars, shut, recvVars,
          histVars, countVars>>

-----------------------------------------------------------------------------
(* Types *)

NOTHING == 0  \* no bundle
NONE == "none"

REOPEN_DELAY == 500
MAX_REOPEN_DELAY == 30000

Items == 0..MaxBundles
Delays == 500..30000

Loops == {"off", "top", "opening", "reading", "polled", "dispatch", "wait",
          "ended", "dropped"}

TypeOK ==
    /\ adapter \in Adapters
    /\ sink \in BOOLEAN /\ closed \in BOOLEAN /\ cancel \in BOOLEAN
    /\ holder \in {NONE, "opener", "shut"}
    /\ loop \in Loops
    /\ backoff \in Delays /\ pause \in Delays
    /\ hand \in Items /\ errs \in 0..MaxFails
    /\ opener \in {NONE, "started", "locked", "checked", "sending"}
    /\ answer \in {NONE, "stream", "closed", "dead"}
    /\ shut \in {"idle", "cancelled", "closing", "closed", "done"}
    /\ stream \in {NONE, "open", "ended"}
    /\ queue \in Seq(Items) /\ pending \in Seq(Items) /\ got \in Seq(Items)
    /\ gone \subseteq Items
    /\ arrived \in 0..MaxBundles /\ fails \in 0..MaxFails
    /\ cause \in {NONE, "live", "fail", "close"}
    /\ streak \in Nat

\* Cla::new() or CspclLink::new() succeeded; a link needs no registration.
Init ==
    /\ adapter \in Adapters
    /\ sink = (adapter = "pico")
    /\ closed = FALSE /\ cancel = FALSE /\ holder = NONE
    /\ loop = "off"
    /\ backoff = REOPEN_DELAY /\ pause = REOPEN_DELAY
    /\ hand = NOTHING
    /\ opener = NONE /\ answer = NONE
    /\ shut = "idle"
    /\ stream = NONE /\ queue = <<>> /\ errs = 0 /\ pending = <<>>
    /\ arrived = 0 /\ fails = 0
    /\ got = <<>> /\ gone = {} /\ cause = NONE
    /\ streak = 0

Holding == hand # NOTHING

Min(a, b) == IF a < b THEN a ELSE b

Fail == fails < MaxFails /\ fails' = fails + 1

-----------------------------------------------------------------------------
(* Start *)

\* on_register(): the sink is set once; add_peer() failures are only logged.
Register ==
    /\ adapter = "hardy" /\ ~sink
    /\ sink' = TRUE
    /\ UNCHANGED <<adapter, flagVars, loopVars, openVars, shut, recvVars,
                   histVars, countVars>>

\* start_dispatcher(): the task needs the sink.
StartDispatcher ==
    /\ adapter = "hardy" /\ loop = "off" /\ sink
    /\ loop' = "top"
    /\ UNCHANGED <<adapter, sink, flagVars, backoff, pause, hand, streak,
                   openVars, shut, recvVars, histVars, countVars>>

\* incoming(): receiving starts when the stream is first polled.
StartIncoming ==
    /\ adapter = "pico" /\ loop = "off"
    /\ loop' = "top"
    /\ UNCHANGED <<adapter, sink, flagVars, backoff, pause, hand, streak,
                   openVars, shut, recvVars, histVars, countVars>>

-----------------------------------------------------------------------------
(* The receiver, as one stream sees it *)

\* Mutant: a stream dropped with unread bundles loses them.
DropStream_Loses ==
    /\ stream' = NONE
    /\ queue' = <<>> /\ errs' = 0
    /\ UNCHANGED pending

\* unsubscribe(): unread bundles are kept for the next stream.
DropStream ==
    /\ stream' = NONE
    /\ queue' = <<>> /\ errs' = 0
    /\ pending' = pending \o queue

\* A listener hands over (deliver()) a bundle it acknowledged; reads in progress
\* when receiving stopped still do.  Bundles are numbered as they are handed
\* over: two listeners may have acknowledged theirs in the other order.
Arrive ==
    /\ arrived < MaxBundles
    /\ cause # NONE
    /\ arrived' = arrived + 1
    /\ IF stream = "open"
       THEN queue' = Append(queue, arrived + 1) /\ UNCHANGED pending
       ELSE pending' = Append(pending, arrived + 1) /\ UNCHANGED queue
    /\ UNCHANGED <<adapter, sink, flagVars, loopVars, openVars, shut, stream,
                   errs, histVars, fails>>

\* The accept thread does not start: accept_failed() inside inbound().
StreamStillborn ==
    /\ opener = "sending" /\ stream = "open"
    /\ Fail
    /\ stream' = "ended" /\ cause' = "fail"
    /\ pending' = pending \o queue
    /\ queue' = <<>> /\ errs' = 1
    /\ UNCHANGED <<adapter, sink, flagVars, loopVars, openVars, shut, got,
                   gone, arrived>>

\* The accept thread panics: AcceptGuard ends the streams.
StreamDies ==
    /\ stream = "open" /\ opener # "sending"
    /\ Fail
    /\ stream' = "ended" /\ cause' = "fail"
    /\ UNCHANGED <<adapter, sink, flagVars, loopVars, openVars, shut, queue,
                   errs, pending, got, gone, arrived>>

\* A connection's thread does not start: the stream gets the error.
StreamError ==
    /\ stream = "open"
    /\ Fail
    /\ errs' = errs + 1
    /\ UNCHANGED <<adapter, sink, flagVars, loopVars, openVars, shut, stream,
                   queue, pending, histVars, arrived>>

-----------------------------------------------------------------------------
(* Opening a stream: Transport::inbound_stream(), Source::open() *)

\* Mutant: the delay starts over at every failure.
Wait_Resets(delay) ==
    /\ loop' = "wait"
    /\ pause' = delay
    /\ backoff' = REOPEN_DELAY

\* Backoff::wait(): doubles the delay first, then waits the old one.
Wait(delay) ==
    /\ loop' = "wait"
    /\ pause' = delay
    /\ backoff' = Min(delay * 2, MAX_REOPEN_DELAY)

\* hardy polls its token before it opens or reads, and before the sleep.
Interrupted == adapter = "hardy" /\ cancel

SpawnOpener ==
    /\ loop = "top" /\ ~Interrupted
    /\ opener' = "started"
    /\ loop' = "opening"
    /\ UNCHANGED <<adapter, sink, flagVars, backoff, pause, hand, streak,
                   answer, shut, recvVars, histVars, countVars>>

\* No thread could be started: OpenError::Failed.
SpawnOpenerFails ==
    /\ loop = "top" /\ ~Interrupted
    /\ Fail
    /\ Wait(backoff)
    /\ streak' = streak + 1
    /\ UNCHANGED <<adapter, sink, flagVars, hand, openVars, shut, recvVars,
                   histVars, arrived>>

OpenerLocks ==
    /\ opener = "started" /\ holder = NONE
    /\ holder' = "opener"
    /\ opener' = "locked"
    /\ UNCHANGED <<adapter, sink, closed, cancel, loopVars, answer, shut,
                   recvVars, histVars, countVars>>

\* The flag is down; the lock is kept.
OpenerChecks ==
    /\ opener = "locked" /\ ~closed
    /\ opener' = "checked"
    /\ UNCHANGED <<adapter, sink, flagVars, loopVars, answer, shut, recvVars,
                   histVars, countVars>>

\* inbound(): the bundles kept for the next stream come first.
OpenerOpens ==
    /\ opener = "checked"
    /\ opener' = "sending"
    /\ stream' = "open" /\ queue' = pending /\ errs' = 0 /\ pending' = <<>>
    /\ cause' = "live"
    /\ UNCHANGED <<adapter, sink, flagVars, loopVars, answer, shut, got, gone,
                   countVars>>

\* Mutant: the guard is not dropped after the stream is sent.
OpenerSends_KeepsLock ==
    /\ opener = "sending"
    /\ opener' = NONE
    /\ IF loop = "opening"
       THEN answer' = "stream" /\ UNCHANGED recvVars
       ELSE DropStream /\ UNCHANGED answer
    /\ UNCHANGED <<adapter, sink, flagVars, loopVars, shut, histVars, countVars>>

\* tx.send(), then the guard is dropped; without a reader the stream is too.
OpenerSends ==
    /\ opener = "sending"
    /\ opener' = NONE /\ holder' = NONE
    /\ IF loop = "opening"
       THEN answer' = "stream" /\ UNCHANGED recvVars
       ELSE DropStream /\ UNCHANGED answer
    /\ UNCHANGED <<adapter, sink, closed, cancel, loopVars, shut, histVars,
                   countVars>>

OpenerRefuses ==
    /\ opener = "locked" /\ closed
    /\ opener' = NONE /\ holder' = NONE
    /\ answer' = IF loop = "opening" THEN "closed" ELSE answer
    /\ UNCHANGED <<adapter, sink, closed, cancel, loopVars, shut, recvVars,
                   histVars, countVars>>

\* The thread panics: the poisoned mutex stays usable, the sender is dropped.
OpenerPanics ==
    /\ opener = "checked"
    /\ Fail
    /\ opener' = NONE /\ holder' = NONE
    /\ answer' = IF loop = "opening" THEN "dead" ELSE answer
    /\ UNCHANGED <<adapter, sink, closed, cancel, loopVars, shut, recvVars,
                   histVars, arrived>>

TakeStream ==
    /\ loop = "opening" /\ ~Interrupted
    /\ answer = "stream" /\ answer' = NONE
    /\ loop' = "reading"
    /\ UNCHANGED <<adapter, sink, flagVars, backoff, pause, hand, streak,
                   opener, shut, recvVars, histVars, countVars>>

TakeClosed ==
    /\ loop = "opening" /\ ~Interrupted
    /\ answer = "closed" /\ answer' = NONE
    /\ loop' = "ended"
    /\ UNCHANGED <<adapter, sink, flagVars, backoff, pause, hand, streak,
                   opener, shut, recvVars, histVars, countVars>>

\* Mutant: a failed open is taken for a closed link.
TakeFailed_Ends ==
    /\ loop = "opening" /\ ~Interrupted
    /\ answer = "dead" /\ answer' = NONE
    /\ loop' = "ended"
    /\ UNCHANGED <<adapter, sink, flagVars, backoff, pause, hand, streak,
                   opener, shut, recvVars, histVars, countVars>>

TakeFailed ==
    /\ loop = "opening" /\ ~Interrupted
    /\ answer = "dead" /\ answer' = NONE
    /\ Wait(backoff)
    /\ streak' = streak + 1
    /\ UNCHANGED <<adapter, sink, flagVars, hand, opener, shut, recvVars,
                   histVars, countVars>>

-----------------------------------------------------------------------------
(* Reading *)

\* hardy: the token was not cancelled, the stream is polled next.
Poll ==
    /\ adapter = "hardy" /\ loop = "reading" /\ ~cancel
    /\ loop' = "polled"
    /\ UNCHANGED <<adapter, sink, flagVars, backoff, pause, hand, streak,
                   openVars, shut, recvVars, histVars, countVars>>

AtStream == loop = (IF adapter = "hardy" THEN "polled" ELSE "reading")

Drained == queue = <<>> /\ errs = 0

\* hardy: neither is ready, both are polled again once woken.
PollAgain ==
    /\ loop = "polled" /\ Drained /\ stream = "open"
    /\ loop' = "reading"
    /\ UNCHANGED <<adapter, sink, flagVars, backoff, pause, hand, streak,
                   openVars, shut, recvVars, histVars, countVars>>

\* A bundle: hardy dispatches it, pico yields it.
ReadBundle ==
    /\ AtStream /\ queue # <<>>
    /\ queue' = Tail(queue)
    /\ loop' = "dispatch"
    /\ IF adapter = "hardy"
       THEN hand' = Head(queue) /\ UNCHANGED got
       ELSE got' = Append(got, Head(queue)) /\ UNCHANGED hand
    /\ UNCHANGED <<adapter, sink, flagVars, backoff, pause, streak, openVars,
                   shut, stream, errs, pending, gone, cause, countVars>>

\* An error is logged and skipped.
ReadError ==
    /\ AtStream /\ errs > 0
    /\ errs' = errs - 1
    /\ loop' = "reading"
    /\ UNCHANGED <<adapter, sink, flagVars, backoff, pause, hand, streak,
                   openVars, shut, stream, queue, pending, histVars, countVars>>

\* The stream ended after a shutdown: pico looks at the flag.
ReadEndShut ==
    /\ AtStream /\ Drained /\ stream = "ended"
    /\ adapter = "pico" /\ cancel
    /\ stream' = NONE
    /\ loop' = "ended"
    /\ UNCHANGED <<adapter, sink, flagVars, backoff, pause, hand, streak,
                   openVars, shut, queue, errs, pending, histVars, countVars>>

\* The stream failed; "long" is opened_at.elapsed() > backoff.delay.
StreamFailed(long) ==
    /\ AtStream /\ Drained /\ stream = "ended"
    /\ stream' = NONE
    /\ Wait(IF long THEN REOPEN_DELAY ELSE backoff)
    /\ streak' = IF long THEN 1 ELSE streak + 1
    /\ UNCHANGED <<adapter, sink, flagVars, hand, openVars, shut, queue,
                   errs, pending, histVars, countVars>>

\* hardy takes every end that is not preceded by the cancel for a failure.
ReadEnd(long) == adapter = "hardy" /\ StreamFailed(long)

ReadEndOpen(long) == adapter = "pico" /\ ~cancel /\ StreamFailed(long)

WaitOver ==
    /\ loop = "wait" /\ ~cancel
    /\ loop' = "top"
    /\ UNCHANGED <<adapter, sink, flagVars, backoff, pause, hand, streak,
                   openVars, shut, recvVars, histVars, countVars>>

WaitShut ==
    /\ loop = "wait" /\ cancel
    /\ loop' = "ended"
    /\ UNCHANGED <<adapter, sink, flagVars, backoff, pause, hand, streak,
                   openVars, shut, recvVars, histVars, countVars>>

\* hardy: the BPA took the bundle or refused it; pico: polled again.
Dispatch(accepted) ==
    /\ loop = "dispatch"
    /\ loop' = "reading"
    /\ hand' = NOTHING
    /\ IF ~Holding
       THEN accepted /\ UNCHANGED <<got, gone>>
       ELSE IF accepted THEN got' = Append(got, hand) /\ UNCHANGED gone
       ELSE gone' = gone \cup {hand} /\ UNCHANGED got
    /\ UNCHANGED <<adapter, sink, flagVars, backoff, pause, streak, openVars,
                   shut, recvVars, cause, countVars>>

\* What the loop owns is dropped with it.
DropHeld ==
    IF answer = "stream" \/ loop \in {"reading", "polled", "dispatch"}
    THEN DropStream
    ELSE UNCHANGED recvVars

\* hardy's biased select takes the cancel first.
Break ==
    /\ Interrupted /\ loop \in {"top", "opening", "reading"}
    /\ loop' = "ended"
    /\ DropHeld
    /\ answer' = NONE
    /\ UNCHANGED <<adapter, sink, flagVars, backoff, pause, hand, streak,
                   opener, shut, histVars, countVars>>

\* The runtime shuts down (hardy) or the application drops the stream (pico).
Abort ==
    /\ loop \in {"top", "opening", "reading", "dispatch", "wait"}
    /\ loop' = "dropped"
    /\ DropHeld
    /\ answer' = NONE
    /\ hand' = NOTHING
    /\ gone' = IF Holding THEN gone \cup {hand} ELSE gone
    /\ UNCHANGED <<adapter, sink, flagVars, backoff, pause, streak, opener,
                   shut, got, cause, countVars>>

-----------------------------------------------------------------------------
(* Shutting down: Cla::cleanup(), CspclLink::shutdown() *)

\* hardy cancels the token before it takes the lock.
ShutCancel ==
    /\ adapter = "hardy" /\ shut = "idle"
    /\ cancel' = TRUE
    /\ shut' = "cancelled"
    /\ UNCHANGED <<adapter, sink, closed, holder, loopVars, openVars,
                   recvVars, histVars, countVars>>

\* Mutant: pico's shutdown() does not raise the flag before it closes.
ShutLock_NoFlag ==
    /\ shut = (IF adapter = "hardy" THEN "cancelled" ELSE "idle")
    /\ holder = NONE /\ holder' = "shut"
    /\ closed' = TRUE
    /\ shut' = "closing"
    /\ UNCHANGED <<adapter, sink, cancel, loopVars, openVars, recvVars,
                   histVars, countVars>>

\* Mutant: the flag is an atomic, no lock keeps the opening thread out.
ShutLock_NoLock ==
    /\ shut = (IF adapter = "hardy" THEN "cancelled" ELSE "idle")
    /\ closed' = TRUE
    /\ cancel' = TRUE
    /\ shut' = "closing"
    /\ UNCHANGED <<adapter, sink, holder, loopVars, openVars, recvVars, histVars,
                   countVars>>

\* pico raises the flag the loop looks at under the lock, before the close.
ShutLock ==
    /\ shut = (IF adapter = "hardy" THEN "cancelled" ELSE "idle")
    /\ holder = NONE /\ holder' = "shut"
    /\ closed' = TRUE
    /\ cancel' = TRUE
    /\ shut' = "closing"
    /\ UNCHANGED <<adapter, sink, loopVars, openVars, recvVars, histVars,
                   countVars>>

\* close_rx_socket(): begin_close() ends the stream.
ShutClose ==
    /\ shut = "closing"
    /\ shut' = "closed"
    /\ stream' = IF stream = "open" THEN "ended" ELSE stream
    /\ cause' = IF stream = "open" THEN "close" ELSE cause
    /\ UNCHANGED <<adapter, sink, flagVars, loopVars, openVars, queue,
                   errs, pending, got, gone, countVars>>

\* The accept poll in progress is over, the socket is closed.
ShutReturn ==
    /\ shut = "closed"
    /\ shut' = "done"
    /\ holder' = NONE
    /\ UNCHANGED <<adapter, sink, closed, cancel, loopVars, openVars,
                   recvVars, histVars, countVars>>

-----------------------------------------------------------------------------
(* Specification *)

LoopStep ==
    \/ SpawnOpener \/ TakeStream \/ TakeClosed \/ TakeFailed
    \/ Poll \/ PollAgain \/ ReadBundle \/ ReadError \/ ReadEndShut
    \/ \E long \in BOOLEAN : ReadEnd(long) \/ ReadEndOpen(long)
    \/ WaitOver \/ WaitShut \/ Break
    \/ \E accepted \in BOOLEAN : Dispatch(accepted)

OpenerStep == OpenerLocks \/ OpenerChecks \/ OpenerOpens \/ OpenerSends \/ OpenerRefuses

ShutStep == ShutClose \/ ShutReturn \/ (shut = "cancelled" /\ ShutLock)

Next ==
    \/ Register \/ StartDispatcher \/ StartIncoming
    \/ Arrive \/ StreamStillborn \/ StreamDies \/ StreamError
    \/ LoopStep \/ SpawnOpenerFails \/ Abort
    \/ OpenerStep \/ OpenerPanics
    \/ ShutCancel \/ ShutLock \/ ShutClose \/ ShutReturn

Spec == Init /\ [][Next]_vars

\* The task is polled while it is ready and Sink::dispatch() or the
\* application's handling of a bundle returns, the opening thread runs, a
\* cleanup() in progress goes on.  Nobody has to shut down.
Fairness == WF_vars(LoopStep) /\ WF_vars(OpenerStep) /\ WF_vars(ShutStep)

FairSpec == Spec /\ Fairness

-----------------------------------------------------------------------------
(* Properties *)

\* Once cleanup() or shutdown() has closed the socket no stream is open, and
\* none can be opened: not by a thread that was about to when it started.
StoppedForGood ==
    shut \in {"closed", "done"} => stream # "open"

\* The end of the stream that a shutdown causes is never taken for a failure
\* that is worth another attempt to open a stream.
EndNotRetried ==
    [][cause = "close" /\ loop # "opening" => loop' # "opening"]_vars

Elements(q) == {q[i] : i \in DOMAIN q}

Distinct(q) == \A i, j \in DOMAIN q : i # j => q[i] # q[j]

Increasing(q) == \A i, j \in DOMAIN q : i < j => q[i] < q[j]

\* The bundles acknowledged to their senders are in one place each: whatever
\* fails, reopens or shuts down, none is lost but those the BPA refused, and
\* they come out in the order the listeners handed them over in.
BundlesKept ==
    LET bundles == queue \o pending \o got
        inHand == {hand} \ {NOTHING}
    IN /\ Elements(bundles) \cup inHand \cup gone = 1..arrived
       /\ Distinct(bundles)
       /\ (inHand \cup gone) \cap Elements(bundles) = {} /\ inHand \cap gone = {}
       /\ Increasing(got)

\* The nth quick failure in a row waits 500 ms * 2^(n-1) up to the sixth, and
\* 30 s from the seventh on.
BackoffLaw ==
    loop = "wait" =>
        pause = IF streak <= 6 THEN REOPEN_DELAY * 2^(streak - 1) ELSE MAX_REOPEN_DELAY

\* A shutdown returns and the loop ends, whatever the loop and its opening
\* thread are doing.
ShutdownReturns ==
    shut # "idle" ~> shut = "done" /\ loop \in {"off", "ended", "dropped"}

\* A loop without a stream gets one: no failure of a thread or of a stream ends
\* receiving, only a shutdown does, or the application dropping the loop.
Reopens ==
    loop \in {"top", "wait"} ~> loop \in {"reading", "dropped"} \/ cancel

=============================================================================
