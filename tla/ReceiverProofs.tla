--------------------------- MODULE ReceiverProofs ---------------------------
(***************************************************************************)
(* Proofs about module Receiver, for every number of streams, closes,      *)
(* listeners, bundles and errors: one accept thread while a stream is      *)
(* open, a socket that stays closed, at most one late read, and no         *)
(* acknowledged bundle lost or doubled.                                    *)
(***************************************************************************)
EXTENDS Receiver, FiniteSetTheorems, WellFoundedInduction, TLAPS

\* The part of the type invariant the proofs need: everything but the contents
\* of the queues.
Shape ==
    /\ subscribers \subseteq Streams
    /\ accept_running \in BOOLEAN
    /\ stream \in [Streams -> StreamStates]
    /\ closer \in [Closers -> CloserStates]
    /\ lis \in [Listeners -> ListenerStates]
    /\ late \in [Listeners -> Nat]

Closing == {k \in Closers : closer[k] \in {"begun", "closed", "unlocked"}}

-----------------------------------------------------------------------------
(* Streams and the accept thread *)

StreamInv ==
    /\ Shape
    /\ ReceivingIffSubscribed
    /\ StreamsServed
    /\ PendingOnlyWhileStopped

\* The stream invariant holds of a new receiver.
LEMMA StreamInit == Init => StreamInv
<1> SUFFICES ASSUME Init PROVE StreamInv
  OBVIOUS
<1>1. Shape
  BY DEF Init, Shape, StreamStates, CloserStates, ListenerStates
<1>2. ReceivingIffSubscribed /\ PendingOnlyWhileStopped
  BY DEF Init, ReceivingIffSubscribed, PendingOnlyWhileStopped, is_receiving
<1>3. Spawning = {}
  BY DEF Init, Spawning
<1>4. StreamsServed
  BY <1>3 DEF Init, StreamsServed
<1> QED BY <1>1, <1>2, <1>4 DEF StreamInv

\* A step that touches nothing StreamInv speaks of, but for wake-ups.
LEMMA StreamQuiet ==
    ASSUME StreamInv, Shape',
           UNCHANGED <<subscribers, accept_running, acc>>,
           is_receiving' <=> is_receiving,
           subscribers # {} => pending' = pending,
           Spawning' = Spawning
    PROVE  StreamInv'
BY DEF StreamInv, ReceivingIffSubscribed, StreamsServed, PendingOnlyWhileStopped

\* Woken moves no stream in or out of the state "spawn".
LEMMA WokenFacts ==
    ASSUME Shape
    PROVE  /\ Woken \in [Streams -> StreamStates]
           /\ \A s \in Streams : Woken[s] = "spawn" <=> stream[s] = "spawn"
BY DEF Woken, Shape, StreamStates

\* deliver() keeps pending empty while a stream is open.
LEMMA DeliverFacts ==
    ASSUME NEW items, deliver(items), subscribers # {}
    PROVE  pending' = pending
BY DEF deliver

\* Every step keeps the variables the proofs use well typed.
LEMMA StreamShape == Shape /\ [Next]_vars => Shape'
<1> SUFFICES ASSUME Shape, [Next]_vars PROVE Shape'
  OBVIOUS
<1> USE DEF StreamStates, CloserStates, ListenerStates
<1>1. ASSUME NEW s \in Streams,
             OpenStream(s) \/ SubscribeSleep(s) \/ SpawnAccept(s) \/ PollNext(s)
      PROVE  Shape'
  BY <1>1 DEF OpenStream, SubscribeSleep, SpawnAccept, PollNext, Shape,
              stateVars, listenerVars
<1>2. ASSUME NEW s \in Streams, Subscribe(s) PROVE Shape'
  <2>1. stream' \in [Streams -> StreamStates]
    BY <1>2, WokenFacts DEF Subscribe, Shape
  <2> QED BY <1>2, <2>1 DEF Subscribe, Shape
<1>3. ASSUME NEW s \in Streams, SpawnAcceptFails(s) PROVE Shape'
  BY <1>3 DEF SpawnAcceptFails, Shape, listenerVars
<1>4. ASSUME NEW s \in Streams, Unsubscribe(s) PROVE Shape'
  <2>1. stream' \in [Streams -> StreamStates]
    <3>1. \/ stream' = [stream EXCEPT ![s] = "dropped"]
          \/ stream' = [Woken EXCEPT ![s] = "dropped"]
      BY <1>4, Zenon DEF Unsubscribe
    <3> QED BY <3>1, WokenFacts DEF Shape
  <2> QED BY <1>4, <2>1 DEF Unsubscribe, Shape, listenerVars
<1>5. ASSUME NEW k \in Closers, begin_close(k) \/ CloserStep(k) PROVE Shape'
  BY <1>5, WokenFacts DEF begin_close, CloserStep, CloseSocket, ReleaseAccept,
     EndClose, Shape, stateVars, streamVars, listenerVars
<1>6. CASE AcceptStep
  <2>1. CASE AcceptStop
    BY <2>1 DEF AcceptStop, Shape, streamVars, listenerVars
  <2>2. CASE AcceptContinue \/ AcceptNoSlot \/ AcceptSlot \/ AcceptRefused \/ AcceptResume
    BY <2>2 DEF AcceptContinue, AcceptNoSlot, AcceptSlot, AcceptRefused,
       AcceptResume, AcceptGoto, Shape, stateVars, streamVars, listenerVars
  <2>3. CASE AcceptLock \/ AcceptCall \/ SpawnListenerFails \/ AcceptError \/ AcceptPanic
    BY <2>3 DEF AcceptLock, AcceptCall, SpawnListenerFails, AcceptError,
       AcceptPanic, Shape, stateVars, streamVars, listenerVars
  <2>4. ASSUME NEW l \in Listeners, SpawnListener(l) PROVE Shape'
    BY <2>4 DEF SpawnListener, Shape, stateVars, streamVars
  <2> QED BY <1>6, <2>1, <2>2, <2>3, <2>4 DEF AcceptStep
<1>7. ASSUME NEW l \in Listeners, ListenerStep(l) PROVE Shape'
  <2>1. CASE MayRead(l) \/ ListenerStops(l) \/ StartRead(l)
    <3>1. \E x \in ListenerStates : ListenerGoto(l, x)
      BY <2>1 DEF MayRead, ListenerStops, StartRead
    <3> QED BY <3>1 DEF ListenerGoto, Shape, stateVars, streamVars
  <2>2. CASE ReadBundle(l)
    BY <2>2 DEF ReadBundle, CountLate, Shape, stateVars, streamVars
  <2>3. CASE DeliverBundle(l) \/ ReadError(l)
    BY <2>3 DEF DeliverBundle, ReadError, Shape
  <2>4. CASE ReadTimeout(l)
    BY <2>4 DEF ReadTimeout, CountLate, Shape, ListenerStates, stateVars, streamVars
  <2> QED BY <1>7, <2>1, <2>2, <2>3, <2>4 DEF ListenerStep
<1>8. CASE GraceEnds \/ UNCHANGED vars
  BY <1>8 DEF GraceEnds, vars, Shape, stateVars, streamVars, listenerVars
<1> QED BY <1>1, <1>2, <1>3, <1>4, <1>5, <1>6, <1>7, <1>8 DEF Next, StreamStep

\* subscribe(), its failure path, poll_next() and unsubscribe() preserve the
\* stream invariant.
LEMMA StreamSteps ==
    ASSUME StreamInv, Shape', NEW s \in Streams,
           OpenStream(s) \/ StreamStep(s) \/ PollNext(s) \/ Unsubscribe(s)
    PROVE  StreamInv'
<1>1. CASE OpenStream(s) \/ SubscribeSleep(s)
  <2>1. /\ UNCHANGED <<subscribers, accept_running, acc, pending, stopped>>
        /\ stream[s] # "spawn"
        /\ stream' \in {[stream EXCEPT ![s] = "wait"], [stream EXCEPT ![s] = "asleep"]}
    BY <1>1 DEF OpenStream, SubscribeSleep, stateVars, acceptVars
  <2>2. Spawning' = Spawning
    BY <2>1 DEF Spawning, StreamInv, Shape
  <2> QED BY <2>1, <2>2, StreamQuiet DEF is_receiving
<1>2. CASE PollNext(s)
  <2>1. UNCHANGED <<subscribers, accept_running, acc, pending, stopped, stream>>
    BY <1>2 DEF PollNext, stateVars, acceptVars
  <2> QED BY <2>1, StreamQuiet DEF is_receiving, Spawning
<1>3. CASE Subscribe(s)
  <2>1. /\ stream[s] = "wait" /\ accept_running' = TRUE /\ pending' = <<>>
        /\ subscribers' = subscribers \cup {s} /\ stopped' = "no"
        /\ stream' = [(IF is_receiving THEN stream ELSE Woken) EXCEPT ![s] =
                         IF accept_running THEN "open" ELSE "spawn"]
        /\ UNCHANGED acc
    BY <1>3 DEF Subscribe, acceptVars
  <2>2. Spawning' = IF accept_running THEN Spawning ELSE Spawning \cup {s}
    BY <2>1, WokenFacts DEF Spawning, StreamInv, Shape
  <2>3. StreamsServed'
    BY <2>1, <2>2 DEF StreamsServed, StreamInv, Shape
  <2>4. ReceivingIffSubscribed' /\ PendingOnlyWhileStopped'
    BY <2>1 DEF ReceivingIffSubscribed, PendingOnlyWhileStopped, is_receiving
  <2> QED BY <2>3, <2>4 DEF StreamInv
<1>4. CASE SpawnAccept(s)
  <2>1. /\ stream[s] = "spawn" /\ stream' = [stream EXCEPT ![s] = "open"]
        /\ acc' = "top" /\ UNCHANGED <<subscribers, accept_running, pending, stopped>>
    BY <1>4 DEF SpawnAccept, stateVars
  <2>2. Spawning = {s}
    BY <2>1 DEF StreamInv, StreamsServed, Spawning
  <2>3. Spawning' = {}
    BY <2>1, <2>2 DEF Spawning, StreamInv, Shape
  <2> QED BY <2>1, <2>2, <2>3 DEF StreamInv, StreamsServed, ReceivingIffSubscribed,
                                  PendingOnlyWhileStopped, is_receiving
<1>5. CASE SpawnAcceptFails(s)
  <2>1. /\ stream[s] = "spawn" /\ stream' = [stream EXCEPT ![s] = "open"]
        /\ subscribers' = {} /\ accept_running' = FALSE /\ StopReceiving
        /\ UNCHANGED acc
    BY <1>5 DEF SpawnAcceptFails, acceptVars
  <2>2. Spawning = {s} /\ acc = "none"
    BY <2>1 DEF StreamInv, StreamsServed, Spawning
  <2>3. Spawning' = {}
    BY <2>1, <2>2 DEF Spawning, StreamInv, Shape
  <2>4. ~is_receiving'
    BY <2>1 DEF StopReceiving, is_receiving
  <2> QED BY <2>1, <2>2, <2>3, <2>4
          DEF StreamInv, StreamsServed, ReceivingIffSubscribed, PendingOnlyWhileStopped
<1>6. CASE Unsubscribe(s)
  <2>1. /\ stream[s] = "open" /\ subscribers' = subscribers \ {s}
        /\ UNCHANGED <<accept_running, acc>>
    BY <1>6 DEF Unsubscribe, acceptVars
  <2>2. \/ stream' = [stream EXCEPT ![s] = "dropped"]
        \/ stream' = [Woken EXCEPT ![s] = "dropped"]
    BY <1>6, Zenon DEF Unsubscribe
  <2>3. Spawning' = Spawning
    BY <2>1, <2>2, WokenFacts DEF Spawning, StreamInv, Shape
  <2>4. CASE subscribers \ {s} # {}
    <3>1. UNCHANGED <<pending, stopped>>
      BY <1>6, <2>4 DEF Unsubscribe
    <3> QED BY <2>1, <2>3, <2>4, <3>1
            DEF StreamInv, StreamsServed, ReceivingIffSubscribed,
                PendingOnlyWhileStopped, is_receiving
  <2>5. CASE subscribers \ {s} = {}
    <3>1. StopReceiving
      BY <1>6, <2>5 DEF Unsubscribe
    <3>2. ~is_receiving'
      BY <3>1 DEF StopReceiving, is_receiving
    <3> QED BY <2>1, <2>3, <2>5, <3>2
            DEF StreamInv, StreamsServed, ReceivingIffSubscribed, PendingOnlyWhileStopped
  <2> QED BY <2>4, <2>5
<1> QED BY <1>1, <1>2, <1>3, <1>4, <1>5, <1>6 DEF StreamStep

\* The steps of close_rx_socket() preserve the stream invariant.
LEMMA CloserSteps ==
    ASSUME StreamInv, Shape', NEW k \in Closers, begin_close(k) \/ CloserStep(k)
    PROVE  StreamInv'
<1>1. CASE begin_close(k)
  <2>1. /\ subscribers' = {} /\ StopReceiving /\ stream' = Woken
        /\ UNCHANGED <<accept_running, acc>>
    BY <1>1 DEF begin_close, acceptVars
  <2>2. Spawning' = Spawning
    BY <2>1, WokenFacts DEF Spawning, StreamInv, Shape
  <2>3. ~is_receiving'
    BY <2>1 DEF StopReceiving, is_receiving
  <2> QED BY <2>1, <2>2, <2>3
          DEF StreamInv, StreamsServed, ReceivingIffSubscribed, PendingOnlyWhileStopped
<1>2. CASE CloserStep(k)
  <2>1. /\ UNCHANGED <<subscribers, accept_running, acc, pending, stopped>>
        /\ stream' \in {stream, Woken}
    BY <1>2 DEF CloserStep, CloseSocket, ReleaseAccept, EndClose, stateVars,
                streamVars, acceptVars
  <2>2. Spawning' = Spawning
    BY <2>1, WokenFacts DEF Spawning, StreamInv
  <2> QED BY <2>1, <2>2, StreamQuiet DEF is_receiving
<1> QED BY <1>1, <1>2

\* The accept thread preserves the stream invariant: it gives up its claim only
\* while receiving is off, and a panic ends every stream with it.
LEMMA AcceptSteps ==
    ASSUME StreamInv, Shape', AcceptStep
    PROVE  StreamInv'
<1>0. UNCHANGED stream
  BY DEF AcceptStep, AcceptStop, AcceptContinue, AcceptNoSlot, AcceptSlot,
     AcceptLock, AcceptRefused, AcceptCall, SpawnListener, SpawnListenerFails,
     AcceptError, AcceptResume, AcceptPanic, AcceptGoto, streamVars
<1>1. Spawning' = Spawning
  BY <1>0 DEF Spawning
<1>2. CASE AcceptStop
  <2>1. /\ acc = "top" /\ ~is_receiving /\ acc' = "none" /\ accept_running' = FALSE
        /\ UNCHANGED <<subscribers, pending, stopped>>
    BY <1>2 DEF AcceptStop
  <2>2. subscribers = {} /\ Spawning = {}
    BY <2>1 DEF StreamInv, ReceivingIffSubscribed, StreamsServed
  <2> QED BY <1>1, <2>1, <2>2
          DEF StreamInv, StreamsServed, ReceivingIffSubscribed,
              PendingOnlyWhileStopped, is_receiving
<1>3. CASE AcceptPanic
  <2>1. /\ acc # "none" /\ acc' = "none" /\ accept_running' = FALSE
        /\ subscribers' = {} /\ StopReceiving
    BY <1>3 DEF AcceptPanic
  <2>2. Spawning = {}
    BY <2>1 DEF StreamInv, StreamsServed
  <2>3. ~is_receiving'
    BY <2>1 DEF StopReceiving, is_receiving
  <2> QED BY <1>1, <2>1, <2>2, <2>3
          DEF StreamInv, StreamsServed, ReceivingIffSubscribed, PendingOnlyWhileStopped
<1>4. CASE ~AcceptStop /\ ~AcceptPanic
  <2>1. /\ acc # "none" /\ acc' # "none"
        /\ UNCHANGED <<subscribers, accept_running, stopped>>
    BY <1>4 DEF AcceptStep, AcceptContinue, AcceptNoSlot, AcceptSlot,
       AcceptLock, AcceptRefused, AcceptCall, SpawnListener, SpawnListenerFails,
       AcceptError, AcceptResume, AcceptGoto, stateVars
  <2>2. subscribers # {} => pending' = pending
    <3>1. CASE AcceptError
      BY <3>1, DeliverFacts DEF AcceptError
    <3>2. CASE ~AcceptError
      BY <1>4, <3>2 DEF AcceptStep, AcceptContinue, AcceptNoSlot, AcceptSlot,
         AcceptLock, AcceptRefused, AcceptCall, SpawnListener,
         SpawnListenerFails, AcceptResume, AcceptGoto, stateVars
    <3> QED BY <3>1, <3>2
  <2> QED BY <1>1, <2>1, <2>2
          DEF StreamInv, StreamsServed, ReceivingIffSubscribed,
              PendingOnlyWhileStopped, is_receiving
<1> QED BY <1>2, <1>3, <1>4

\* Every step preserves the stream invariant.
LEMMA StreamInvStep == StreamInv /\ [Next]_vars => StreamInv'
<1> SUFFICES ASSUME StreamInv, [Next]_vars PROVE StreamInv'
  OBVIOUS
<1>1. Shape'
  BY StreamShape DEF StreamInv
<1>2. ASSUME NEW l \in Listeners, ListenerStep(l) PROVE StreamInv'
  <2>1. UNCHANGED <<subscribers, accept_running, acc, stopped, stream>>
    BY <1>2 DEF ListenerStep, MayRead, ListenerStops, StartRead, ReadBundle,
       DeliverBundle, ReadTimeout, ReadError, CountLate, ListenerGoto, stateVars,
       streamVars, acceptVars
  <2>2. subscribers # {} => pending' = pending
    <3>1. CASE DeliverBundle(l) \/ ReadError(l)
      BY <3>1, DeliverFacts DEF DeliverBundle, ReadError
    <3>2. CASE ~(DeliverBundle(l) \/ ReadError(l))
      BY <1>2, <3>2 DEF ListenerStep, MayRead, ListenerStops, StartRead,
         ReadBundle, ReadTimeout, ListenerGoto, stateVars
    <3> QED BY <3>1, <3>2
  <2> QED BY <1>1, <2>1, <2>2, StreamQuiet DEF is_receiving, Spawning
<1>3. CASE GraceEnds
  <2>1. /\ UNCHANGED <<subscribers, accept_running, acc, pending, stream>>
        /\ ~is_receiving /\ ~is_receiving'
    BY <1>3 DEF GraceEnds, is_receiving, streamVars, acceptVars
  <2> QED BY <1>1, <2>1, StreamQuiet DEF Spawning
<1>4. CASE UNCHANGED vars
  BY <1>1, <1>4, StreamQuiet DEF vars, stateVars, streamVars, acceptVars,
     is_receiving, Spawning
<1> QED BY <1>1, <1>2, <1>3, <1>4, StreamSteps, CloserSteps, AcceptSteps DEF Next

\* Receiving is on exactly while the receiver has a stream.
THEOREM ReceivingTracksStreams == Spec => []ReceivingIffSubscribed
<1>1. StreamInv => ReceivingIffSubscribed
  BY DEF StreamInv
<1> QED BY <1>1, StreamInit, StreamInvStep, PTL DEF Spec

\* However opening, dropping and closing interleave with the accept thread's
\* own end, an open stream always has an accept thread, and never two.
THEOREM OneAcceptThread == Spec => []StreamsServed
<1>1. StreamInv => StreamsServed
  BY DEF StreamInv
<1> QED BY <1>1, StreamInit, StreamInvStep, PTL DEF Spec

\* An acknowledged bundle is never parked in the receiver while a stream is
\* open to take it.
THEOREM NothingParked == Spec => []PendingOnlyWhileStopped
<1>1. StreamInv => PendingOnlyWhileStopped
  BY DEF StreamInv
<1> QED BY <1>1, StreamInit, StreamInvStep, PTL DEF Spec

-----------------------------------------------------------------------------
(* close_rx_socket().  NoReopenAfterClose rests on the count of closes in    *)
(* progress: a stream opens only when it is zero, so receiving stays off     *)
(* from begin_close() until the socket is closed, and the accept mutex keeps *)
(* the C accept call and the C close apart.                                  *)

CloseInv ==
    /\ closing = Cardinality(Closing)
    /\ Closing # {} => ~is_receiving
    /\ is_receiving => reopenable
    /\ accept_lock = "accept" <=> acc = "locked"
    /\ acc = "locked" => reopenable
    /\ \A k \in Closers : closer[k] = "closed" => accept_lock = k
    /\ NoReopenAfterClose

\* The closes in progress are finitely many.
LEMMA ClosingFinite == IsFiniteSet(Closing)
BY ReceiverAssumption, FS_Subset DEF Closing

\* The close invariant holds of a new receiver.
LEMMA CloseInit == Init => CloseInv
<1> SUFFICES ASSUME Init PROVE CloseInv
  OBVIOUS
<1>1. Closing = {}
  BY DEF Init, Closing
<1> QED BY <1>1, FS_EmptySet, ReceiverAssumption
        DEF Init, CloseInv, is_receiving, NoReopenAfterClose

\* Steps that leave the closes, the socket and the accept lock alone.
LEMMA CloseQuiet ==
    ASSUME CloseInv,
           UNCHANGED <<closing, closer, accept_lock, sock, reopenable>>,
           is_receiving' => is_receiving,
           acc' = "locked" <=> acc = "locked"
    PROVE  CloseInv'
BY DEF CloseInv, Closing, NoReopenAfterClose

\* Every step preserves the close invariant.
LEMMA CloseInvStep == StreamInv /\ CloseInv /\ [Next]_vars => CloseInv'
<1> SUFFICES ASSUME StreamInv, CloseInv, [Next]_vars PROVE CloseInv'
  OBVIOUS
<1>1. ASSUME NEW s \in Streams,
             OpenStream(s) \/ StreamStep(s) \/ PollNext(s) \/ Unsubscribe(s)
      PROVE  CloseInv'
  <2>1. CASE OpenStream(s) \/ SubscribeSleep(s) \/ PollNext(s)
    BY <2>1, CloseQuiet DEF OpenStream, SubscribeSleep, PollNext, stateVars,
       acceptVars, is_receiving
  <2>2. CASE Subscribe(s)
    <3>1. /\ closing = 0 /\ reopenable' = TRUE
          /\ UNCHANGED <<closing, closer, accept_lock, sock, acc>>
      BY <2>2 DEF Subscribe, acceptVars
    <3>2. Closing = {}
      BY <3>1, ClosingFinite, FS_EmptySet DEF CloseInv
    <3>3. Closing' = Closing
      BY <3>1 DEF Closing
    <3> QED BY <3>1, <3>2, <3>3 DEF CloseInv, NoReopenAfterClose
  <2>3. CASE SpawnAccept(s)
    <3>1. /\ UNCHANGED <<closing, closer, accept_lock, sock, reopenable, stopped>>
          /\ acc' = "top" /\ s \in Spawning
      BY <2>3 DEF SpawnAccept, stateVars, Spawning
    <3>2. acc = "none"
      BY <3>1 DEF StreamInv, StreamsServed
    <3> QED BY <3>1, <3>2, CloseQuiet DEF is_receiving
  <2>4. CASE SpawnAcceptFails(s)
    BY <2>4, CloseQuiet DEF SpawnAcceptFails, StopReceiving, is_receiving, acceptVars
  <2>5. CASE Unsubscribe(s)
    <3>1. UNCHANGED stopped \/ StopReceiving
      BY <2>5, Zenon DEF Unsubscribe
    <3>2. UNCHANGED <<closing, closer, accept_lock, sock, reopenable, acc>>
      BY <2>5 DEF Unsubscribe, acceptVars
    <3> QED BY <3>1, <3>2, CloseQuiet DEF StopReceiving, is_receiving
  <2> QED BY <1>1, <2>1, <2>2, <2>3, <2>4, <2>5 DEF StreamStep
<1>2. ASSUME NEW k \in Closers, begin_close(k) PROVE CloseInv'
  <2>1. /\ closer[k] = "idle" /\ closer' = [closer EXCEPT ![k] = "begun"]
        /\ closing' = closing + 1 /\ StopReceiving
        /\ UNCHANGED <<acc, accept_lock, sock, reopenable>>
    BY <1>2 DEF begin_close, acceptVars
  <2>2. k \notin Closing /\ Closing' = Closing \cup {k}
    BY <2>1 DEF Closing, StreamInv, Shape
  <2>3. closing' = Cardinality(Closing')
    BY <2>1, <2>2, ClosingFinite, FS_AddElement DEF CloseInv
  <2>4. ~is_receiving'
    BY <2>1 DEF StopReceiving, is_receiving
  <2> QED BY <2>1, <2>3, <2>4 DEF CloseInv, NoReopenAfterClose, StreamInv, Shape
<1>3. ASSUME NEW k \in Closers, CloseSocket(k) PROVE CloseInv'
  <2>1. /\ closer[k] = "begun" /\ closer' = [closer EXCEPT ![k] = "closed"]
        /\ accept_lock = NULL /\ accept_lock' = k /\ ~sock'
        /\ UNCHANGED <<acc, closing, stopped>>
    BY <1>3 DEF CloseSocket, stateVars
  <2>2. k \in Closing /\ Closing' = Closing
    BY <2>1 DEF Closing, StreamInv, Shape
  <2>3. acc # "locked" /\ k # "accept" /\ ~is_receiving /\ ~is_receiving'
    BY <2>1, <2>2, ReceiverAssumption DEF CloseInv, is_receiving
  <2>4. \A x \in Closers : closer[x] # "closed"
    BY <2>1, ReceiverAssumption DEF CloseInv
  <2> QED BY <2>1, <2>2, <2>3, <2>4 DEF CloseInv, NoReopenAfterClose, StreamInv, Shape
<1>4. ASSUME NEW k \in Closers, ReleaseAccept(k) PROVE CloseInv'
  <2>1. /\ closer[k] = "closed" /\ closer' = [closer EXCEPT ![k] = "unlocked"]
        /\ accept_lock' = NULL
        /\ UNCHANGED <<acc, closing, stopped, sock, reopenable>>
    BY <1>4 DEF ReleaseAccept, stateVars
  <2>2. Closing' = Closing
    BY <2>1 DEF Closing, StreamInv, Shape
  <2>3. accept_lock = k /\ acc # "locked"
    BY <2>1, ReceiverAssumption DEF CloseInv
  <2>4. \A x \in Closers : closer'[x] # "closed"
    BY <2>1, <2>3 DEF CloseInv, StreamInv, Shape
  <2> QED BY <2>1, <2>2, <2>3, <2>4, ReceiverAssumption
          DEF CloseInv, NoReopenAfterClose, is_receiving
<1>5. ASSUME NEW k \in Closers, EndClose(k) PROVE CloseInv'
  <2>1. /\ closer[k] = "unlocked" /\ closer' = [closer EXCEPT ![k] = "done"]
        /\ closing' = closing - 1
        /\ UNCHANGED <<acc, accept_lock, sock, reopenable, stopped>>
    BY <1>5 DEF EndClose, acceptVars
  <2>2. k \in Closing /\ Closing' = Closing \ {k}
    BY <2>1 DEF Closing, StreamInv, Shape
  <2>3. closing' = Cardinality(Closing')
    BY <2>1, <2>2, ClosingFinite, FS_RemoveElement DEF CloseInv
  <2> QED BY <2>1, <2>2, <2>3 DEF CloseInv, NoReopenAfterClose, StreamInv, Shape,
                                  is_receiving
<1>6. CASE AcceptStep
  <2>1. CASE AcceptLock
    <3>1. /\ is_receiving /\ acc' = "locked" /\ accept_lock' = "accept"
          /\ accept_lock = NULL
          /\ UNCHANGED <<closing, closer, sock, reopenable, stopped>>
      BY <2>1 DEF AcceptLock, stateVars
    <3>2. \A x \in Closers : closer[x] # "closed"
      BY <3>1, ReceiverAssumption DEF CloseInv
    <3> QED BY <3>1, <3>2 DEF CloseInv, Closing, NoReopenAfterClose, is_receiving
  <2>2. CASE AcceptCall
    <3>1. /\ acc = "locked" /\ acc' # "locked" /\ accept_lock' = NULL
          /\ UNCHANGED <<closing, closer, reopenable, stopped>>
      BY <2>2 DEF AcceptCall, stateVars
    <3>2. \A x \in Closers : closer[x] # "closed"
      BY <3>1, ReceiverAssumption DEF CloseInv
    <3> QED BY <3>1, <3>2, ReceiverAssumption
            DEF CloseInv, Closing, NoReopenAfterClose, is_receiving
  <2>3. CASE AcceptStop \/ AcceptContinue \/ AcceptNoSlot \/ AcceptSlot
             \/ AcceptRefused \/ AcceptError \/ AcceptResume
    <3>1. /\ UNCHANGED <<closing, closer, accept_lock, sock, reopenable, stopped>>
          /\ acc # "locked" /\ acc' # "locked"
      BY <2>3 DEF AcceptStop, AcceptContinue, AcceptNoSlot, AcceptSlot,
         AcceptRefused, AcceptError, AcceptResume, AcceptGoto, stateVars
    <3> QED BY <3>1, CloseQuiet DEF is_receiving
  <2>4. CASE (\E l \in Listeners : SpawnListener(l)) \/ SpawnListenerFails
    <3>1. /\ UNCHANGED <<closing, closer, accept_lock, sock, reopenable, stopped>>
          /\ acc # "locked" /\ acc' # "locked"
      BY <2>4 DEF SpawnListener, SpawnListenerFails, stateVars
    <3> QED BY <3>1, CloseQuiet DEF is_receiving
  <2>5. CASE AcceptPanic
    BY <2>5, CloseQuiet DEF AcceptPanic, StopReceiving, is_receiving
  <2> QED BY <1>6, <2>1, <2>2, <2>3, <2>4, <2>5 DEF AcceptStep
<1>7. ASSUME NEW l \in Listeners, ListenerStep(l) PROVE CloseInv'
  <2>1. UNCHANGED <<closing, closer, accept_lock, sock, reopenable, stopped, acc>>
    BY <1>7 DEF ListenerStep, MayRead, ListenerStops, StartRead, ReadBundle,
       DeliverBundle, ReadTimeout, ReadError, CountLate, ListenerGoto, stateVars, acceptVars
  <2> QED BY <2>1, CloseQuiet DEF is_receiving
<1>8. CASE GraceEnds \/ UNCHANGED vars
  BY <1>8, CloseQuiet DEF GraceEnds, vars, stateVars, acceptVars, is_receiving
<1> QED BY <1>1, <1>2, <1>3, <1>4, <1>5, <1>6, <1>7, <1>8 DEF Next, CloserStep

\* Once close_rx_socket() has closed the socket, the accept thread cannot bind
\* it again behind the caller's back, for any number of concurrent closes.
THEOREM ClosedStaysClosed == Spec => []NoReopenAfterClose
<1>1. CloseInv => NoReopenAfterClose
  BY DEF CloseInv
<1> QED BY <1>1, StreamInit, StreamInvStep, CloseInit, CloseInvStep, PTL DEF Spec

-----------------------------------------------------------------------------
(* Acknowledgements after a stop.  A listener whose read ended since         *)
(* receiving stopped is past its check and cannot read again.                *)

ReadInv ==
    /\ is_receiving => \A l \in Listeners : late[l] = 0
    /\ \A l \in Listeners : lis[l] \in {"ready", "reading"} => late[l] = 0
    /\ OneReadAfterStop

\* Every step preserves the bound on reads after a stop.
LEMMA ReadInvStep == StreamInv /\ ReadInv /\ [Next]_vars => ReadInv'
<1> SUFFICES ASSUME StreamInv, ReadInv, [Next]_vars PROVE ReadInv'
  OBVIOUS
<1> USE DEF ReadInv, OneReadAfterStop
<1>1. ASSUME UNCHANGED <<lis, late>>, is_receiving' => is_receiving PROVE ReadInv'
  BY <1>1
<1>2. ASSUME NEW s \in Streams,
             OpenStream(s) \/ StreamStep(s) \/ PollNext(s) \/ Unsubscribe(s)
      PROVE  ReadInv'
  <2>1. CASE Subscribe(s)
    BY <2>1 DEF Subscribe
  <2>2. CASE Unsubscribe(s)
    <3>1. UNCHANGED stopped \/ StopReceiving
      BY <2>2, Zenon DEF Unsubscribe
    <3> QED BY <1>1, <2>2, <3>1 DEF Unsubscribe, StopReceiving, is_receiving, listenerVars
  <2>3. CASE OpenStream(s) \/ SubscribeSleep(s) \/ SpawnAccept(s)
             \/ SpawnAcceptFails(s) \/ PollNext(s)
    BY <1>1, <2>3 DEF OpenStream, SubscribeSleep, SpawnAccept, SpawnAcceptFails,
       PollNext, StopReceiving, is_receiving, listenerVars, stateVars
  <2> QED BY <1>2, <2>1, <2>2, <2>3 DEF StreamStep
<1>3. ASSUME NEW k \in Closers, begin_close(k) \/ CloserStep(k) PROVE ReadInv'
  BY <1>1, <1>3 DEF begin_close, CloserStep, CloseSocket, ReleaseAccept, EndClose,
     StopReceiving, is_receiving, listenerVars, stateVars
<1>4. CASE AcceptStep
  <2>1. ASSUME NEW l \in Listeners, SpawnListener(l) PROVE ReadInv'
    BY <2>1 DEF SpawnListener, stateVars, is_receiving, StreamInv, Shape
  <2>2. CASE AcceptStop \/ AcceptContinue \/ AcceptNoSlot \/ AcceptSlot
             \/ AcceptLock \/ AcceptRefused \/ AcceptCall \/ SpawnListenerFails
             \/ AcceptError \/ AcceptResume \/ AcceptPanic
    BY <1>1, <2>2 DEF AcceptStop, AcceptContinue, AcceptNoSlot, AcceptSlot,
       AcceptLock, AcceptRefused, AcceptCall, SpawnListenerFails, AcceptError,
       AcceptResume, AcceptPanic, AcceptGoto, StopReceiving, is_receiving,
       stateVars, listenerVars
  <2> QED BY <1>4, <2>1, <2>2 DEF AcceptStep
<1>5. ASSUME NEW l \in Listeners, ListenerStep(l) PROVE ReadInv'
  <2>1. UNCHANGED stopped
    BY <1>5 DEF ListenerStep, MayRead, ListenerStops, StartRead, ReadBundle,
       DeliverBundle, ReadTimeout, ReadError, CountLate, ListenerGoto, stateVars
  <2>2. CASE ReadBundle(l)
    <3>1. /\ lis[l] = "reading" /\ lis' = [lis EXCEPT ![l] = "hand"]
          /\ late' = [late EXCEPT ![l] = IF is_receiving THEN 0 ELSE late[l] + 1]
      BY <2>2 DEF ReadBundle, CountLate
    <3> QED BY <2>1, <3>1 DEF is_receiving, StreamInv, Shape
  <2>3. CASE MayRead(l)
    BY <2>1, <2>3 DEF MayRead, ListenerGoto, is_receiving, StreamInv, Shape
  <2>4. CASE StartRead(l)
    BY <2>1, <2>4 DEF StartRead, ListenerGoto, is_receiving, StreamInv, Shape
  <2>5. CASE ListenerStops(l) \/ DeliverBundle(l) \/ ReadError(l)
    <3>1. /\ UNCHANGED late
          /\ lis' \in {[lis EXCEPT ![l] = "check"], [lis EXCEPT ![l] = "none"]}
      BY <2>5 DEF ListenerStops, ReadTimeout, DeliverBundle, ReadError, ListenerGoto
    <3> QED BY <2>1, <3>1 DEF is_receiving, StreamInv, Shape
  <2>6. CASE ReadTimeout(l)
    <3>1. /\ lis[l] = "reading"
          /\ lis' \in {[lis EXCEPT ![l] = "check"], [lis EXCEPT ![l] = "none"]}
          /\ late' = [late EXCEPT ![l] = IF is_receiving THEN 0 ELSE late[l] + 1]
      BY <2>6 DEF ReadTimeout, CountLate
    <3> QED BY <2>1, <3>1 DEF is_receiving, StreamInv, Shape
  <2> QED BY <1>5, <2>2, <2>3, <2>4, <2>5, <2>6 DEF ListenerStep
<1>6. CASE GraceEnds \/ UNCHANGED vars
  BY <1>1, <1>6 DEF GraceEnds, vars, is_receiving, stateVars, listenerVars
<1> QED BY <1>2, <1>3, <1>4, <1>5, <1>6 DEF Next

\* After receiving has stopped at most one more read of a listener ends: it
\* acknowledges at most one bundle that no stream is there to take.
THEOREM AtMostOneLateAck == Spec => []OneReadAfterStop
<1>1. Init => ReadInv
  BY DEF Init, ReadInv, OneReadAfterStop
<1>2. ReadInv => OneReadAfterStop
  BY DEF ReadInv
<1> QED BY <1>1, <1>2, StreamInit, StreamInvStep, ReadInvStep, PTL DEF Spec

-----------------------------------------------------------------------------
(* The queues: what appending, taking and handing over do to the bundles in  *)
(* them.                                                                     *)

BundlesIn(q) == {q[i] : i \in DOMAIN q} \ {ERR}

\* No bundle is in a queue twice.
Once(q) == \A i, j \in DOMAIN q : q[i] = q[j] /\ IsBundle(q[i]) => i = j

\* Kept leaves out the errors and nothing else, and keeps the order: it picks
\* positions of the queue, upwards, among them the position of every bundle.
LEMMA KeptFacts ==
    ASSUME NEW q \in Seq(Nat)
    PROVE  /\ Kept(q) \in Seq(Nat)
           /\ \E f \in [1..Len(Kept(q)) -> 1..Len(q)] :
                /\ \A k \in 1..Len(Kept(q)) :
                     Kept(q)[k] = q[f[k]] /\ IsBundle(q[f[k]])
                /\ \A k, m \in 1..Len(Kept(q)) : k < m => f[k] < f[m]
                /\ \A i \in 1..Len(q) :
                     IsBundle(q[i]) => \E k \in 1..Len(Kept(q)) : f[k] = i
<1> DEFINE at == {i \in DOMAIN q : IsBundle(q[i])}
           Upto(i) == {j \in at : j <= i}
           n == Cardinality(at)
           place == [i \in at |-> Cardinality(Upto(i))]
           f == [k \in 1..n |-> CHOOSE i \in at : place[i] = k]
<1>1. DOMAIN q = 1..Len(q) /\ Len(q) \in Nat
  OBVIOUS
<1>2. at \subseteq 1..Len(q) /\ at \subseteq Nat
  BY <1>1
<1>3. IsFiniteSet(at) /\ n \in Nat
  <2>1. IsFiniteSet(1..Len(q))
    BY <1>1, FS_Interval
  <2> HIDE DEF at
  <2> QED BY <1>2, <2>1, FS_Subset, FS_CardinalityType
<1>4. \A i \in at : place[i] \in 1..n
  <2> SUFFICES ASSUME NEW i \in at PROVE Cardinality(Upto(i)) \in 1..n
    BY Zenon
  <2>1. Upto(i) \subseteq at /\ i \in Upto(i)
    BY <1>2
  <2>2. IsFiniteSet(Upto(i)) /\ Cardinality(Upto(i)) <= n
    BY <1>3, <2>1, FS_Subset
  <2>3. Cardinality(Upto(i)) \in Nat /\ Cardinality(Upto(i)) # 0
    BY <2>1, <2>2, FS_CardinalityType, FS_EmptySet
  <2> QED BY <1>3, <2>2, <2>3
<1>5. \A i, j \in at : i < j => place[i] < place[j]
  <2> SUFFICES ASSUME NEW i \in at, NEW j \in at, i < j
               PROVE Cardinality(Upto(i)) < Cardinality(Upto(j))
    BY Zenon
  <2>1. Upto(i) \subseteq Upto(j) /\ j \in Upto(j) /\ j \notin Upto(i)
    BY <1>2
  <2>2. IsFiniteSet(Upto(j)) /\ IsFiniteSet(Upto(i))
    BY <1>3, FS_Subset
  <2>3. /\ Cardinality(Upto(i)) <= Cardinality(Upto(j))
        /\ Cardinality(Upto(i)) # Cardinality(Upto(j))
    BY <2>1, <2>2, FS_Subset
  <2> QED BY <2>2, <2>3, FS_CardinalityType
<1>6. place \in Injection(at, 1..n)
  <2>1. place \in [at -> 1..n]
    BY <1>4
  <2>2. \A i, j \in at : place[i] = place[j] => i = j
    <3> HIDE DEF place
    <3> QED BY <1>2, <1>3, <1>4, <1>5
  <2> HIDE DEF place, at, n
  <2> QED BY <2>1, <2>2 DEF Injection, IsInjective
<1>7. \A k \in 1..n : \E i \in at : place[i] = k
  <2>1. IsFiniteSet(1..n) /\ Cardinality(1..n) = n /\ Cardinality(at) = n
    BY <1>3, FS_Interval
  <2> HIDE DEF place, at, n
  <2>2. place \in Surjection(at, 1..n)
    BY <1>6, <2>1, FS_Injection
  <2> QED BY <2>2 DEF Surjection
<1>8. \A k \in 1..n : f[k] \in at /\ place[f[k]] = k
  <2> HIDE DEF place, at
  <2> QED BY <1>7
<1>9. Kept(q) = [k \in 1..n |-> q[f[k]]]
  <2>1. \A k : (CHOOSE i \in at : Cardinality(Upto(i)) = k)
                = (CHOOSE i \in at : place[i] = k)
    <3> SUFFICES ASSUME NEW k
                 PROVE  (CHOOSE i \in at : Cardinality(Upto(i)) = k)
                          = (CHOOSE i \in at : place[i] = k)
      OBVIOUS
    <3>1. \A i \in at : place[i] = Cardinality(Upto(i))
      BY Zenon
    <3> HIDE DEF place, at, Upto
    <3> QED BY <3>1
  <2>2. Kept(q) = [k \in 1..n |-> q[CHOOSE i \in at : Cardinality(Upto(i)) = k]]
    BY Zenon DEF Kept
  <2>3. \A k \in 1..n : f[k] = CHOOSE i \in at : place[i] = k
    BY Zenon
  <2>4. \A k \in 1..n : q[CHOOSE i \in at : Cardinality(Upto(i)) = k] = q[f[k]]
    <3> HIDE DEF place, at, Upto, f, n
    <3> QED BY <2>1, <2>3, Zenon
  <2> HIDE DEF place, at, Upto, f, n
  <2> QED BY <2>2, <2>4, Zenon
<1>16. at = {i \in at : IsBundle(q[i])} /\ \A i \in 1..Len(q) : IsBundle(q[i]) => i \in at
  BY <1>1
<1> HIDE DEF place, f, n, at
<1>10. Kept(q) \in Seq(Nat) /\ Len(Kept(q)) = n
  <2>1. \A k \in 1..n : q[f[k]] \in Nat
    <3>1. \A i \in 1..Len(q) : q[i] \in Nat
      OBVIOUS
    <3>2. \A k \in 1..n : f[k] \in 1..Len(q)
      BY <1>2, <1>8
    <3> QED BY <3>1, <3>2
  <2> QED BY <1>3, <1>9, <2>1
<1>11. \A k, m \in 1..n : k < m => f[k] < f[m]
  <2> SUFFICES ASSUME NEW k \in 1..n, NEW m \in 1..n, k < m PROVE f[k] < f[m]
    OBVIOUS
  <2>1. /\ f[k] \in at /\ f[m] \in at
        /\ place[f[k]] = k /\ place[f[m]] = m
    BY <1>8
  <2>2. f[k] \in Nat /\ f[m] \in Nat /\ k \in Nat /\ m \in Nat
    <3>1. f[k] \in Nat /\ f[m] \in Nat
      BY <1>2, <2>1
    <3> QED BY <1>3, <3>1
  <2>3. f[m] < f[k] => m < k
    BY <1>5, <2>1
  <2>4. f[m] = f[k] => m = k
    BY <2>1
  <2> QED BY <2>2, <2>3, <2>4
<1>12. \A i \in at : \E k \in 1..n : f[k] = i
  <2>1. \A i \in at : f[place[i]] = i
    BY <1>4, <1>6, <1>8 DEF Injection, IsInjective
  <2> QED BY <1>4, <2>1
<1>13. f \in [1..n -> 1..Len(q)]
  <2>1. f = [k \in 1..n |-> f[k]]
    BY DEF f
  <2> QED BY <1>2, <1>8, <2>1
<1>14. \A k \in 1..n : Kept(q)[k] = q[f[k]] /\ IsBundle(q[f[k]])
  BY <1>8, <1>9, <1>16
<1>15. \A i \in 1..Len(q) : IsBundle(q[i]) => \E k \in 1..n : f[k] = i
  BY <1>12, <1>16
<1> QED BY <1>10, <1>11, <1>13, <1>14, <1>15

\* Membership in BundlesIn.
LEMMA InBundles ==
    ASSUME NEW q, NEW b
    PROVE  b \in BundlesIn(q) <=> b # ERR /\ \E i \in DOMAIN q : q[i] = b
BY DEF BundlesIn

\* The same by what is in it.
LEMMA KeptBundles ==
    ASSUME NEW q \in Seq(Nat)
    PROVE  /\ Kept(q) \in Seq(Nat)
           /\ BundlesIn(Kept(q)) = BundlesIn(q)
           /\ Once(q) => Once(Kept(q))
<1> DEFINE n == Len(Kept(q))
<1>1. PICK f \in [1..n -> 1..Len(q)] :
        /\ \A k \in 1..n : Kept(q)[k] = q[f[k]] /\ IsBundle(q[f[k]])
        /\ \A k, m \in 1..n : k < m => f[k] < f[m]
        /\ \A i \in 1..Len(q) : IsBundle(q[i]) => \E k \in 1..n : f[k] = i
  BY KeptFacts
<1>2. Kept(q) \in Seq(Nat) /\ n \in Nat /\ DOMAIN Kept(q) = 1..n
  BY KeptFacts
<1> HIDE DEF n
<1>3. \A k, m \in 1..n : f[k] = f[m] => k = m
  BY <1>1, <1>2
<1>4. BundlesIn(Kept(q)) = BundlesIn(q)
  <2>1. ASSUME NEW b \in BundlesIn(Kept(q)) PROVE b \in BundlesIn(q)
    <3>1. PICK k \in 1..n : Kept(q)[k] = b
      BY <1>2, InBundles
    <3>2. q[f[k]] = b /\ b # ERR /\ f[k] \in DOMAIN q
      BY <1>1, <3>1 DEF IsBundle
    <3> QED BY <3>2, InBundles
  <2>2. \A b : b \in BundlesIn(q) => b \in BundlesIn(Kept(q))
    BY <1>1, <1>2, InBundles DEF IsBundle
  <2> QED BY <2>1, <2>2
<1>5. ASSUME Once(q) PROVE Once(Kept(q))
  <2> SUFFICES ASSUME NEW k \in 1..n, NEW m \in 1..n, Kept(q)[k] = Kept(q)[m]
               PROVE k = m
    BY <1>2 DEF Once
  <2>1. q[f[k]] = q[f[m]] /\ IsBundle(q[f[k]]) /\ f[k] \in DOMAIN q /\ f[m] \in DOMAIN q
    BY <1>1
  <2> QED BY <1>3, <1>5, <2>1 DEF Once
<1> QED BY <1>2, <1>4, <1>5

\* A queue behind another.
LEMMA BundlesBehind ==
    ASSUME NEW p \in Seq(Nat), NEW q \in Seq(Nat)
    PROVE  /\ p \o q \in Seq(Nat)
           /\ BundlesIn(p \o q) = BundlesIn(p) \cup BundlesIn(q)
           /\ Once(p) /\ Once(q) /\ BundlesIn(p) \cap BundlesIn(q) = {}
                => Once(p \o q)
<1> DEFINE r == p \o q
<1>1. /\ r \in Seq(Nat) /\ DOMAIN r = 1..Len(p) + Len(q)
      /\ Len(p) \in Nat /\ Len(q) \in Nat
      /\ DOMAIN p = 1..Len(p) /\ DOMAIN q = 1..Len(q)
      /\ \A i \in 1..Len(p) + Len(q) :
           r[i] = IF i <= Len(p) THEN p[i] ELSE q[i - Len(p)]
  OBVIOUS
<1>2. \A i \in 1..Len(q) : i + Len(p) \in DOMAIN r /\ r[i + Len(p)] = q[i]
  BY <1>1
<1>3. \A i \in 1..Len(p) : i \in DOMAIN r /\ r[i] = p[i]
  BY <1>1
<1>4. \A i \in DOMAIN r : IF i <= Len(p) THEN i \in 1..Len(p) /\ r[i] = p[i]
                          ELSE i - Len(p) \in 1..Len(q) /\ r[i] = q[i - Len(p)]
  BY <1>1
<1> HIDE DEF r
<1>5. BundlesIn(r) = BundlesIn(p) \cup BundlesIn(q)
  BY <1>1, <1>2, <1>3, <1>4 DEF BundlesIn
<1>6. ASSUME Once(p), Once(q), BundlesIn(p) \cap BundlesIn(q) = {}
      PROVE Once(r)
  <2> SUFFICES ASSUME NEW i \in DOMAIN r, NEW j \in DOMAIN r,
                      r[i] = r[j], IsBundle(r[i])
               PROVE i = j
    BY DEF Once
  <2>1. CASE i <= Len(p) /\ j <= Len(p)
    BY <1>1, <1>4, <1>6, <2>1 DEF Once
  <2>2. CASE ~(i <= Len(p)) /\ ~(j <= Len(p))
    BY <1>1, <1>4, <1>6, <2>2 DEF Once
  <2>3. CASE (i <= Len(p)) # (j <= Len(p))
    <3>1. r[i] \in BundlesIn(p) /\ r[i] \in BundlesIn(q)
      BY <1>1, <1>4, <2>3 DEF BundlesIn, IsBundle
    <3> QED BY <1>6, <3>1
  <2> QED BY <2>1, <2>2, <2>3
<1> QED BY <1>1, <1>5, <1>6 DEF r

\* Queues of no item and of one.
LEMMA BundlesOfOne ==
    /\ BundlesIn(<<>>) = {} /\ Once(<<>>)
    /\ \A x \in Nat : BundlesIn(<<x>>) = {x} \ {ERR} /\ Once(<<x>>)
BY DEF BundlesIn, Once

\* Taking the first item.
LEMMA BundlesTail ==
    ASSUME NEW q \in Seq(Nat), q # <<>>
    PROVE  /\ Tail(q) \in Seq(Nat) /\ Head(q) \in Nat
           /\ BundlesIn(q) = BundlesIn(Tail(q)) \cup ({Head(q)} \ {ERR})
           /\ Once(q) => Once(Tail(q)) /\ Head(q) \notin BundlesIn(Tail(q))
<1> DEFINE t == Tail(q)
<1>1. /\ t \in Seq(Nat) /\ Head(q) = q[1] /\ Len(q) \in Nat /\ Len(q) >= 1
      /\ DOMAIN q = 1..Len(q) /\ DOMAIN t = 1..Len(q) - 1
      /\ \A i \in 1..Len(q) - 1 : t[i] = q[i + 1]
  OBVIOUS
<1> HIDE DEF t
<1>0. DOMAIN q = 1..Len(q) /\ DOMAIN t = 1..Len(q) - 1
  BY <1>1
<1>2. \A i \in 1..Len(q) : i = 1 \/ (i - 1 \in 1..Len(q) - 1 /\ q[i] = t[i - 1])
  BY <1>1
<1>3. \A i \in 1..Len(q) - 1 : i + 1 \in 1..Len(q)
  BY <1>1
<1>4. BundlesIn(q) = BundlesIn(t) \cup ({Head(q)} \ {ERR})
  <2>1. ASSUME NEW b \in BundlesIn(q)
        PROVE  b \in BundlesIn(t) \cup ({Head(q)} \ {ERR})
    <3>1. PICK i \in 1..Len(q) : q[i] = b /\ b # ERR
      BY <1>0, InBundles, Zenon
    <3>2. CASE i = 1
      BY <1>1, <3>1, <3>2
    <3>3. CASE i # 1
      <4>1. i - 1 \in DOMAIN t /\ t[i - 1] = b
        BY <1>1, <1>2, <3>1, <3>3
      <4> QED BY <3>1, <4>1, InBundles
    <3> QED BY <3>2, <3>3
  <2>2. ASSUME NEW b \in BundlesIn(t) PROVE b \in BundlesIn(q)
    <3>1. PICK i \in 1..Len(q) - 1 : t[i] = b /\ b # ERR
      BY <1>0, InBundles, Zenon
    <3>2. i + 1 \in DOMAIN q /\ q[i + 1] = b
      BY <1>1, <1>3, <3>1
    <3> QED BY <3>1, <3>2, InBundles
  <2>3. Head(q) # ERR => Head(q) \in BundlesIn(q)
    <3>1. 1 \in DOMAIN q /\ q[1] = Head(q)
      BY <1>1
    <3> QED BY <3>1, InBundles
  <2> QED BY <2>1, <2>2, <2>3
<1>5. ASSUME Once(q) PROVE Once(t) /\ Head(q) \notin BundlesIn(t)
  <2>1. \A i, j \in 1..Len(q) - 1 : i + 1 = j + 1 => i = j
    OBVIOUS
  <2>2. Once(t)
    BY <1>1, <1>3, <1>5, <2>1 DEF Once
  <2>3. \A i \in 1..Len(q) - 1 : i + 1 # 1
    OBVIOUS
  <2>4. Head(q) \notin BundlesIn(t)
    <3> SUFFICES ASSUME Head(q) \in BundlesIn(t) PROVE FALSE
      OBVIOUS
    <3>1. PICK i \in 1..Len(q) - 1 : t[i] = Head(q) /\ Head(q) # ERR
      BY <1>0, InBundles, Zenon
    <3>2. /\ i + 1 \in DOMAIN q /\ 1 \in DOMAIN q
          /\ q[i + 1] = q[1] /\ IsBundle(q[1])
      BY <1>1, <1>3, <3>1 DEF IsBundle
    <3> QED BY <1>5, <2>3, <3>2 DEF Once
  <2> QED BY <2>2, <2>4
<1> QED BY <1>1, <1>4, <1>5 DEF t

\* The newest of some streams is one of them.
LEMMA NewestIsOne ==
    ASSUME NEW subs \in SUBSET Streams, subs # {}, next_id \in Nat,
           id \in [Streams -> Nat], \A s \in subs : id[s] < next_id
    PROVE  Newest(subs) \in subs
<1> DEFINE gaps == {next_id - id[s] : s \in subs}
<1>1. gaps \subseteq Nat /\ gaps # {}
  OBVIOUS
<1>2. PICK g \in gaps : \A h \in gaps : ~(<<h, g>> \in OpToRel(<, Nat))
  BY <1>1, NatLessThanWellFounded, WFMin, Zenon
<1>3. PICK s \in subs : g = next_id - id[s]
  OBVIOUS
<1>4. ASSUME NEW x \in subs PROVE id[x] <= id[s]
  <2>1. next_id - id[x] \in gaps /\ next_id - id[x] \in Nat /\ g \in Nat
    BY <1>1
  <2>2. ~(next_id - id[x] < g)
    BY <1>2, <2>1 DEF OpToRel
  <2>3. id[x] \in Nat /\ id[s] \in Nat
    OBVIOUS
  <2> QED BY <1>3, <2>1, <2>2, <2>3
<1> QED BY <1>4 DEF Newest

-----------------------------------------------------------------------------
(* The acknowledged bundles.  Split says how the bundles 1..n are shared out *)
(* among the hands of the listeners, the kept bundles, the streams and the   *)
(* application; each lemma moves some of them.                               *)

Split(H, P, Q, T, n) ==
    /\ \A b \in 1..n : \/ \E l \in Listeners : H[l] = b
                       \/ b \in P
                       \/ \E s \in Streams : b \in Q[s]
                       \/ b \in T
    /\ \A l \in Listeners : H[l] \in 0..n /\ H[l] \notin P /\ H[l] \notin T
    /\ \A l, m \in Listeners : H[l] = H[m] /\ IsBundle(H[l]) => l = m
    /\ \A l \in Listeners : \A s \in Streams : H[l] \notin Q[s]
    /\ P \subseteq 1..n /\ T \subseteq 1..n /\ P \cap T = {}
    /\ \A s \in Streams : Q[s] \subseteq 1..n /\ Q[s] \cap P = {} /\ Q[s] \cap T = {}
    /\ \A s, t \in Streams : s # t => Q[s] \cap Q[t] = {}

\* A listener's hand after it read the next bundle.
LEMMA SplitRead ==
    ASSUME NEW n \in Nat, NEW H, NEW P, NEW Q, NEW T, Split(H, P, Q, T, n),
           NEW l \in Listeners, H[l] = ERR, NEW H2,
           H2[l] = n + 1, \A m \in Listeners \ {l} : H2[m] = H[m]
    PROVE  Split(H2, P, Q, T, n + 1)
BY DEF Split, IsBundle, ERR

\* A listener's hand put into a stream.
LEMMA SplitToStream ==
    ASSUME NEW n \in Nat, NEW H, NEW P, NEW Q, NEW T, Split(H, P, Q, T, n),
           NEW l \in Listeners, NEW s \in Streams, NEW H2, NEW Q2,
           H2[l] = ERR, \A m \in Listeners \ {l} : H2[m] = H[m],
           Q2[s] = Q[s] \cup ({H[l]} \ {ERR}),
           \A t \in Streams \ {s} : Q2[t] = Q[t]
    PROVE  Split(H2, P, Q2, T, n)
<1>1. \A b \in 1..n : \/ \E m \in Listeners : H2[m] = b
                      \/ b \in P
                      \/ \E t \in Streams : b \in Q2[t]
                      \/ b \in T
  BY DEF Split, ERR
<1>2. \A t \in Streams : Q2[t] \subseteq 1..n /\ Q2[t] \cap P = {} /\ Q2[t] \cap T = {}
  BY DEF Split, ERR
<1>3. \A m \in Listeners : \A t \in Streams : H2[m] \notin Q2[t]
  BY DEF Split, ERR, IsBundle
<1>4. \A t, u \in Streams : t # u => Q2[t] \cap Q2[u] = {}
  BY DEF Split, ERR
<1>5. /\ \A m \in Listeners : H2[m] \in 0..n /\ H2[m] \notin P /\ H2[m] \notin T
      /\ \A m, k \in Listeners : H2[m] = H2[k] /\ IsBundle(H2[m]) => m = k
  BY DEF Split, ERR, IsBundle
<1> QED BY <1>1, <1>2, <1>3, <1>4, <1>5 DEF Split

\* A listener's hand kept for the next stream.
LEMMA SplitToKept ==
    ASSUME NEW n \in Nat, NEW H, NEW P, NEW Q, NEW T, Split(H, P, Q, T, n),
           NEW l \in Listeners, NEW H2,
           H2[l] = ERR, \A m \in Listeners \ {l} : H2[m] = H[m]
    PROVE  Split(H2, P \cup ({H[l]} \ {ERR}), Q, T, n)
<1> DEFINE P2 == P \cup ({H[l]} \ {ERR})
<1>1. \A b \in 1..n : \/ \E m \in Listeners : H2[m] = b
                      \/ b \in P2
                      \/ \E t \in Streams : b \in Q[t]
                      \/ b \in T
  BY DEF Split, ERR
<1>2. P2 \subseteq 1..n /\ P2 \cap T = {} /\ \A t \in Streams : Q[t] \cap P2 = {}
  <2>1. H[l] # ERR => H[l] \in 1..n
    BY DEF Split, ERR
  <2>2. P2 \subseteq 1..n
    BY <2>1 DEF Split
  <2>3. P2 \cap T = {}
    <3>1. P \cap T = {} /\ H[l] \notin T
      BY DEF Split
    <3> QED BY <3>1, Zenon
  <2>4. \A t \in Streams : Q[t] \cap P2 = {}
    BY DEF Split
  <2> QED BY <2>2, <2>3, <2>4
<1>3. /\ \A m \in Listeners : H2[m] \in 0..n /\ H2[m] \notin P2 /\ H2[m] \notin T
      /\ \A m, k \in Listeners : H2[m] = H2[k] /\ IsBundle(H2[m]) => m = k
      /\ \A m \in Listeners : \A t \in Streams : H2[m] \notin Q[t]
  BY DEF Split, ERR, IsBundle
<1> QED BY <1>1, <1>2, <1>3 DEF Split

\* The application takes an item.
LEMMA SplitTake ==
    ASSUME NEW n \in Nat, NEW H, NEW P, NEW Q, NEW T, Split(H, P, Q, T, n),
           NEW s \in Streams, NEW x, NEW Q2,
           Q[s] = Q2[s] \cup ({x} \ {ERR}), x \notin Q2[s],
           \A t \in Streams \ {s} : Q2[t] = Q[t]
    PROVE  Split(H, P, Q2, T \cup ({x} \ {ERR}), n)
<1> DEFINE T2 == T \cup ({x} \ {ERR})
<1>1. \A b \in 1..n : \/ \E m \in Listeners : H[m] = b
                      \/ b \in P
                      \/ \E t \in Streams : b \in Q2[t]
                      \/ b \in T2
  BY DEF Split, ERR
<1>2. \A t \in Streams : Q2[t] \subseteq Q[t]
  OBVIOUS
<1>3. T2 \subseteq 1..n /\ P \cap T2 = {}
  BY DEF Split
<1>4. \A m \in Listeners : H[m] \notin T2
  BY DEF Split, ERR
<1>5. \A t \in Streams : Q2[t] \cap T2 = {}
  BY DEF Split
<1> QED BY <1>1, <1>2, <1>3, <1>4, <1>5 DEF Split

\* A stream leaves what it has to the kept bundles.
LEMMA SplitHandOver ==
    ASSUME NEW n \in Nat, NEW H, NEW P, NEW Q, NEW T, Split(H, P, Q, T, n),
           NEW s \in Streams, NEW Q2, Q2[s] = {},
           \A t \in Streams \ {s} : Q2[t] = Q[t]
    PROVE  Split(H, P \cup Q[s], Q2, T, n)
BY DEF Split

\* A stream leaves what it has to another.
LEMMA SplitPassOn ==
    ASSUME NEW n \in Nat, NEW H, NEW P, NEW Q, NEW T, Split(H, P, Q, T, n),
           NEW s \in Streams, NEW u \in Streams \ {s}, NEW Q2, Q2[s] = {},
           Q2[u] = Q[u] \cup Q[s], \A t \in Streams \ {s, u} : Q2[t] = Q[t]
    PROVE  Split(H, P, Q2, T, n)
<1>1. \A b \in 1..n : \/ \E m \in Listeners : H[m] = b
                      \/ b \in P
                      \/ \E t \in Streams : b \in Q2[t]
                      \/ b \in T
  BY DEF Split
<1>2. \A t, v \in Streams : t # v => Q2[t] \cap Q2[v] = {}
  BY DEF Split
<1>3. \A t \in Streams : \A b \in Q2[t] : \E v \in Streams : b \in Q[v]
  OBVIOUS
<1> QED BY <1>1, <1>2, <1>3 DEF Split

\* A stream that opens gets the kept bundles.
LEMMA SplitOpen ==
    ASSUME NEW n \in Nat, NEW H, NEW P, NEW Q, NEW T, Split(H, P, Q, T, n),
           NEW s \in Streams, NEW Q2, Q[s] = {}, Q2[s] = P,
           \A t \in Streams \ {s} : Q2[t] = Q[t]
    PROVE  Split(H, {}, Q2, T, n)
BY DEF Split

-----------------------------------------------------------------------------
(* The inductive invariant of conservation *)

\* The variables that hold bundles, and those that say who gets them.
HoldShape ==
    /\ next_id \in Nat /\ id \in [Streams -> Nat]
    /\ read \in Nat /\ hand \in [Listeners -> Nat]
    /\ pending \in Seq(Nat) /\ queue \in [Streams -> Seq(Nat)]

\* A listener holds a bundle only between its read and its delivery; only an
\* open stream has items or is sent any; the ids say which is the newest.
PlaceInv ==
    /\ \A l \in Listeners : lis[l] # "hand" => hand[l] = ERR
    /\ \A s \in Streams : stream[s] \notin {"spawn", "open"} =>
         queue[s] = <<>> /\ s \notin subscribers
    /\ \A s \in subscribers : id[s] < next_id

InStreams == [s \in Streams |-> BundlesIn(queue[s])]

\* No queue has a bundle twice, and no two places have the same bundle.
SplitInv ==
    /\ Once(pending) /\ \A s \in Streams : Once(queue[s])
    /\ Split(hand, BundlesIn(pending), InStreams, taken, read)

HoldInv == HoldShape /\ PlaceInv /\ SplitInv

\* Split speaks of each stream's bundles only.
LEMMA SplitSame ==
    ASSUME NEW n, NEW H, NEW P, NEW Q, NEW T, Split(H, P, Q, T, n),
           NEW Q2, \A s \in Streams : Q2[s] = Q[s]
    PROVE  Split(H, P, Q2, T, n)
BY DEF Split

\* The invariant holds of a new receiver.
LEMMA HoldInit == Init => HoldInv
<1> SUFFICES ASSUME Init PROVE HoldInv
  OBVIOUS
<1>1. HoldShape /\ PlaceInv
  BY DEF Init, HoldShape, PlaceInv, ERR
<1>2. Once(pending) /\ BundlesIn(pending) = {}
  BY BundlesOfOne DEF Init
<1>3. \A s \in Streams : Once(queue[s]) /\ InStreams[s] = {}
  BY BundlesOfOne DEF Init, InStreams
<1>4. taken = {} /\ read = 0 /\ \A l \in Listeners : hand[l] = 0
  BY DEF Init, ERR
<1>5. Split(hand, {}, InStreams, taken, read)
  BY <1>3, <1>4 DEF Split, IsBundle, ERR
<1> QED BY <1>1, <1>2, <1>3, <1>5 DEF HoldInv, SplitInv

\* Steps that move no bundle: no listener lets go of one, no stream closes or
\* starts to be sent to.
LEMMA HoldQuiet ==
    ASSUME HoldInv,
           UNCHANGED <<next_id, id, read, hand, pending, queue, taken>>,
           \A l \in Listeners : lis[l] = "hand" => lis'[l] = "hand",
           \A s \in Streams :
             stream[s] \in {"spawn", "open"} => stream'[s] \in {"spawn", "open"},
           subscribers' \subseteq subscribers
    PROVE  HoldInv'
<1>1. HoldShape'
  BY DEF HoldInv, HoldShape
<1>2. PlaceInv'
  BY DEF HoldInv, PlaceInv
<1>3. SplitInv'
  BY DEF HoldInv, SplitInv, InStreams
<1> QED BY <1>1, <1>2, <1>3 DEF HoldInv

\* deliver() of one item: it is the newest stream's, or kept.
LEMMA DeliverOne ==
    ASSUME HoldInv, subscribers \subseteq Streams, NEW x \in Nat,
           x \notin BundlesIn(pending),
           \A s \in Streams : x \notin BundlesIn(queue[s]),
           deliver(<<x>>)
    PROVE  /\ pending' \in Seq(Nat) /\ queue' \in [Streams -> Seq(Nat)]
           /\ Once(pending') /\ \A s \in Streams : Once(queue'[s])
           /\ \A s \in Streams : s \notin subscribers => queue'[s] = queue[s]
           /\ \/ /\ BundlesIn(pending') = BundlesIn(pending)
                 /\ \E s \in Streams :
                      /\ InStreams'[s] = InStreams[s] \cup ({x} \ {ERR})
                      /\ \A t \in Streams \ {s} : InStreams'[t] = InStreams[t]
              \/ /\ BundlesIn(pending') = BundlesIn(pending) \cup ({x} \ {ERR})
                 /\ \A s \in Streams : InStreams'[s] = InStreams[s]
<1>1. /\ pending \in Seq(Nat) /\ queue \in [Streams -> Seq(Nat)]
      /\ Once(pending) /\ \A s \in Streams : Once(queue[s])
  BY DEF HoldInv, HoldShape, SplitInv
<1>2. /\ <<x>> \in Seq(Nat) /\ Once(<<x>>)
      /\ BundlesIn(<<x>>) = {x} \ {ERR}
  BY BundlesOfOne
<1>3. CASE subscribers # {}
  <2> DEFINE s == Newest(subscribers)
  <2>1. s \in subscribers
    BY <1>3, NewestIsOne DEF HoldInv, HoldShape, PlaceInv
  <2> HIDE DEF s
  <2>2. s \in Streams /\ queue[s] \in Seq(Nat) /\ Once(queue[s])
    BY <1>1, <2>1
  <2>3. queue' = [queue EXCEPT ![s] = queue[s] \o <<x>>] /\ pending' = pending
    BY <1>3 DEF deliver, s
  <2>4. /\ queue[s] \o <<x>> \in Seq(Nat) /\ Once(queue[s] \o <<x>>)
        /\ BundlesIn(queue[s] \o <<x>>) = BundlesIn(queue[s]) \cup ({x} \ {ERR})
    <3>1. BundlesIn(queue[s]) \cap BundlesIn(<<x>>) = {}
      BY <1>2, <2>2
    <3> QED BY <1>2, <2>2, <3>1, BundlesBehind
  <2>5. /\ queue'[s] = queue[s] \o <<x>>
        /\ \A t \in Streams \ {s} : queue'[t] = queue[t]
        /\ queue' \in [Streams -> Seq(Nat)]
    BY <1>1, <2>2, <2>3, <2>4
  <2>6. \A t \in Streams : Once(queue'[t])
    BY <1>1, <2>4, <2>5
  <2>7. /\ InStreams'[s] = InStreams[s] \cup ({x} \ {ERR})
        /\ \A t \in Streams \ {s} : InStreams'[t] = InStreams[t]
    BY <2>2, <2>4, <2>5 DEF InStreams
  <2> QED BY <1>1, <2>1, <2>2, <2>3, <2>5, <2>6, <2>7
<1>4. CASE subscribers = {}
  <2>1. queue' = queue /\ pending' = pending \o Kept(<<x>>)
    BY <1>4 DEF deliver
  <2>2. /\ Kept(<<x>>) \in Seq(Nat) /\ Once(Kept(<<x>>))
        /\ BundlesIn(Kept(<<x>>)) = {x} \ {ERR}
    BY <1>2, KeptBundles
  <2>3. /\ pending' \in Seq(Nat) /\ Once(pending')
        /\ BundlesIn(pending') = BundlesIn(pending) \cup ({x} \ {ERR})
    <3>1. BundlesIn(pending) \cap BundlesIn(Kept(<<x>>)) = {}
      BY <2>2
    <3> QED BY <1>1, <2>1, <2>2, <3>1, BundlesBehind
  <2> QED BY <1>1, <2>1, <2>3 DEF InStreams
<1> QED BY <1>3, <1>4

\* An error item moves no bundle.
LEMMA DeliverError ==
    ASSUME HoldInv, subscribers \subseteq Streams, deliver(<<ERR>>),
           UNCHANGED <<next_id, id, read, hand, taken, stream, subscribers>>,
           \A l \in Listeners : lis[l] = "hand" => lis'[l] = "hand"
    PROVE  HoldInv'
<1>1. ERR \in Nat /\ \A q : ERR \notin BundlesIn(q)
  BY DEF ERR, BundlesIn
<1>2. /\ pending' \in Seq(Nat) /\ queue' \in [Streams -> Seq(Nat)]
      /\ Once(pending') /\ \A s \in Streams : Once(queue'[s])
      /\ \A s \in Streams : s \notin subscribers => queue'[s] = queue[s]
      /\ BundlesIn(pending') = BundlesIn(pending)
      /\ \A s \in Streams : InStreams'[s] = InStreams[s]
  BY <1>1, DeliverOne
<1>3. HoldShape'
  BY <1>2 DEF HoldInv, HoldShape
<1>4. PlaceInv'
  BY <1>2 DEF HoldInv, PlaceInv
<1>5. Split(hand, BundlesIn(pending), InStreams', taken, read)
  BY <1>2, SplitSame DEF HoldInv, SplitInv
<1>6. SplitInv'
  BY <1>2, <1>5 DEF SplitInv
<1> QED BY <1>3, <1>4, <1>6 DEF HoldInv

\* The listeners: a read takes the next number, a delivery moves it on.
LEMMA HoldListener ==
    ASSUME HoldInv, Shape, NEW l \in Listeners, ListenerStep(l)
    PROVE  HoldInv'
<1>0. hand \in [Listeners -> Nat] /\ read \in Nat /\ lis \in [Listeners -> ListenerStates]
  BY DEF HoldInv, HoldShape, Shape
<1>1. CASE MayRead(l) \/ ListenerStops(l) \/ StartRead(l) \/ ReadTimeout(l)
  <2>1. /\ UNCHANGED <<stateVars, streamVars, read, hand, taken>>
        /\ lis[l] # "hand" /\ \A m \in Listeners \ {l} : lis'[m] = lis[m]
    BY <1>0, <1>1 DEF MayRead, ListenerStops, StartRead, ReadTimeout, ListenerGoto
  <2> QED BY <2>1, HoldQuiet DEF stateVars, streamVars
<1>2. CASE ReadBundle(l)
  <2>1. /\ lis[l] = "reading" /\ read' = read + 1
        /\ hand' = [hand EXCEPT ![l] = read + 1]
        /\ lis' = [lis EXCEPT ![l] = "hand"]
        /\ UNCHANGED <<subscribers, next_id, pending, id, stream, queue, taken>>
    BY <1>2 DEF ReadBundle, stateVars, streamVars
  <2>2. HoldShape'
    BY <1>0, <2>1 DEF HoldInv, HoldShape
  <2>3. PlaceInv'
    BY <1>0, <2>1 DEF HoldInv, PlaceInv
  <2>4. hand[l] = ERR /\ hand'[l] = read + 1
        /\ \A m \in Listeners \ {l} : hand'[m] = hand[m]
    BY <1>0, <2>1 DEF HoldInv, PlaceInv
  <2>5. Split(hand', BundlesIn(pending), InStreams, taken, read + 1)
    BY <1>0, <2>4, SplitRead DEF HoldInv, SplitInv
  <2>6. SplitInv'
    BY <2>1, <2>5 DEF HoldInv, SplitInv, InStreams
  <2> QED BY <2>2, <2>3, <2>6 DEF HoldInv
<1>3. CASE DeliverBundle(l)
  <2>1. /\ lis[l] = "hand" /\ deliver(<<hand[l]>>)
        /\ hand' = [hand EXCEPT ![l] = ERR]
        /\ lis' = [lis EXCEPT ![l] = "check"]
        /\ UNCHANGED <<subscribers, next_id, id, stream, read, taken>>
    BY <1>3 DEF DeliverBundle
  <2>2. /\ hand[l] \in Nat /\ hand[l] \notin BundlesIn(pending)
        /\ \A s \in Streams : hand[l] \notin BundlesIn(queue[s])
    <3>1. \A s \in Streams : hand[l] \notin InStreams[s]
      BY DEF HoldInv, SplitInv, Split
    <3> QED BY <1>0, <3>1 DEF HoldInv, SplitInv, Split, InStreams
  <2>3. /\ pending' \in Seq(Nat) /\ queue' \in [Streams -> Seq(Nat)]
        /\ Once(pending') /\ \A s \in Streams : Once(queue'[s])
        /\ \A s \in Streams : s \notin subscribers => queue'[s] = queue[s]
        /\ \/ /\ BundlesIn(pending') = BundlesIn(pending)
              /\ \E s \in Streams :
                   /\ InStreams'[s] = InStreams[s] \cup ({hand[l]} \ {ERR})
                   /\ \A t \in Streams \ {s} : InStreams'[t] = InStreams[t]
           \/ /\ BundlesIn(pending') = BundlesIn(pending) \cup ({hand[l]} \ {ERR})
              /\ \A s \in Streams : InStreams'[s] = InStreams[s]
    BY <2>1, <2>2, DeliverOne DEF Shape
  <2>4. HoldShape'
    BY <1>0, <2>1, <2>3 DEF HoldInv, HoldShape, ERR
  <2>5. PlaceInv'
    BY <1>0, <2>1, <2>3 DEF HoldInv, PlaceInv
  <2>6. hand'[l] = ERR /\ \A m \in Listeners \ {l} : hand'[m] = hand[m]
    BY <1>0, <2>1
  <2>7. Split(hand, BundlesIn(pending), InStreams, taken, read)
    BY DEF HoldInv, SplitInv
  <2>8. Split(hand', BundlesIn(pending'), InStreams', taken, read)
    <3>1. ASSUME BundlesIn(pending') = BundlesIn(pending), NEW s \in Streams,
                 InStreams'[s] = InStreams[s] \cup ({hand[l]} \ {ERR}),
                 \A t \in Streams \ {s} : InStreams'[t] = InStreams[t]
          PROVE  Split(hand', BundlesIn(pending'), InStreams', taken, read)
      BY <1>0, <2>6, <2>7, <3>1, SplitToStream
    <3>2. ASSUME BundlesIn(pending') = BundlesIn(pending) \cup ({hand[l]} \ {ERR}),
                 \A s \in Streams : InStreams'[s] = InStreams[s]
          PROVE  Split(hand', BundlesIn(pending'), InStreams', taken, read)
      <4>1. Split(hand', BundlesIn(pending'), InStreams, taken, read)
        BY <1>0, <2>6, <2>7, <3>2, SplitToKept
      <4> QED BY <3>2, <4>1, SplitSame
    <3> QED BY <2>3, <3>1, <3>2
  <2>9. SplitInv'
    BY <2>1, <2>3, <2>8 DEF SplitInv
  <2> QED BY <2>4, <2>5, <2>9 DEF HoldInv
<1>4. CASE ReadError(l)
  <2>1. /\ lis[l] = "reading" /\ lis' = [lis EXCEPT ![l] = "none"] /\ deliver(<<ERR>>)
        /\ UNCHANGED <<next_id, id, read, hand, taken, stream, subscribers>>
    BY <1>4 DEF ReadError
  <2> QED BY <1>0, <2>1, DeliverError DEF Shape
<1> QED BY <1>1, <1>2, <1>3, <1>4 DEF ListenerStep

\* The accept thread and the closes move no bundle.
LEMMA HoldOthers ==
    ASSUME HoldInv, Shape,
           \/ AcceptStep \/ GraceEnds \/ UNCHANGED vars
           \/ \E k \in Closers : begin_close(k) \/ CloserStep(k)
    PROVE  HoldInv'
<1>1. CASE AcceptError
  <2>1. /\ deliver(<<ERR>>)
        /\ UNCHANGED <<next_id, id, read, hand, taken, stream, subscribers, lis>>
    BY <1>1 DEF AcceptError, listenerVars
  <2> QED BY <2>1, DeliverError DEF Shape
<1>2. ASSUME NEW l \in Listeners, SpawnListener(l) PROVE HoldInv'
  <2>1. /\ UNCHANGED <<stateVars, streamVars, read, hand, taken>>
        /\ lis[l] = "none" /\ lis' = [lis EXCEPT ![l] = "check"]
    BY <1>2 DEF SpawnListener
  <2> QED BY <2>1, HoldQuiet DEF stateVars, streamVars, Shape
<1>3. CASE \/ AcceptStop \/ AcceptContinue \/ AcceptNoSlot \/ AcceptSlot
           \/ AcceptLock \/ AcceptRefused \/ AcceptCall \/ SpawnListenerFails
           \/ AcceptResume \/ AcceptPanic \/ GraceEnds \/ UNCHANGED vars
  <2>1. /\ UNCHANGED <<next_id, id, read, hand, pending, queue, taken, lis, stream>>
        /\ subscribers' \subseteq subscribers
    BY <1>3 DEF AcceptStop, AcceptContinue, AcceptNoSlot, AcceptSlot, AcceptLock,
       AcceptRefused, AcceptCall, SpawnListenerFails, AcceptResume, AcceptPanic,
       GraceEnds, AcceptGoto, vars, stateVars, streamVars, listenerVars
  <2> QED BY <2>1, HoldQuiet
<1>4. ASSUME NEW k \in Closers, begin_close(k) \/ CloserStep(k) PROVE HoldInv'
  <2>1. /\ UNCHANGED <<next_id, id, read, hand, pending, queue, taken, lis>>
        /\ subscribers' \subseteq subscribers
        /\ stream' \in {stream, Woken}
    BY <1>4 DEF begin_close, CloserStep, CloseSocket, ReleaseAccept, EndClose,
       stateVars, streamVars, listenerVars
  <2>2. \A s \in Streams :
          stream[s] \in {"spawn", "open"} => stream'[s] \in {"spawn", "open"}
    BY <2>1 DEF Woken
  <2> QED BY <2>1, <2>2, HoldQuiet
<1> QED BY <1>1, <1>2, <1>3, <1>4 DEF AcceptStep

\* What a stream that ends leaves behind, appended to another queue.
LEMMA HandedOver ==
    ASSUME NEW p \in Seq(Nat), NEW q \in Seq(Nat), Once(p), Once(q),
           BundlesIn(p) \cap BundlesIn(q) = {}
    PROVE  /\ p \o Kept(q) \in Seq(Nat) /\ Once(p \o Kept(q))
           /\ BundlesIn(p \o Kept(q)) = BundlesIn(p) \cup BundlesIn(q)
<1>1. Kept(q) \in Seq(Nat) /\ Once(Kept(q)) /\ BundlesIn(Kept(q)) = BundlesIn(q)
  BY KeptBundles
<1> QED BY <1>1, BundlesBehind

\* The streams: opening one takes the kept bundles, reading one moves a bundle
\* to the application, and ending one hands its bundles over.
LEMMA HoldStream ==
    ASSUME HoldInv, Shape, NEW s \in Streams,
           OpenStream(s) \/ StreamStep(s) \/ PollNext(s) \/ Unsubscribe(s)
    PROVE  HoldInv'
<1>0. /\ next_id \in Nat /\ id \in [Streams -> Nat] /\ read \in Nat
      /\ pending \in Seq(Nat) /\ queue \in [Streams -> Seq(Nat)]
      /\ stream \in [Streams -> StreamStates] /\ subscribers \subseteq Streams
  BY DEF HoldInv, HoldShape, Shape
<1>S. /\ Once(pending) /\ \A t \in Streams : Once(queue[t])
      /\ Split(hand, BundlesIn(pending), InStreams, taken, read)
  BY DEF HoldInv, SplitInv
<1>I. \A t \in Streams : InStreams[t] = BundlesIn(queue[t])
  BY DEF InStreams
<1>J. \A t \in Streams : InStreams'[t] = BundlesIn(queue'[t])
  BY DEF InStreams
<1>1. CASE OpenStream(s) \/ SubscribeSleep(s) \/ SpawnAccept(s)
  <2>1. /\ UNCHANGED <<stateVars, id, queue, listenerVars, taken>>
        /\ \A t \in Streams :
             stream[t] \in {"spawn", "open"} => stream'[t] \in {"spawn", "open"}
    BY <1>0, <1>1 DEF OpenStream, SubscribeSleep, SpawnAccept
  <2> QED BY <2>1, HoldQuiet DEF stateVars, listenerVars
<1>2. CASE Subscribe(s)
  <2>1. /\ stream[s] = "wait" /\ id' = [id EXCEPT ![s] = next_id]
        /\ next_id' = next_id + 1
        /\ queue' = [queue EXCEPT ![s] = pending] /\ pending' = <<>>
        /\ subscribers' = subscribers \cup {s}
        /\ stream' = [(IF is_receiving THEN stream ELSE Woken) EXCEPT ![s] =
                         IF accept_running THEN "open" ELSE "spawn"]
        /\ UNCHANGED <<lis, hand, read, taken>>
    BY <1>2 DEF Subscribe
  <2>2. /\ stream'[s] \in {"spawn", "open"}
        /\ \A t \in Streams \ {s} :
             stream'[t] \in {"spawn", "open"} <=> stream[t] \in {"spawn", "open"}
    BY <1>0, <2>1 DEF Woken
  <2>3. queue[s] = <<>>
    BY <2>1 DEF HoldInv, PlaceInv
  <2>4. queue'[s] = pending /\ \A t \in Streams \ {s} : queue'[t] = queue[t]
    BY <1>0, <2>1
  <2>5. HoldShape'
    BY <1>0, <2>1 DEF HoldInv, HoldShape
  <2>6. PlaceInv'
    <3>1. \A t \in subscribers' : id'[t] < next_id'
      BY <1>0, <2>1 DEF HoldInv, PlaceInv
    <3>2. \A t \in Streams : stream'[t] \notin {"spawn", "open"} =>
            queue'[t] = <<>> /\ t \notin subscribers'
      BY <2>1, <2>2, <2>4 DEF HoldInv, PlaceInv
    <3> QED BY <2>1, <3>1, <3>2 DEF HoldInv, PlaceInv
  <2>7. InStreams[s] = {} /\ InStreams'[s] = BundlesIn(pending)
        /\ \A t \in Streams \ {s} : InStreams'[t] = InStreams[t]
    BY <1>I, <1>J, <2>3, <2>4, BundlesOfOne
  <2>8. Split(hand, {}, InStreams', taken, read)
    BY <1>0, <1>S, <2>7, SplitOpen
  <2>9. SplitInv'
    BY <1>S, <2>1, <2>4, <2>8, BundlesOfOne DEF SplitInv
  <2> QED BY <2>5, <2>6, <2>9 DEF HoldInv
<1>3. CASE SpawnAcceptFails(s)
  <2>1. /\ stream[s] = "spawn" /\ stream' = [stream EXCEPT ![s] = "open"]
        /\ subscribers' = {} /\ pending' = pending \o Kept(queue[s])
        /\ queue' = [x \in Streams |->
                       IF x = s THEN <<ERR>>
                       ELSE IF x \in subscribers THEN Append(queue[x], ERR)
                       ELSE queue[x]]
        /\ UNCHANGED <<next_id, id, lis, hand, read, taken>>
    BY <1>3 DEF SpawnAcceptFails, listenerVars
  <2>2. /\ pending' \in Seq(Nat) /\ Once(pending')
        /\ BundlesIn(pending') = BundlesIn(pending) \cup InStreams[s]
    <3>1. BundlesIn(pending) \cap BundlesIn(queue[s]) = {}
      BY <1>S, <1>I DEF Split
    <3> QED BY <1>0, <1>S, <1>I, <2>1, <3>1, HandedOver
  <2>3. <<ERR>> \in Seq(Nat) /\ Once(<<ERR>>) /\ BundlesIn(<<ERR>>) = {}
    BY BundlesOfOne DEF ERR
  <2>4. ASSUME NEW t \in Streams \ {s}
        PROVE  /\ queue'[t] \in Seq(Nat) /\ Once(queue'[t])
               /\ BundlesIn(queue'[t]) = BundlesIn(queue[t])
               /\ t \notin subscribers => queue'[t] = queue[t]
    <3>1. queue'[t] \in {queue[t], queue[t] \o <<ERR>>}
          /\ (t \notin subscribers => queue'[t] = queue[t])
      <4>1. Append(queue[t], ERR) = queue[t] \o <<ERR>>
        BY <1>0
      <4> QED BY <2>1, <4>1
    <3>2. /\ queue[t] \o <<ERR>> \in Seq(Nat) /\ Once(queue[t] \o <<ERR>>)
          /\ BundlesIn(queue[t] \o <<ERR>>) = BundlesIn(queue[t])
      <4>1. queue[t] \in Seq(Nat) /\ Once(queue[t])
            /\ BundlesIn(queue[t]) \cap BundlesIn(<<ERR>>) = {}
        BY <1>0, <1>S, <2>3
      <4>2. BundlesIn(queue[t]) \cup BundlesIn(<<ERR>>) = BundlesIn(queue[t])
        BY <2>3
      <4> QED BY <2>3, <4>1, <4>2, BundlesBehind
    <3> QED BY <1>0, <1>S, <3>1, <3>2
  <2>5. queue'[s] = <<ERR>> /\ queue' \in [Streams -> Seq(Nat)]
    <3>1. queue'[s] = <<ERR>> /\ queue' = [x \in Streams |-> queue'[x]]
      BY <2>1
    <3> QED BY <2>3, <2>4, <3>1
  <2>6. HoldShape'
    BY <1>0, <2>1, <2>2, <2>5 DEF HoldInv, HoldShape
  <2>7. PlaceInv'
    <3>1. \A t \in Streams : stream'[t] \notin {"spawn", "open"} => queue'[t] = <<>>
      BY <1>0, <2>1, <2>4 DEF HoldInv, PlaceInv
    <3> QED BY <2>1, <3>1 DEF HoldInv, PlaceInv
  <2>8. InStreams'[s] = {} /\ \A t \in Streams \ {s} : InStreams'[t] = InStreams[t]
    BY <1>I, <1>J, <2>3, <2>4, <2>5
  <2>9. Split(hand, BundlesIn(pending'), InStreams', taken, read)
    <3>1. Split(hand, BundlesIn(pending) \cup InStreams[s], InStreams', taken, read)
      BY <1>0, <1>S, <2>8, SplitHandOver
    <3> QED BY <2>2, <3>1
  <2>10. SplitInv'
    BY <2>1, <2>2, <2>3, <2>4, <2>5, <2>9 DEF SplitInv
  <2> QED BY <2>6, <2>7, <2>10 DEF HoldInv
<1>4. CASE PollNext(s)
  <2> DEFINE x == Head(queue[s])
  <2>1. /\ stream[s] = "open" /\ queue[s] # <<>>
        /\ queue' = [queue EXCEPT ![s] = Tail(queue[s])]
        /\ taken' = taken \cup ({x} \ {ERR})
        /\ UNCHANGED <<next_id, id, pending, subscribers, stream, lis, hand, read>>
    BY <1>4 DEF PollNext, stateVars, listenerVars
  <2>2. /\ Tail(queue[s]) \in Seq(Nat) /\ Once(Tail(queue[s]))
        /\ BundlesIn(queue[s]) = BundlesIn(Tail(queue[s])) \cup ({x} \ {ERR})
        /\ x \notin BundlesIn(Tail(queue[s]))
    BY <1>0, <1>S, <2>1, BundlesTail
  <2> HIDE DEF x
  <2>3. /\ queue'[s] = Tail(queue[s]) /\ queue' \in [Streams -> Seq(Nat)]
        /\ \A t \in Streams \ {s} : queue'[t] = queue[t]
    BY <1>0, <2>1, <2>2
  <2>4. HoldShape'
    BY <2>1, <2>3 DEF HoldInv, HoldShape
  <2>5. PlaceInv'
    BY <2>1, <2>3 DEF HoldInv, PlaceInv
  <2>6. /\ InStreams[s] = InStreams'[s] \cup ({x} \ {ERR}) /\ x \notin InStreams'[s]
        /\ \A t \in Streams \ {s} : InStreams'[t] = InStreams[t]
    BY <1>I, <1>J, <2>2, <2>3
  <2>7. Split(hand, BundlesIn(pending), InStreams', taken', read)
    BY <1>0, <1>S, <2>1, <2>6, SplitTake
  <2>8. SplitInv'
    BY <1>S, <2>1, <2>2, <2>3, <2>7 DEF SplitInv
  <2> QED BY <2>4, <2>5, <2>8 DEF HoldInv
<1>5. CASE Unsubscribe(s)
  <2> DEFINE others == subscribers \ {s}
  <2>1. /\ stream[s] = "open" /\ subscribers' = others
        /\ UNCHANGED <<next_id, id, lis, hand, read, taken>>
    BY <1>5 DEF Unsubscribe, listenerVars
  <2>2. stream'[s] = "dropped" /\ \A t \in Streams \ {s} :
          stream[t] \in {"spawn", "open"} <=> stream'[t] \in {"spawn", "open"}
    <3>1. \/ stream' = [stream EXCEPT ![s] = "dropped"]
          \/ stream' = [Woken EXCEPT ![s] = "dropped"]
      BY <1>5, Zenon DEF Unsubscribe
    <3> QED BY <1>0, <3>1 DEF Woken
  <2>3. CASE others # {}
    <3> DEFINE u == Newest(others)
    <3>1. u \in others
      BY <1>0, <2>3, NewestIsOne DEF HoldInv, PlaceInv
    <3>2. /\ queue' = [queue EXCEPT ![s] = <<>>, ![u] = @ \o Kept(queue[s])]
          /\ pending' = pending
      BY <1>5, <2>3, Zenon DEF Unsubscribe
    <3> HIDE DEF u
    <3>3. u \in Streams \ {s}
      BY <1>0, <3>1
    <3>4. /\ queue[u] \o Kept(queue[s]) \in Seq(Nat)
          /\ Once(queue[u] \o Kept(queue[s]))
          /\ BundlesIn(queue[u] \o Kept(queue[s])) = InStreams[u] \cup InStreams[s]
      <4>1. BundlesIn(queue[u]) \cap BundlesIn(queue[s]) = {}
        BY <1>S, <1>I, <3>3 DEF Split
      <4> QED BY <1>0, <1>S, <1>I, <3>3, <4>1, HandedOver
    <3>5. /\ queue'[s] = <<>> /\ queue'[u] = queue[u] \o Kept(queue[s])
          /\ \A t \in Streams \ {s, u} : queue'[t] = queue[t]
          /\ queue' \in [Streams -> Seq(Nat)]
      <4> DEFINE qs == [queue EXCEPT ![s] = <<>>]
                 new == queue[u] \o Kept(queue[s])
      <4>1. qs \in [Streams -> Seq(Nat)] /\ qs[s] = <<>> /\ qs[u] = queue[u]
            /\ \A t \in Streams \ {s} : qs[t] = queue[t]
        BY <1>0, <3>3
      <4>2. queue' = [qs EXCEPT ![u] = new]
        BY <3>2, <4>1
      <4> HIDE DEF qs, new
      <4>3. queue'[s] = <<>> /\ queue'[u] = new
            /\ \A t \in Streams \ {s, u} : queue'[t] = queue[t]
        BY <3>3, <4>1, <4>2
      <4>4. queue' \in [Streams -> Seq(Nat)]
        BY <3>4, <4>1, <4>2 DEF new
      <4> QED BY <4>3, <4>4 DEF new
    <3>6. HoldShape'
      BY <2>1, <3>2, <3>5 DEF HoldInv, HoldShape
    <3>7. PlaceInv'
      <4>1. \A t \in Streams : stream'[t] \notin {"spawn", "open"} =>
              queue'[t] = <<>> /\ t \notin subscribers'
        BY <2>1, <2>2, <3>1, <3>3, <3>5 DEF HoldInv, PlaceInv
      <4> QED BY <2>1, <4>1 DEF HoldInv, PlaceInv
    <3>8. /\ InStreams'[s] = {} /\ InStreams'[u] = InStreams[u] \cup InStreams[s]
          /\ \A t \in Streams \ {s, u} : InStreams'[t] = InStreams[t]
      BY <1>I, <1>J, <3>3, <3>4, <3>5, BundlesOfOne
    <3>9. Split(hand, BundlesIn(pending), InStreams', taken, read)
      BY <1>0, <1>S, <3>3, <3>8, SplitPassOn
    <3>10. SplitInv'
      BY <1>S, <2>1, <3>2, <3>3, <3>4, <3>5, <3>9, BundlesOfOne DEF SplitInv
    <3> QED BY <3>6, <3>7, <3>10 DEF HoldInv
  <2>4. CASE others = {}
    <3>1. /\ queue' = [queue EXCEPT ![s] = <<>>]
          /\ pending' = pending \o Kept(queue[s])
      BY <1>5, <2>4, Zenon DEF Unsubscribe
    <3>2. /\ pending' \in Seq(Nat) /\ Once(pending')
          /\ BundlesIn(pending') = BundlesIn(pending) \cup InStreams[s]
      <4>1. BundlesIn(pending) \cap BundlesIn(queue[s]) = {}
        BY <1>S, <1>I DEF Split
      <4> QED BY <1>0, <1>S, <1>I, <3>1, <4>1, HandedOver
    <3>3. /\ queue'[s] = <<>> /\ \A t \in Streams \ {s} : queue'[t] = queue[t]
          /\ queue' \in [Streams -> Seq(Nat)]
      BY <1>0, <3>1
    <3>4. HoldShape'
      BY <2>1, <3>2, <3>3 DEF HoldInv, HoldShape
    <3>5. PlaceInv'
      BY <2>1, <2>2, <2>4, <3>3 DEF HoldInv, PlaceInv
    <3>6. InStreams'[s] = {} /\ \A t \in Streams \ {s} : InStreams'[t] = InStreams[t]
      BY <1>I, <1>J, <3>3, BundlesOfOne
    <3>7. Split(hand, BundlesIn(pending'), InStreams', taken, read)
      <4>1. Split(hand, BundlesIn(pending) \cup InStreams[s], InStreams', taken, read)
        BY <1>0, <1>S, <3>6, SplitHandOver
      <4> QED BY <3>2, <4>1
    <3>8. SplitInv'
      BY <1>S, <2>1, <3>2, <3>3, <3>7, BundlesOfOne DEF SplitInv
    <3> QED BY <3>4, <3>5, <3>8 DEF HoldInv
  <2> QED BY <2>3, <2>4
<1> QED BY <1>1, <1>2, <1>3, <1>4, <1>5 DEF StreamStep

\* A set with one element.
LEMMA Sole ==
    ASSUME NEW S, NEW p, \A x : x \in S <=> x = p
    PROVE  \E y \in S : S = {y}
<1>1. p \in S /\ S = {p}
  OBVIOUS
<1> QED BY <1>1

\* Exactly one place, from what is in each.
LEMMA OnePlace == HoldInv => BundlesConserved
<1> SUFFICES ASSUME HoldInv, NEW b \in 1..read
             PROVE \E p \in Places(b) : Places(b) = {p}
  BY DEF BundlesConserved
<1> DEFINE H == {m \in Listeners : hand[m] = b}
           P == Positions(b, pending)
           Q(s) == Positions(b, queue[s])
<1>1. \A p : p \in Places(b) <=> \/ \E l \in H : p = <<"hand", l>>
                                 \/ \E i \in P : p = <<"pending", i>>
                                 \/ \E s \in Streams : \E i \in Q(s) : p = <<"queue", s, i>>
                                 \/ b \in taken /\ p = <<"taken">>
  <2> DEFINE A == {<<"hand", l>> : l \in H}
             B == {<<"pending", i>> : i \in P}
             C == UNION {{<<"queue", s, i>> : i \in Q(s)} : s \in Streams}
             D == {x \in {<<"taken">>} : b \in taken}
  <2>1. Places(b) = A \cup B \cup D \cup C
    BY DEF Places
  <2>2. \A p : p \in A <=> \E l \in H : p = <<"hand", l>>
    OBVIOUS
  <2>3. \A p : p \in B <=> \E i \in P : p = <<"pending", i>>
    OBVIOUS
  <2>4. \A p : p \in C <=> \E s \in Streams : \E i \in Q(s) : p = <<"queue", s, i>>
    OBVIOUS
  <2>5. \A p : p \in D <=> b \in taken /\ p = <<"taken">>
    OBVIOUS
  <2>6. \A p : p \in Places(b) <=> p \in A \/ p \in B \/ p \in C \/ p \in D
    <3> HIDE DEF A, B, C, D
    <3> QED BY <2>1
  <2> HIDE DEF A, B, C, D
  <2> QED BY <2>2, <2>3, <2>4, <2>5, <2>6, Zenon
<1>2. /\ Split(hand, BundlesIn(pending), InStreams, taken, read)
      /\ Once(pending)
      /\ \A s \in Streams : Once(queue[s])
      /\ b # ERR /\ IsBundle(b)
  BY DEF HoldInv, SplitInv, HoldShape, ERR, IsBundle
<1>3. /\ H # {} <=> \E l \in Listeners : hand[l] = b
      /\ P # {} <=> b \in BundlesIn(pending)
      /\ \A s \in Streams : Q(s) # {} <=> b \in InStreams[s]
  <2>1. P # {} <=> b \in BundlesIn(pending)
    BY <1>2, InBundles DEF Positions
  <2>2. ASSUME NEW s \in Streams PROVE Q(s) # {} <=> b \in InStreams[s]
    <3>1. InStreams[s] = BundlesIn(queue[s])
      BY DEF InStreams
    <3> QED BY <1>2, <3>1, InBundles DEF Positions
  <2>3. H # {} <=> \E l \in Listeners : hand[l] = b
    OBVIOUS
  <2> HIDE DEF H, P, Q
  <2> QED BY <2>1, <2>2, <2>3
<1>4. /\ \A l, m \in H : l = m
      /\ \A i, j \in P : i = j
      /\ \A s \in Streams : \A i, j \in Q(s) : i = j
      /\ \A s, t \in Streams : Q(s) # {} /\ Q(t) # {} => s = t
      /\ H # {} => P = {} /\ b \notin taken /\ \A s \in Streams : Q(s) = {}
      /\ P # {} => b \notin taken /\ \A s \in Streams : Q(s) = {}
      /\ b \in taken => \A s \in Streams : Q(s) = {}
  <2>1. \A l, m \in H : l = m
    <3>1. \A l, m \in Listeners : hand[l] = hand[m] /\ IsBundle(hand[l]) => l = m
      BY <1>2 DEF Split
    <3> QED BY <1>2, <3>1
  <2>2. (\A i, j \in P : i = j) /\ \A s \in Streams : \A i, j \in Q(s) : i = j
    <3>1. \A i, j \in P : i = j
      BY <1>2 DEF Once, Positions
    <3>2. ASSUME NEW s \in Streams PROVE \A i, j \in Q(s) : i = j
      <4>1. Once(queue[s])
        BY <1>2
      <4> QED BY <1>2, <4>1 DEF Once, Positions
    <3> QED BY <3>1, <3>2
  <2> HIDE DEF P, Q
  <2>3. \A s, t \in Streams : Q(s) # {} /\ Q(t) # {} => s = t
    BY <1>2, <1>3 DEF Split
  <2>4. H # {} => P = {} /\ b \notin taken /\ \A s \in Streams : Q(s) = {}
    BY <1>2, <1>3 DEF Split
  <2>5. P # {} => b \notin taken /\ \A s \in Streams : Q(s) = {}
    BY <1>2, <1>3 DEF Split
  <2>6. b \in taken => \A s \in Streams : Q(s) = {}
    BY <1>2, <1>3 DEF Split
  <2> QED BY <2>1, <2>2, <2>3, <2>4, <2>5, <2>6
<1>5. H # {} \/ P # {} \/ (\E s \in Streams : Q(s) # {}) \/ b \in taken
  <2> HIDE DEF P, Q
  <2> QED BY <1>2, <1>3 DEF Split
<1> HIDE DEF H, P, Q
<1>6. ASSUME NEW p, \A x : x \in Places(b) <=> x = p
      PROVE  \E y \in Places(b) : Places(b) = {y}
  BY <1>6, Sole
<1>7. CASE H # {}
  <2>1. PICK l : l \in H
    BY <1>7
  <2>0. PICK p : p = <<"hand", l>>
    OBVIOUS
  <2>2. \A x : x \in Places(b) <=> x = p
    BY <1>1, <1>4, <1>7, <2>0, <2>1
  <2> QED BY <1>6, <2>2
<1>8. CASE P # {}
  <2>1. PICK i : i \in P
    BY <1>8
  <2>2. H = {} /\ b \notin taken
    BY <1>4, <1>8
  <2>0. PICK p : p = <<"pending", i>>
    OBVIOUS
  <2>3. \A x : x \in Places(b) <=> x = p
    BY <1>1, <1>4, <1>8, <2>0, <2>1, <2>2
  <2> QED BY <1>6, <2>3
<1>9. ASSUME NEW s \in Streams, Q(s) # {} PROVE \E p \in Places(b) : Places(b) = {p}
  <2>1. PICK i : i \in Q(s)
    BY <1>9
  <2>2. H = {} /\ P = {} /\ b \notin taken
        /\ \A t \in Streams : \A j \in Q(t) : t = s /\ j = i
    BY <1>4, <1>9, <2>1
  <2>0. PICK p : p = <<"queue", s, i>>
    OBVIOUS
  <2>3. \A x : x \in Places(b) <=> x = p
    BY <1>1, <2>0, <2>1, <2>2
  <2> QED BY <1>6, <2>3
<1>10. CASE b \in taken
  <2>1. H = {} /\ P = {} /\ \A t \in Streams : Q(t) = {}
    BY <1>4, <1>10
  <2>0. PICK p : p = <<"taken">>
    OBVIOUS
  <2>2. \A x : x \in Places(b) <=> x = p
    BY <1>1, <1>10, <2>0, <2>1
  <2> QED BY <1>6, <2>2
<1> QED BY <1>5, <1>7, <1>8, <1>9, <1>10

\* However streams open, fail, are dropped and are closed while listeners read
\* and deliver, no bundle a peer was told is delivered is lost or given twice.
THEOREM NoBundleLost == Spec => []BundlesConserved
<1>1. StreamInv /\ HoldInv /\ [Next]_vars => HoldInv'
  <2> SUFFICES ASSUME StreamInv, HoldInv, [Next]_vars PROVE HoldInv'
    OBVIOUS
  <2>1. Shape
    BY DEF StreamInv
  <2> QED BY <2>1, HoldStream, HoldListener, HoldOthers DEF Next
<1> QED BY <1>1, OnePlace, HoldInit, StreamInit, StreamInvStep, PTL DEF Spec

=============================================================================
