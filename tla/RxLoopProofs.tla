---------------------------- MODULE RxLoopProofs ----------------------------
(***************************************************************************)
(* Proofs about the receive loops, for any number of bundles and failures: *)
(* a shutdown leaves no stream open and its end is never retried, the      *)
(* delays between quick failures follow the law, and no acknowledged       *)
(* bundle is lost, doubled or delivered out of order.                      *)
(*                                                                         *)
(* The first two rest on who holds the lock of the transport or the link   *)
(* (LockInv) and on where the one stream is (PlaceInv): a shutdown that    *)
(* ends a stream finds it in the loop's hands, never on its way to it.     *)
(* The bundles need PlaceInv too: a stream nobody waits for is dropped     *)
(* only after the loop is over, when the order no longer matters.          *)
(***************************************************************************)
EXTENDS RxLoop, TLAPS

-----------------------------------------------------------------------------
(* The inductive invariant *)

\* The lock, the flag it protects and the two threads that take it.
LockInv ==
    /\ holder \in {NONE, "opener", "shut"}
    /\ holder = "opener" <=> opener \in {"locked", "checked", "sending"}
    /\ holder = "shut" <=> shut \in {"closing", "closed"}
    /\ shut \in {"closing", "closed", "done"} => closed /\ cancel
    /\ opener \in {"checked", "sending"} => ~closed

\* At most one thread opens a stream, and only for a loop that waits for it or
\* has gone; the stream is with that thread, in the channel or in the loop.
PlaceInv ==
    /\ loop \notin {"opening", "ended", "dropped"} => opener = NONE
    /\ loop # "opening" => answer = NONE
    /\ opener # NONE => answer = NONE
    /\ opener # "sending" /\ answer # "stream"
         /\ loop \notin {"reading", "polled", "dispatch"}
       => stream = NONE
    /\ adapter \in {"hardy", "pico"}
    /\ adapter = "pico" => loop # "polled"

\* Once a shutdown ended the stream, pico's loop still has that stream or is
\* over.
CloseInv ==
    cause = "close" =>
        /\ shut \in {"closed", "done"}
        /\ adapter = "pico" =>
             \/ loop \in {"reading", "dispatch", "ended", "dropped"}
             \/ loop = "opening" /\ answer = "stream"

LoopInv == LockInv /\ PlaceInv /\ CloseInv /\ StoppedForGood

-----------------------------------------------------------------------------
(* The steps *)

\* Nothing runs, nothing is locked, there is no stream.
LEMMA LoopInvInit == Init => LoopInv
  BY RxLoopAssumption
  DEF Init, LoopInv, LockInv, PlaceInv, CloseInv, StoppedForGood, NONE

\* Registration and the start of a loop.
LEMMA StartStep ==
  LoopInv /\ (Register \/ StartDispatcher \/ StartIncoming) => LoopInv'
  BY DEF Register, StartDispatcher, StartIncoming, LoopInv, LockInv, PlaceInv,
         CloseInv, StoppedForGood, flagVars, loopVars, openVars, recvVars,
         histVars, countVars, NONE

\* What the receiver does to the stream.
LEMMA ReceiverStep ==
  LoopInv /\ (Arrive \/ StreamStillborn \/ StreamDies \/ StreamError) => LoopInv'
  BY DEF Arrive, StreamStillborn, StreamDies, StreamError, LoopInv, LockInv,
         PlaceInv, CloseInv, StoppedForGood, flagVars, loopVars, openVars,
         histVars, NONE

\* The thread that opens a stream.
LEMMA OpenStep ==
  LoopInv /\ (OpenerStep \/ OpenerPanics) => LoopInv'
<1> SUFFICES ASSUME LoopInv, OpenerStep \/ OpenerPanics PROVE LoopInv'
  OBVIOUS
<1> USE DEF LoopInv, LockInv, PlaceInv, CloseInv, StoppedForGood, flagVars,
            loopVars, openVars, recvVars, histVars, countVars, NONE
<1>1. CASE OpenerLocks BY <1>1 DEF OpenerLocks
<1>2. CASE OpenerChecks BY <1>2 DEF OpenerChecks
<1>3. CASE OpenerOpens BY <1>3 DEF OpenerOpens
<1>4. CASE OpenerSends BY <1>4 DEF OpenerSends, DropStream
<1>5. CASE OpenerRefuses BY <1>5 DEF OpenerRefuses
<1>6. CASE OpenerPanics BY <1>6 DEF OpenerPanics
<1> QED BY <1>1, <1>2, <1>3, <1>4, <1>5, <1>6 DEF OpenerStep

\* The loop itself, its end included.
LEMMA LoopSteps ==
  LoopInv /\ (LoopStep \/ SpawnOpenerFails \/ Abort) => LoopInv'
<1> SUFFICES ASSUME LoopInv, LoopStep \/ SpawnOpenerFails \/ Abort
             PROVE LoopInv'
  OBVIOUS
<1> USE DEF LoopInv, LockInv, PlaceInv, CloseInv, StoppedForGood, flagVars,
            loopVars, openVars, recvVars, histVars, countVars, NONE
<1>1. CASE SpawnOpener \/ SpawnOpenerFails
  BY <1>1 DEF SpawnOpener, SpawnOpenerFails, Wait, Interrupted
<1>2. CASE TakeStream \/ TakeClosed \/ TakeFailed
  BY <1>2 DEF TakeStream, TakeClosed, TakeFailed, Wait
<1>3. CASE Poll \/ PollAgain
  BY <1>3 DEF Poll, PollAgain
<1>4. CASE ReadBundle \/ ReadError
  BY <1>4 DEF ReadBundle, ReadError, AtStream
<1>5. CASE ReadEndShut
  BY <1>5 DEF ReadEndShut, AtStream
<1>6. ASSUME NEW long \in BOOLEAN, ReadEnd(long) \/ ReadEndOpen(long)
      PROVE LoopInv'
  BY <1>6 DEF ReadEnd, ReadEndOpen, StreamFailed, AtStream, Wait
<1>7. CASE WaitOver \/ WaitShut
  BY <1>7 DEF WaitOver, WaitShut
<1>8. CASE Break \/ Abort
  <2>1. /\ loop' \in {"ended", "dropped"} /\ answer' = NONE
        /\ UNCHANGED <<adapter, flagVars, opener, shut, cause>>
    BY <1>8 DEF Break, Abort
  <2>2. \/ stream' = NONE
        \/ /\ answer # "stream" /\ loop \notin {"reading", "polled", "dispatch"}
           /\ stream' = stream
    BY <1>8 DEF Break, Abort, DropHeld, DropStream
  <2> QED BY <2>1, <2>2
<1>9. ASSUME NEW accepted \in BOOLEAN, Dispatch(accepted) PROVE LoopInv'
  BY <1>9 DEF Dispatch
<1> QED BY <1>1, <1>2, <1>3, <1>4, <1>5, <1>6, <1>7, <1>8, <1>9 DEF LoopStep

\* cleanup() and shutdown().
LEMMA ShutSteps ==
  LoopInv /\ (ShutCancel \/ ShutLock \/ ShutClose \/ ShutReturn) => LoopInv'
<1> SUFFICES ASSUME LoopInv, ShutCancel \/ ShutLock \/ ShutClose \/ ShutReturn
             PROVE LoopInv'
  OBVIOUS
<1> USE DEF LoopInv, LockInv, PlaceInv, CloseInv, StoppedForGood, flagVars,
            loopVars, openVars, recvVars, histVars, countVars, NONE
<1>1. CASE ShutCancel BY <1>1 DEF ShutCancel
<1>2. CASE ShutLock BY <1>2 DEF ShutLock
<1>3. CASE ShutClose BY <1>3 DEF ShutClose
<1>4. CASE ShutReturn BY <1>4 DEF ShutReturn
<1> QED BY <1>1, <1>2, <1>3, <1>4

\* Every step.
LEMMA LoopInvNext == LoopInv /\ [Next]_vars => LoopInv'
<1>1. LoopInv /\ UNCHANGED vars => LoopInv'
  BY DEF vars, LoopInv, LockInv, PlaceInv, CloseInv, StoppedForGood, flagVars,
         loopVars, openVars, recvVars, histVars, countVars
<1> QED BY <1>1, StartStep, ReceiverStep, OpenStep, LoopSteps, ShutSteps DEF Next

\* Along every behaviour.
LEMMA LoopInvAlways == Spec => []LoopInv
  BY LoopInvInit, LoopInvNext, PTL DEF Spec

-----------------------------------------------------------------------------
(* Theorems *)

\* Once cleanup() or shutdown() has closed the socket, no stream is open and
\* the thread that was about to open one cannot, wherever it was.
THEOREM ShutdownIsFinal == Spec => []StoppedForGood
  BY LoopInvAlways, PTL DEF LoopInv

\* Neither loop takes the end of the stream its shutdown caused for a failure
\* and opens another.
THEOREM ShutdownEndsLoop == Spec => EndNotRetried
<1>1. LoopInv /\ [Next]_vars
        => [cause = "close" /\ loop # "opening" => loop' # "opening"]_vars
  <2> SUFFICES ASSUME LoopInv, Next, cause = "close", loop # "opening"
               PROVE loop' # "opening"
    BY DEF vars, loopVars
  <2>1. loop = "top" => Interrupted
    BY DEF LoopInv, LockInv, PlaceInv, CloseInv, Interrupted
  <2>2. CASE LoopStep \/ SpawnOpenerFails \/ Abort
    BY <2>1, <2>2
    DEF LoopStep, SpawnOpenerFails, Abort, SpawnOpener, TakeStream, TakeClosed,
        TakeFailed, Poll, PollAgain, ReadBundle, ReadError, ReadEndShut, ReadEnd,
        ReadEndOpen, StreamFailed, WaitOver, WaitShut, Break, Dispatch, Wait
  <2>3. CASE ~(LoopStep \/ SpawnOpenerFails \/ Abort)
    BY <2>3
    DEF Next, Register, StartDispatcher, StartIncoming, Arrive, StreamStillborn,
        StreamDies, StreamError, OpenerStep, OpenerLocks, OpenerChecks,
        OpenerOpens, OpenerSends, OpenerRefuses, OpenerPanics, ShutCancel,
        ShutLock, ShutClose, ShutReturn, loopVars
  <2> QED BY <2>2, <2>3
<1> QED BY <1>1, LoopInvAlways, PTL DEF Spec, EndNotRetried

-----------------------------------------------------------------------------
(* The delay.  "backoff" is always the delay the next quick failure waits.   *)

\* The delay before the nth quick failure in a row.
Delay(n) == IF n <= 6 THEN REOPEN_DELAY * 2^(n - 1) ELSE MAX_REOPEN_DELAY

BackoffInv ==
    /\ streak \in Nat
    /\ backoff = Delay(streak + 1)
    /\ loop = "wait" => streak > 0 /\ pause = Delay(streak)

\* The delays: from 500 ms, doubled each time and cut off at 30 s.
LEMMA DelayDoubles ==
  /\ Delay(1) = REOPEN_DELAY
  /\ \A n \in Nat \ {0} : Delay(n + 1) = Min(Delay(n) * 2, MAX_REOPEN_DELAY)
<1>1. /\ Delay(1) = 500 /\ Delay(2) = 1000 /\ Delay(3) = 2000 /\ Delay(4) = 4000
      /\ Delay(5) = 8000 /\ Delay(6) = 16000
  <2>1. 2^0 = 1 /\ 2^1 = 2 /\ 2^2 = 4 /\ 2^3 = 8 /\ 2^4 = 16 /\ 2^5 = 32
    OBVIOUS
  <2>2. 1 - 1 = 0 /\ 2 - 1 = 1 /\ 3 - 1 = 2 /\ 4 - 1 = 3 /\ 5 - 1 = 4 /\ 6 - 1 = 5
    OBVIOUS
  <2> QED BY <2>1, <2>2 DEF Delay, REOPEN_DELAY
<1>2. \A n \in Nat : n > 6 => Delay(n) = 30000
  BY DEF Delay, MAX_REOPEN_DELAY
<1>3. ASSUME NEW n \in Nat \ {0}
      PROVE  Delay(n + 1) = Min(Delay(n) * 2, MAX_REOPEN_DELAY)
  <2>1. CASE n > 6
    BY <1>2, <2>1 DEF Min, MAX_REOPEN_DELAY
  <2>2. CASE n \in 1..6
    <3>1. n = 1 \/ n = 2 \/ n = 3 \/ n = 4 \/ n = 5 \/ n = 6
      BY <2>2
    <3> QED BY <1>1, <1>2, <3>1 DEF Min, MAX_REOPEN_DELAY
  <2> QED BY <2>1, <2>2
<1> QED BY <1>1, <1>3 DEF REOPEN_DELAY

\* Backoff::wait() after the nth quick failure.
LEMMA WaitStep ==
  ASSUME NEW n \in Nat \ {0}, Wait(Delay(n)), streak' = n
  PROVE  BackoffInv'
BY DelayDoubles DEF Wait, BackoffInv

\* Only failures wait and change the delay.
LEMMA BackoffInvNext == BackoffInv /\ [Next]_vars => BackoffInv'
<1> SUFFICES ASSUME BackoffInv, [Next]_vars PROVE BackoffInv'
  OBVIOUS
<1>1. ASSUME Wait(backoff), streak' = streak + 1 PROVE BackoffInv'
  <2>1. streak + 1 \in Nat \ {0} /\ backoff = Delay(streak + 1)
    BY DEF BackoffInv
  <2> QED BY <1>1, <2>1, WaitStep
<1>2. CASE SpawnOpenerFails \/ TakeFailed
  BY <1>1, <1>2 DEF SpawnOpenerFails, TakeFailed
<1>3. ASSUME NEW long \in BOOLEAN, ReadEnd(long) \/ ReadEndOpen(long)
      PROVE  BackoffInv'
  <2>1. /\ Wait(IF long THEN REOPEN_DELAY ELSE backoff)
        /\ streak' = IF long THEN 1 ELSE streak + 1
    BY <1>3 DEF ReadEnd, ReadEndOpen, StreamFailed
  <2>2. CASE long
    <3>1. Wait(Delay(1)) /\ streak' = 1
      BY <2>1, <2>2, DelayDoubles
    <3> QED BY <3>1, WaitStep
  <2>3. CASE ~long
    BY <1>1, <2>1, <2>3
  <2> QED BY <2>2, <2>3
<1>4. CASE /\ ~SpawnOpenerFails /\ ~TakeFailed
           /\ ~\E long \in BOOLEAN : ReadEnd(long) \/ ReadEndOpen(long)
  <2>1. UNCHANGED <<backoff, pause, streak>> /\ (loop' = loop \/ loop' # "wait")
    BY <1>4
    DEF Next, vars, LoopStep, Register, StartDispatcher, StartIncoming, Arrive,
        StreamStillborn, StreamDies, StreamError, Abort, SpawnOpener, TakeStream,
        TakeClosed, Poll, PollAgain, ReadBundle, ReadError, ReadEndShut, WaitOver,
        WaitShut, Break, Dispatch, OpenerStep, OpenerLocks, OpenerChecks,
        OpenerOpens, OpenerSends, OpenerRefuses, OpenerPanics, ShutCancel,
        ShutLock, ShutClose, ShutReturn, loopVars
  <2> QED BY <2>1 DEF BackoffInv
<1> QED BY <1>2, <1>3, <1>4

\* Both loops wait 500 ms, 1 s, 2 s and so on up to 30 s between quick failures,
\* and start over only after a stream that outlived the delay.
THEOREM BackoffDoubles == Spec => []BackoffLaw
<1>1. Init => BackoffInv
  BY DelayDoubles DEF Init, BackoffInv
<1>2. BackoffInv => BackoffLaw
  BY DEF BackoffInv, BackoffLaw, Delay
<1> QED BY <1>1, <1>2, BackoffInvNext, PTL DEF Spec

-----------------------------------------------------------------------------
(* Bundles.  While the loop lives, the bundles it has delivered, the one in   *)
(* its hand, the unread and the kept ones form one line in the order the      *)
(* listeners handed them over in (LineInv); a loop that is over may leave the *)
(* kept ones in another order, but each still in one place (ShareInv).        *)

HandSet == {hand} \ {NOTHING}

KeepShape ==
    /\ queue \in Seq(Nat) /\ pending \in Seq(Nat) /\ got \in Seq(Nat)
    /\ hand \in Nat /\ arrived \in Nat

\* What the stream's place says of its contents.
StreamInv ==
    /\ stream = "open" => pending = <<>>
    /\ stream = NONE => queue = <<>>
    /\ loop # "dispatch" => hand = NOTHING

\* The four sets the acknowledged bundles 1..n are in.
Shares(n, Q, P, G, H, X) ==
    /\ Q \cup P \cup G \cup H \cup X = 1..n
    /\ Q \cap P = {} /\ Q \cap G = {} /\ Q \cap H = {} /\ Q \cap X = {}
    /\ P \cap G = {} /\ P \cap H = {} /\ P \cap X = {}
    /\ G \cap H = {} /\ G \cap X = {} /\ H \cap X = {}

ShareInv ==
    /\ Distinct(queue) /\ Distinct(pending) /\ Distinct(got)
    /\ Shares(arrived, Elements(queue), Elements(pending), Elements(got), HandSet, gone)

Below(S, T) == \A x \in S : \A y \in T : x < y

Line(Q, P, G, H) ==
    /\ Below(G, H) /\ Below(G, Q) /\ Below(G, P)
    /\ Below(H, Q) /\ Below(H, P) /\ Below(Q, P)

Live == loop \notin {"ended", "dropped"}

LineInv ==
    /\ Increasing(got)
    /\ Live => /\ Increasing(queue) /\ Increasing(pending)
               /\ Line(Elements(queue), Elements(pending), Elements(got), HandSet)

KeepInv == KeepShape /\ StreamInv /\ ShareInv /\ LineInv

-----------------------------------------------------------------------------
(* Sequences of bundles *)

\* A member of a sequence is at some place in it.
LEMMA InElements ==
  ASSUME NEW q, NEW b
  PROVE  b \in Elements(q) <=> \E i \in DOMAIN q : q[i] = b
BY DEF Elements

\* One sequence behind another.
LEMMA Joined ==
  ASSUME NEW p \in Seq(Nat), NEW q \in Seq(Nat)
  PROVE  /\ p \o q \in Seq(Nat)
         /\ Elements(p \o q) = Elements(p) \cup Elements(q)
         /\ Distinct(p) /\ Distinct(q) /\ Elements(p) \cap Elements(q) = {}
              => Distinct(p \o q)
         /\ Increasing(p) /\ Increasing(q) /\ Below(Elements(p), Elements(q))
              => Increasing(p \o q)
<1> DEFINE r == p \o q
<1>1. /\ r \in Seq(Nat) /\ DOMAIN r = 1..Len(p) + Len(q)
      /\ Len(p) \in Nat /\ Len(q) \in Nat
      /\ DOMAIN p = 1..Len(p) /\ DOMAIN q = 1..Len(q)
      /\ \A i \in 1..Len(p) + Len(q) :
           r[i] = IF i <= Len(p) THEN p[i] ELSE q[i - Len(p)]
  OBVIOUS
<1>2. \A i \in 1..Len(q) : i + Len(p) \in DOMAIN r /\ r[i + Len(p)] = q[i]
  BY <1>1
<1>3. \A i \in 1..Len(p) : i \in DOMAIN r /\ r[i] = p[i]
  BY <1>1
<1>4. \A i \in DOMAIN r : IF i <= Len(p) THEN i \in 1..Len(p) /\ r[i] = p[i]
                          ELSE i - Len(p) \in 1..Len(q) /\ r[i] = q[i - Len(p)]
  BY <1>1
<1> HIDE DEF r
<1>5. Elements(r) = Elements(p) \cup Elements(q)
  <2>1. ASSUME NEW b \in Elements(r) PROVE b \in Elements(p) \cup Elements(q)
    <3>1. PICK i \in DOMAIN r : r[i] = b
      BY InElements
    <3> QED BY <1>1, <1>4, <3>1, InElements
  <2>2. ASSUME NEW b \in Elements(p) PROVE b \in Elements(r)
    <3>1. PICK i \in 1..Len(p) : p[i] = b
      BY <1>1, InElements
    <3> QED BY <1>3, <3>1, InElements
  <2>3. ASSUME NEW b \in Elements(q) PROVE b \in Elements(r)
    <3>1. PICK i \in 1..Len(q) : q[i] = b
      BY <1>1, InElements
    <3> QED BY <1>2, <3>1, InElements
  <2> QED BY <2>1, <2>2, <2>3
<1>6. \A i \in DOMAIN r : IF i <= Len(p) THEN r[i] \in Elements(p)
                          ELSE r[i] \in Elements(q)
  BY <1>1, <1>4, InElements
<1>7. ASSUME Distinct(p), Distinct(q), Elements(p) \cap Elements(q) = {}
      PROVE  Distinct(r)
  <2> SUFFICES ASSUME NEW i \in DOMAIN r, NEW j \in DOMAIN r, i # j
               PROVE r[i] # r[j]
    BY DEF Distinct
  <2>1. CASE i <= Len(p) /\ j <= Len(p)
    BY <1>1, <1>4, <1>7, <2>1 DEF Distinct
  <2>2. CASE ~(i <= Len(p)) /\ ~(j <= Len(p))
    BY <1>1, <1>4, <1>7, <2>2 DEF Distinct
  <2>3. CASE (i <= Len(p)) # (j <= Len(p))
    BY <1>6, <1>7, <2>3
  <2> QED BY <2>1, <2>2, <2>3
<1>8. ASSUME Increasing(p), Increasing(q), Below(Elements(p), Elements(q))
      PROVE  Increasing(r)
  <2> SUFFICES ASSUME NEW i \in DOMAIN r, NEW j \in DOMAIN r, i < j
               PROVE r[i] < r[j]
    BY DEF Increasing
  <2>1. CASE i <= Len(p) /\ j <= Len(p)
    BY <1>1, <1>4, <1>8, <2>1 DEF Increasing
  <2>2. CASE ~(i <= Len(p)) /\ ~(j <= Len(p))
    BY <1>1, <1>4, <1>8, <2>2 DEF Increasing
  <2>3. CASE i <= Len(p) /\ ~(j <= Len(p))
    BY <1>6, <1>8, <2>3 DEF Below
  <2> QED BY <1>1, <2>1, <2>2, <2>3
<1> QED BY <1>1, <1>5, <1>7, <1>8 DEF r

\* Sequences of no bundle and of one.
LEMMA ShortOnes ==
  /\ Elements(<<>>) = {} /\ Distinct(<<>>) /\ Increasing(<<>>) /\ <<>> \in Seq(Nat)
  /\ \A x \in Nat : /\ <<x>> \in Seq(Nat) /\ Elements(<<x>>) = {x}
                    /\ Distinct(<<x>>) /\ Increasing(<<x>>)
BY DEF Elements, Distinct, Increasing

\* One more bundle.
LEMMA Appended ==
  ASSUME NEW p \in Seq(Nat), NEW x \in Nat
  PROVE  /\ Append(p, x) \in Seq(Nat) /\ Elements(Append(p, x)) = Elements(p) \cup {x}
         /\ Distinct(p) /\ x \notin Elements(p) => Distinct(Append(p, x))
         /\ Increasing(p) /\ Below(Elements(p), {x}) => Increasing(Append(p, x))
<1>1. Append(p, x) = p \o <<x>>
  OBVIOUS
<1>2. <<x>> \in Seq(Nat) /\ Elements(<<x>>) = {x} /\ Distinct(<<x>>) /\ Increasing(<<x>>)
  BY ShortOnes
<1>3. x \notin Elements(p) => Elements(p) \cap {x} = {}
  OBVIOUS
<1> QED BY <1>1, <1>2, <1>3, Joined

\* The first bundle and the others.
LEMMA Beheaded ==
  ASSUME NEW q \in Seq(Nat), q # <<>>
  PROVE  /\ Tail(q) \in Seq(Nat) /\ Head(q) \in Nat
         /\ Elements(q) = Elements(Tail(q)) \cup {Head(q)}
         /\ Distinct(q) => Distinct(Tail(q)) /\ Head(q) \notin Elements(Tail(q))
         /\ Increasing(q) =>
              Increasing(Tail(q)) /\ Below({Head(q)}, Elements(Tail(q)))
<1> DEFINE t == Tail(q)
<1>1. /\ t \in Seq(Nat) /\ Head(q) = q[1] /\ Len(q) \in Nat /\ Len(q) >= 1
      /\ DOMAIN q = 1..Len(q) /\ DOMAIN t = 1..Len(q) - 1
      /\ \A i \in 1..Len(q) - 1 : t[i] = q[i + 1]
  OBVIOUS
<1> HIDE DEF t
<1>2. \A i \in 1..Len(q) : i = 1 \/ (i - 1 \in 1..Len(q) - 1 /\ q[i] = t[i - 1])
  BY <1>1
<1>3. \A i \in DOMAIN t : i + 1 \in DOMAIN q /\ t[i] = q[i + 1] /\ i \in Nat \ {0}
  BY <1>1
<1>4. 1 \in DOMAIN q /\ q[1] = Head(q) /\ Head(q) \in Nat
  BY <1>1
<1>5. Elements(q) = Elements(t) \cup {Head(q)}
  <2>1. ASSUME NEW b \in Elements(q) PROVE b \in Elements(t) \cup {Head(q)}
    <3>1. PICK i \in DOMAIN q : q[i] = b
      BY InElements
    <3>2. i = 1 \/ (i - 1 \in DOMAIN t /\ t[i - 1] = b)
      BY <1>1, <1>2, <3>1
    <3> QED BY <1>4, <3>1, <3>2, InElements
  <2>2. ASSUME NEW b \in Elements(t) PROVE b \in Elements(q)
    <3>1. PICK i \in DOMAIN t : t[i] = b
      BY InElements
    <3> QED BY <1>3, <3>1, InElements
  <2>3. Head(q) \in Elements(q)
    BY <1>4, InElements
  <2> QED BY <2>1, <2>2, <2>3
<1>6. ASSUME Distinct(q) PROVE Distinct(t) /\ Head(q) \notin Elements(t)
  <2>1. \A i, j \in DOMAIN t : i # j => i + 1 # j + 1
    BY <1>3
  <2>2. Distinct(t)
    BY <1>3, <1>6, <2>1 DEF Distinct
  <2>3. \A i \in DOMAIN t : t[i] # Head(q)
    BY <1>3, <1>4, <1>6 DEF Distinct
  <2> QED BY <2>2, <2>3, InElements
<1>7. ASSUME Increasing(q) PROVE Increasing(t) /\ Below({Head(q)}, Elements(t))
  <2>1. \A i, j \in DOMAIN t : i < j => i + 1 < j + 1
    BY <1>3
  <2>2. Increasing(t)
    BY <1>3, <1>7, <2>1 DEF Increasing
  <2>3. \A i \in DOMAIN t : Head(q) < t[i]
    BY <1>3, <1>4, <1>7 DEF Increasing
  <2> QED BY <2>2, <2>3, InElements DEF Below
<1> QED BY <1>1, <1>4, <1>5, <1>6, <1>7 DEF t

-----------------------------------------------------------------------------
(* The steps that move bundles *)

\* Steps that move no bundle and neither open nor drop the stream.
LEMMA KeepQuiet ==
  ASSUME KeepInv, UNCHANGED <<queue, pending, got, gone, hand, arrived>>,
         stream' = "open" => stream = "open",
         stream' = NONE => stream = NONE \/ queue = <<>>,
         Live' => Live,
         loop = "dispatch" => loop' = "dispatch" \/ hand = NOTHING
  PROVE  KeepInv'
<1>1. KeepShape' /\ StreamInv'
  BY DEF KeepInv, KeepShape, StreamInv
<1>2. ShareInv'
  BY DEF KeepInv, ShareInv, HandSet
<1>3. LineInv'
  BY DEF KeepInv, LineInv, HandSet
<1> QED BY <1>1, <1>2, <1>3 DEF KeepInv

\* A bundle that arrives is the last of the line.
LEMMA KeepArrive == KeepInv /\ Arrive => KeepInv'
<1> SUFFICES ASSUME KeepInv, Arrive PROVE KeepInv'
  OBVIOUS
<1> DEFINE x == arrived + 1
           Q == Elements(queue)
           P == Elements(pending)
           G == Elements(got)
<1>1. /\ arrived' = x
      /\ IF stream = "open" THEN queue' = Append(queue, x) /\ pending' = pending
         ELSE pending' = Append(pending, x) /\ queue' = queue
      /\ UNCHANGED <<loop, hand, stream, got, gone>>
  BY DEF Arrive, loopVars, histVars
<1>2. /\ queue \in Seq(Nat) /\ pending \in Seq(Nat) /\ got \in Seq(Nat)
      /\ hand \in Nat /\ arrived \in Nat /\ x \in Nat
      /\ Distinct(queue) /\ Distinct(pending) /\ Distinct(got)
      /\ Shares(arrived, Q, P, G, HandSet, gone)
  BY DEF KeepInv, KeepShape, ShareInv
<1>3. /\ x \notin Q /\ x \notin P /\ x \notin G /\ x \notin HandSet /\ x \notin gone
      /\ Below(Q, {x}) /\ Below(P, {x}) /\ Below(G, {x}) /\ Below(HandSet, {x})
  <2>1. Q \cup P \cup G \cup HandSet \cup gone = 1..arrived
    BY <1>2 DEF Shares
  <2>2. \A y \in 1..arrived : y < x
    BY <1>2
  <2> HIDE DEF x, Q, P, G
  <2>3. x \notin 1..arrived
    BY <1>2 DEF x
  <2> QED BY <2>1, <2>2, <2>3 DEF Below
<1>4. 1..x = 1..arrived \cup {x}
  BY <1>2
<1>5. HandSet' = HandSet
  BY <1>1 DEF HandSet
<1>6. CASE stream = "open"
  <2>1. queue' = Append(queue, x) /\ pending' = pending /\ pending = <<>>
    BY <1>1, <1>6 DEF KeepInv, StreamInv
  <2>2. /\ queue' \in Seq(Nat) /\ Elements(queue') = Q \cup {x} /\ Distinct(queue')
        /\ Increasing(queue) => Increasing(queue')
    BY <1>2, <1>3, <2>1, Appended
  <2>3. KeepShape'
    BY <1>1, <1>2, <2>1, <2>2 DEF KeepShape
  <2>4. StreamInv'
    BY <1>1, <1>6, <2>1 DEF KeepInv, StreamInv, NONE
  <2> HIDE DEF x, Q, P, G
  <2>5. Shares(x, Q \cup {x}, P, G, HandSet, gone)
    BY <1>2, <1>3, <1>4 DEF Shares
  <2>6. ShareInv'
    BY <1>1, <1>2, <1>5, <2>1, <2>2, <2>5 DEF ShareInv, P, G
  <2>7. P = {}
    BY <2>1, ShortOnes DEF P
  <2>8. Line(Q, P, G, HandSet) => Line(Q \cup {x}, P, G, HandSet)
    BY <1>3, <2>7 DEF Line, Below
  <2>9. LineInv'
    BY <1>1, <1>5, <2>1, <2>2, <2>8 DEF KeepInv, LineInv, Live, Q, P, G
  <2> QED BY <2>3, <2>4, <2>6, <2>9 DEF KeepInv
<1>7. CASE stream # "open"
  <2>1. queue' = queue /\ pending' = Append(pending, x)
    BY <1>1, <1>7
  <2>2. /\ pending' \in Seq(Nat) /\ Elements(pending') = P \cup {x} /\ Distinct(pending')
        /\ Increasing(pending) => Increasing(pending')
    BY <1>2, <1>3, <2>1, Appended
  <2>3. KeepShape'
    BY <1>1, <1>2, <2>1, <2>2 DEF KeepShape
  <2>4. StreamInv'
    BY <1>1, <1>7, <2>1 DEF KeepInv, StreamInv
  <2> HIDE DEF x, Q, P, G
  <2>5. Shares(x, Q, P \cup {x}, G, HandSet, gone)
    BY <1>2, <1>3, <1>4 DEF Shares
  <2>6. ShareInv'
    BY <1>1, <1>2, <1>5, <2>1, <2>2, <2>5 DEF ShareInv, Q, G
  <2>7. Line(Q, P, G, HandSet) => Line(Q, P \cup {x}, G, HandSet)
    BY <1>3 DEF Line, Below
  <2>8. LineInv'
    BY <1>1, <1>5, <2>1, <2>2, <2>7 DEF KeepInv, LineInv, Live, Q, P, G
  <2> QED BY <2>3, <2>4, <2>6, <2>8 DEF KeepInv
<1> QED BY <1>6, <1>7

\* A stream's bundles kept for the next one: behind those kept already, which
\* is out of line only where the loop is over.
LEMMA KeepHandOver ==
  ASSUME KeepInv, pending' = pending \o queue, queue' = <<>>,
         UNCHANGED <<got, gone, hand, arrived, loop>>, stream' # "open",
         pending = <<>> \/ ~Live
  PROVE  KeepInv'
<1> DEFINE Q == Elements(queue)
           P == Elements(pending)
           G == Elements(got)
<1>1. /\ queue \in Seq(Nat) /\ pending \in Seq(Nat)
      /\ Distinct(queue) /\ Distinct(pending) /\ Distinct(got)
      /\ Shares(arrived, Q, P, G, HandSet, gone)
  BY DEF KeepInv, KeepShape, ShareInv
<1>2. /\ pending' \in Seq(Nat) /\ Elements(pending') = P \cup Q /\ Distinct(pending')
  <2>1. P \cap Q = {}
    BY <1>1 DEF Shares
  <2> QED BY <1>1, <2>1, Joined
<1>3. HandSet' = HandSet
  BY DEF HandSet
<1>4. KeepShape' /\ StreamInv'
  BY <1>2, ShortOnes DEF KeepInv, KeepShape, StreamInv
<1>5. ShareInv'
  <2> HIDE DEF Q, P, G
  <2>1. Shares(arrived, {}, P \cup Q, G, HandSet, gone)
    BY <1>1 DEF Shares
  <2> QED BY <1>1, <1>2, <1>3, <2>1, ShortOnes DEF ShareInv, G
<1>6. LineInv'
  <2>1. CASE ~Live
    BY <2>1 DEF KeepInv, LineInv, Live
  <2>2. CASE Live /\ pending = <<>>
    <3>1. pending' = queue
      BY <1>1, <2>2
    <3>2. Line(Q, P, G, HandSet) => Line({}, Q, G, HandSet)
      BY DEF Line, Below
    <3> QED BY <1>3, <2>2, <3>1, <3>2, ShortOnes DEF KeepInv, LineInv, Live
  <2> QED BY <2>1, <2>2
<1> QED BY <1>4, <1>5, <1>6 DEF KeepInv

\* A stream that opens has the kept bundles.
LEMMA KeepOpen ==
  ASSUME KeepInv, queue = <<>>, queue' = pending, pending' = <<>>,
         UNCHANGED <<got, gone, hand, arrived, loop>>, stream' = "open"
  PROVE  KeepInv'
<1> DEFINE P == Elements(pending)
           G == Elements(got)
<1>1. /\ pending \in Seq(Nat) /\ Distinct(pending) /\ Distinct(got)
      /\ Shares(arrived, {}, P, G, HandSet, gone)
  BY ShortOnes DEF KeepInv, KeepShape, ShareInv
<1>2. HandSet' = HandSet
  BY DEF HandSet
<1>3. KeepShape' /\ StreamInv'
  BY <1>1, ShortOnes DEF KeepInv, KeepShape, StreamInv, NONE
<1>4. ShareInv'
  <2>1. Shares(arrived, P, {}, G, HandSet, gone)
    <3> HIDE DEF P, G
    <3> QED BY <1>1 DEF Shares
  <2> QED BY <1>1, <1>2, <2>1, ShortOnes DEF ShareInv
<1>5. LineInv'
  <2>1. Line({}, P, G, HandSet) => Line(P, {}, G, HandSet)
    BY DEF Line, Below
  <2> QED BY <1>2, <2>1, ShortOnes DEF KeepInv, LineInv, Live
<1> QED BY <1>3, <1>4, <1>5 DEF KeepInv

\* The first unread bundle is read: into the loop's hand (hardy) or out of the
\* stream (pico).
LEMMA KeepRead == LoopInv /\ KeepInv /\ ReadBundle => KeepInv'
<1> SUFFICES ASSUME LoopInv, KeepInv, ReadBundle PROVE KeepInv'
  OBVIOUS
<1> DEFINE x == Head(queue)
           t == Elements(Tail(queue))
           Q == Elements(queue)
           P == Elements(pending)
           G == Elements(got)
<1>1. /\ queue # <<>> /\ queue' = Tail(queue) /\ loop' = "dispatch"
      /\ loop \in {"reading", "polled"}
      /\ IF adapter = "hardy" THEN hand' = x /\ got' = got
         ELSE got' = Append(got, x) /\ hand' = hand
      /\ UNCHANGED <<stream, pending, gone, arrived>>
  BY DEF ReadBundle, AtStream, countVars
<1>2. /\ queue \in Seq(Nat) /\ pending \in Seq(Nat) /\ got \in Seq(Nat) /\ arrived \in Nat
      /\ Distinct(queue) /\ Distinct(pending) /\ Distinct(got)
      /\ Shares(arrived, Q, P, G, HandSet, gone)
  BY DEF KeepInv, KeepShape, ShareInv
<1>3. /\ Increasing(got) /\ Increasing(queue) /\ Increasing(pending)
      /\ Line(Q, P, G, HandSet)
  BY <1>1 DEF KeepInv, LineInv, Live
<1>4. /\ Tail(queue) \in Seq(Nat) /\ x \in Nat /\ Q = t \cup {x}
      /\ Distinct(Tail(queue)) /\ x \notin t
      /\ Increasing(Tail(queue)) /\ Below({x}, t)
  BY <1>1, <1>2, <1>3, Beheaded
<1>5. hand = NOTHING /\ HandSet = {}
  BY <1>1 DEF KeepInv, StreamInv, HandSet
<1>6. x # NOTHING /\ x \notin G
  <2>1. Q \subseteq 1..arrived /\ Q \cap G = {}
    BY <1>2 DEF Shares
  <2>2. NOTHING \notin 1..arrived
    BY DEF NOTHING
  <2> HIDE DEF x, t, Q, G
  <2> QED BY <1>4, <2>1, <2>2
<1>7. Live'
  BY <1>1 DEF Live
<1>8. StreamInv'
  <2>1. stream = NONE => queue = <<>>
    BY DEF KeepInv, StreamInv
  <2> QED BY <1>1, <2>1 DEF KeepInv, StreamInv
<1>9. CASE adapter = "hardy"
  <2>1. hand' = x /\ got' = got /\ HandSet' = {x}
    BY <1>1, <1>6, <1>9 DEF HandSet
  <2>2. KeepShape'
    BY <1>1, <1>2, <1>4, <2>1 DEF KeepShape
  <2>3. Shares(arrived, t, P, G, {x}, gone) /\ Line(t, P, G, {x})
    <3> HIDE DEF x, t, Q, P, G
    <3>1. Shares(arrived, t, P, G, {x}, gone)
      BY <1>2, <1>4, <1>5 DEF Shares
    <3>2. Line(t, P, G, {x})
      BY <1>3, <1>4 DEF Line, Below
    <3> QED BY <3>1, <3>2
  <2>4. ShareInv' /\ LineInv'
    BY <1>1, <1>2, <1>3, <1>4, <2>1, <2>3 DEF ShareInv, LineInv
  <2> QED BY <1>8, <2>2, <2>4 DEF KeepInv
<1>10. CASE adapter # "hardy"
  <2>1. hand' = hand /\ got' = Append(got, x) /\ HandSet' = {}
    BY <1>1, <1>5, <1>10 DEF HandSet
  <2>2. Below(G, {x})
    BY <1>3, <1>4 DEF Line, Below
  <2>3. /\ got' \in Seq(Nat) /\ Elements(got') = G \cup {x}
        /\ Distinct(got') /\ Increasing(got')
    BY <1>2, <1>3, <1>4, <1>6, <2>1, <2>2, Appended
  <2>4. KeepShape'
    BY <1>1, <1>2, <1>4, <1>5, <2>1, <2>3 DEF KeepShape, NOTHING
  <2>5. Shares(arrived, t, P, G \cup {x}, {}, gone) /\ Line(t, P, G \cup {x}, {})
    <3> HIDE DEF x, t, Q, P, G
    <3>1. Shares(arrived, t, P, G \cup {x}, {}, gone)
      BY <1>2, <1>4, <1>5 DEF Shares
    <3>2. Line(t, P, G \cup {x}, {})
      BY <1>3, <1>4 DEF Line, Below
    <3> QED BY <3>1, <3>2
  <2>6. ShareInv' /\ LineInv'
    BY <1>1, <1>2, <1>3, <1>4, <2>1, <2>3, <2>5 DEF ShareInv, LineInv
  <2> QED BY <1>8, <2>4, <2>6 DEF KeepInv
<1> QED BY <1>9, <1>10

\* The bundle in hand is the BPA's, or refused.
LEMMA KeepDispatch ==
  ASSUME KeepInv, NEW accepted \in BOOLEAN, Dispatch(accepted)
  PROVE  KeepInv'
<1> DEFINE Q == Elements(queue)
           P == Elements(pending)
           G == Elements(got)
<1>1. /\ loop = "dispatch" /\ loop' = "reading" /\ hand' = NOTHING
      /\ IF ~Holding THEN UNCHANGED <<got, gone>>
         ELSE IF accepted THEN got' = Append(got, hand) /\ gone' = gone
         ELSE gone' = gone \cup {hand} /\ got' = got
      /\ UNCHANGED <<queue, pending, stream, arrived>>
  BY DEF Dispatch, recvVars, countVars
<1>2. /\ queue \in Seq(Nat) /\ pending \in Seq(Nat) /\ got \in Seq(Nat) /\ hand \in Nat
      /\ Distinct(queue) /\ Distinct(pending) /\ Distinct(got)
      /\ Shares(arrived, Q, P, G, HandSet, gone)
  BY DEF KeepInv, KeepShape, ShareInv
<1>3. /\ Increasing(got) /\ Increasing(queue) /\ Increasing(pending)
      /\ Line(Q, P, G, HandSet)
  BY <1>1 DEF KeepInv, LineInv, Live
<1>4. HandSet' = {} /\ HandSet = IF Holding THEN {hand} ELSE {}
  BY <1>1 DEF HandSet, Holding
<1>5. StreamInv'
  BY <1>1 DEF KeepInv, StreamInv
<1>6. CASE Holding /\ accepted
  <2>1. got' = Append(got, hand) /\ gone' = gone /\ HandSet = {hand}
    BY <1>1, <1>4, <1>6
  <2>2. Below(G, {hand}) /\ hand \notin G
    BY <1>2, <1>3, <2>1 DEF Line, Shares
  <2>3. /\ got' \in Seq(Nat) /\ Elements(got') = G \cup {hand}
        /\ Distinct(got') /\ Increasing(got')
    BY <1>2, <1>3, <2>1, <2>2, Appended
  <2>4. KeepShape'
    BY <1>1, <2>3 DEF KeepInv, KeepShape, NOTHING
  <2>5. Shares(arrived, Q, P, G \cup {hand}, {}, gone) /\ Line(Q, P, G \cup {hand}, {})
    <3> HIDE DEF Q, P, G
    <3>1. Shares(arrived, Q, P, G \cup {hand}, {}, gone)
      BY <1>2, <2>1 DEF Shares
    <3>2. Line(Q, P, G \cup {hand}, {})
      BY <1>3, <2>1 DEF Line, Below
    <3> QED BY <3>1, <3>2
  <2>6. ShareInv' /\ LineInv'
    BY <1>1, <1>2, <1>3, <1>4, <2>1, <2>3, <2>5 DEF ShareInv, LineInv
  <2> QED BY <1>5, <2>4, <2>6 DEF KeepInv
<1>7. CASE ~(Holding /\ accepted)
  <2>1. got' = got /\ gone' = gone \cup HandSet
    BY <1>1, <1>4, <1>7
  <2>2. KeepShape'
    BY <1>1, <2>1 DEF KeepInv, KeepShape, NOTHING
  <2>3. Shares(arrived, Q, P, G, {}, gone \cup HandSet) /\ Line(Q, P, G, {})
    <3> HIDE DEF Q, P, G
    <3>1. Shares(arrived, Q, P, G, {}, gone \cup HandSet)
      BY <1>2 DEF Shares
    <3>2. Line(Q, P, G, {})
      BY <1>3 DEF Line, Below
    <3> QED BY <3>1, <3>2
  <2>4. ShareInv' /\ LineInv'
    BY <1>1, <1>2, <1>3, <1>4, <2>1, <2>3 DEF ShareInv, LineInv
  <2> QED BY <1>5, <2>2, <2>4 DEF KeepInv
<1> QED BY <1>6, <1>7

\* The loop is over: what it holds is dropped, and the bundle in hand is gone.
LEMMA KeepEnd == LoopInv /\ KeepInv /\ (Break \/ Abort) => KeepInv'
<1> SUFFICES ASSUME LoopInv, KeepInv, Break \/ Abort PROVE KeepInv'
  OBVIOUS
<1> DEFINE Q == Elements(queue)
           P == Elements(pending)
           G == Elements(got)
<1>1. /\ loop' \in {"ended", "dropped"} /\ DropHeld
      /\ gone' = gone \cup HandSet /\ HandSet' = {} /\ hand' = NOTHING
      /\ UNCHANGED <<got, arrived>>
  <2>1. CASE Break
    <3>1. loop # "dispatch" /\ UNCHANGED <<hand, got, gone, arrived>>
      BY <2>1 DEF Break, histVars, countVars
    <3>2. hand = NOTHING
      BY <3>1 DEF KeepInv, StreamInv
    <3> QED BY <2>1, <3>1, <3>2 DEF Break, HandSet
  <2>2. CASE Abort
    BY <2>2 DEF Abort, HandSet, Holding, countVars
  <2> QED BY <2>1, <2>2
<1>2. /\ queue \in Seq(Nat) /\ pending \in Seq(Nat) /\ got \in Seq(Nat)
      /\ Distinct(queue) /\ Distinct(pending) /\ Distinct(got)
      /\ Shares(arrived, Q, P, G, HandSet, gone)
  BY DEF KeepInv, KeepShape, ShareInv
<1>3. LineInv'
  BY <1>1 DEF KeepInv, LineInv, Live
<1>4. CASE UNCHANGED recvVars
  <2>1. UNCHANGED <<stream, queue, pending>>
    BY <1>4 DEF recvVars
  <2>2. KeepShape' /\ StreamInv'
    BY <1>1, <2>1 DEF KeepInv, KeepShape, StreamInv, NOTHING
  <2>3. Shares(arrived, Q, P, G, {}, gone \cup HandSet)
    <3> HIDE DEF Q, P, G
    <3> QED BY <1>2 DEF Shares
  <2>4. ShareInv'
    BY <1>1, <1>2, <2>1, <2>3 DEF ShareInv
  <2> QED BY <1>3, <2>2, <2>4 DEF KeepInv
<1>5. CASE DropStream
  <2>1. stream' = NONE /\ queue' = <<>> /\ pending' = pending \o queue
    BY <1>5 DEF DropStream
  <2>2. /\ pending' \in Seq(Nat) /\ Elements(pending') = P \cup Q /\ Distinct(pending')
    <3>1. P \cap Q = {}
      BY <1>2 DEF Shares
    <3> QED BY <1>2, <2>1, <3>1, Joined
  <2>3. KeepShape' /\ StreamInv'
    BY <1>1, <2>1, <2>2, ShortOnes DEF KeepInv, KeepShape, StreamInv, NOTHING, NONE
  <2>4. Shares(arrived, {}, P \cup Q, G, {}, gone \cup HandSet)
    <3> HIDE DEF Q, P, G
    <3> QED BY <1>2 DEF Shares
  <2>5. ShareInv'
    BY <1>1, <1>2, <2>1, <2>2, <2>4, ShortOnes DEF ShareInv
  <2> QED BY <1>3, <2>3, <2>5 DEF KeepInv
<1> QED BY <1>1, <1>4, <1>5 DEF DropHeld

-----------------------------------------------------------------------------
(* Bundles, along a behaviour *)

\* No bundle has been acknowledged yet.
LEMMA KeepInit == Init => KeepInv
<1> SUFFICES ASSUME Init PROVE KeepInv
  OBVIOUS
<1>1. /\ queue = <<>> /\ pending = <<>> /\ got = <<>> /\ gone = {}
      /\ hand = NOTHING /\ arrived = 0
  BY DEF Init
<1>2. KeepShape /\ StreamInv
  BY <1>1, ShortOnes DEF KeepShape, StreamInv, NOTHING
<1>3. HandSet = {} /\ 1..arrived = {}
  BY <1>1 DEF HandSet
<1>4. Shares(arrived, {}, {}, {}, {}, {}) /\ Line({}, {}, {}, {})
  BY <1>3 DEF Shares, Line, Below
<1>5. ShareInv /\ LineInv
  BY <1>1, <1>3, <1>4, ShortOnes DEF ShareInv, LineInv
<1> QED BY <1>2, <1>5 DEF KeepInv

\* Steps of the receiver.
LEMMA KeepReceiver ==
  LoopInv /\ KeepInv /\ (Arrive \/ StreamStillborn \/ StreamDies \/ StreamError)
    => KeepInv'
<1> SUFFICES ASSUME LoopInv, KeepInv,
                    Arrive \/ StreamStillborn \/ StreamDies \/ StreamError
             PROVE  KeepInv'
  OBVIOUS
<1>1. CASE Arrive
  BY <1>1, KeepArrive
<1>2. CASE StreamStillborn
  <2>1. /\ pending' = pending \o queue /\ queue' = <<>> /\ stream' # "open"
        /\ UNCHANGED <<got, gone, hand, arrived, loop>> /\ stream = "open"
    BY <1>2 DEF StreamStillborn, loopVars
  <2>2. pending = <<>>
    BY <2>1 DEF KeepInv, StreamInv
  <2> QED BY <2>1, <2>2, KeepHandOver
<1>3. CASE StreamDies \/ StreamError
  <2>1. /\ UNCHANGED <<queue, pending, got, gone, hand, arrived, loop>>
        /\ stream' = "open" => stream = "open"
        /\ stream' # NONE \/ stream' = stream
    BY <1>3 DEF StreamDies, StreamError, loopVars, histVars, NONE
  <2> QED BY <2>1, KeepQuiet DEF Live
<1> QED BY <1>1, <1>2, <1>3

\* Steps of the thread that opens a stream.
LEMMA KeepOpener ==
  LoopInv /\ KeepInv /\ (OpenerStep \/ OpenerPanics) => KeepInv'
<1> SUFFICES ASSUME LoopInv, KeepInv, OpenerStep \/ OpenerPanics PROVE KeepInv'
  OBVIOUS
<1>1. CASE OpenerOpens
  <2>1. /\ queue' = pending /\ pending' = <<>> /\ stream' = "open"
        /\ UNCHANGED <<got, gone, hand, arrived, loop>> /\ opener = "checked"
    BY <1>1 DEF OpenerOpens, loopVars, countVars
  <2>2. stream = NONE
    BY <2>1 DEF LoopInv, PlaceInv, NONE
  <2>3. queue = <<>>
    BY <2>2 DEF KeepInv, StreamInv
  <2> QED BY <2>1, <2>3, KeepOpen
<1>2. CASE OpenerSends /\ loop # "opening"
  <2>1. /\ pending' = pending \o queue /\ queue' = <<>> /\ stream' # "open"
        /\ UNCHANGED <<got, gone, hand, arrived, loop>> /\ opener = "sending"
    BY <1>2 DEF OpenerSends, DropStream, loopVars, histVars, countVars, NONE
  <2>2. ~Live
    BY <1>2, <2>1 DEF LoopInv, PlaceInv, Live, NONE
  <2> QED BY <2>1, <2>2, KeepHandOver
<1>3. CASE \/ OpenerSends /\ loop = "opening"
           \/ OpenerLocks \/ OpenerChecks \/ OpenerRefuses \/ OpenerPanics
  <2>1. UNCHANGED <<queue, pending, got, gone, hand, arrived, loop, stream>>
    BY <1>3
    DEF OpenerSends, OpenerLocks, OpenerChecks, OpenerRefuses, OpenerPanics,
        loopVars, recvVars, histVars, countVars
  <2> QED BY <2>1, KeepQuiet DEF Live
<1> QED BY <1>1, <1>2, <1>3 DEF OpenerStep

\* Steps of the loop.
LEMMA KeepLoop ==
  LoopInv /\ KeepInv /\ (LoopStep \/ SpawnOpenerFails \/ Abort) => KeepInv'
<1> SUFFICES ASSUME LoopInv, KeepInv, LoopStep \/ SpawnOpenerFails \/ Abort
             PROVE  KeepInv'
  OBVIOUS
<1>1. CASE ReadBundle
  BY <1>1, KeepRead
<1>2. ASSUME NEW accepted \in BOOLEAN, Dispatch(accepted) PROVE KeepInv'
  BY <1>2, KeepDispatch
<1>3. CASE Break \/ Abort
  BY <1>3, KeepEnd
<1>4. ASSUME UNCHANGED <<queue, pending, got, gone, hand, arrived>>,
             stream' = stream \/ (stream' = NONE /\ queue = <<>>),
             loop \notin {"ended", "dropped", "dispatch"}
      PROVE  KeepInv'
  BY <1>4, KeepQuiet DEF Live, NONE
<1>5. CASE SpawnOpener \/ SpawnOpenerFails \/ TakeStream \/ TakeClosed \/ TakeFailed
  <2>1. loop \in {"top", "opening"} /\ UNCHANGED <<hand, recvVars, histVars, arrived>>
    BY <1>5
    DEF SpawnOpener, SpawnOpenerFails, TakeStream, TakeClosed, TakeFailed,
        countVars
  <2> QED BY <1>4, <2>1 DEF recvVars, histVars
<1>6. CASE Poll \/ PollAgain \/ ReadError \/ WaitOver \/ WaitShut
  <2>1. /\ loop \in {"reading", "polled", "wait"}
        /\ UNCHANGED <<hand, stream, queue, pending, got, gone, arrived>>
    <3>1. CASE Poll \/ PollAgain \/ WaitOver \/ WaitShut
      BY <3>1 DEF Poll, PollAgain, WaitOver, WaitShut, recvVars, histVars, countVars
    <3>2. CASE ReadError
      BY <3>2 DEF ReadError, AtStream, histVars, countVars
    <3> QED BY <1>6, <3>1, <3>2
  <2> QED BY <1>4, <2>1
<1>7. CASE ReadEndShut
  BY <1>4, <1>7 DEF ReadEndShut, AtStream, Drained, histVars, countVars
<1>8. ASSUME NEW long \in BOOLEAN, ReadEnd(long) \/ ReadEndOpen(long)
      PROVE  KeepInv'
  BY <1>4, <1>8
  DEF ReadEnd, ReadEndOpen, StreamFailed, AtStream, Drained, Wait, histVars,
      countVars
<1> QED BY <1>1, <1>2, <1>3, <1>5, <1>6, <1>7, <1>8 DEF LoopStep

\* Every step.
LEMMA KeepNext == LoopInv /\ KeepInv /\ [Next]_vars => KeepInv'
<1> SUFFICES ASSUME LoopInv, KeepInv, [Next]_vars PROVE KeepInv'
  OBVIOUS
<1>1. CASE Register \/ StartDispatcher \/ StartIncoming
  <2>1. /\ UNCHANGED <<queue, pending, got, gone, hand, arrived, stream>>
        /\ loop' = loop \/ loop = "off"
    BY <1>1
    DEF Register, StartDispatcher, StartIncoming, loopVars, recvVars, histVars,
        countVars
  <2> QED BY <2>1, KeepQuiet DEF Live
<1>2. CASE ShutCancel \/ ShutLock \/ ShutClose \/ ShutReturn \/ UNCHANGED vars
  <2>1. /\ UNCHANGED <<queue, pending, got, gone, hand, arrived, loop>>
        /\ (stream' = stream \/ (stream = "open" /\ stream' = "ended"))
    <3>1. CASE ShutClose
      BY <3>1 DEF ShutClose, loopVars, countVars
    <3>2. CASE ShutCancel \/ ShutLock \/ ShutReturn \/ UNCHANGED vars
      <4>1. UNCHANGED <<loopVars, recvVars, histVars, countVars>>
        BY <3>2 DEF ShutCancel, ShutLock, ShutReturn, vars
      <4> QED BY <4>1 DEF loopVars, recvVars, histVars, countVars
    <3> QED BY <1>2, <3>1, <3>2
  <2> QED BY <2>1, KeepQuiet DEF Live, NONE
<1> QED BY <1>1, <1>2, KeepReceiver, KeepOpener, KeepLoop DEF Next

\* One line, or one place each, is what is promised.
LEMMA KeepInvKeeps == KeepInv => BundlesKept
<1> SUFFICES ASSUME KeepInv PROVE BundlesKept
  OBVIOUS
<1> DEFINE Q == Elements(queue)
           P == Elements(pending)
           G == Elements(got)
           bundles == queue \o pending \o got
<1>1. /\ queue \in Seq(Nat) /\ pending \in Seq(Nat) /\ got \in Seq(Nat)
      /\ Distinct(queue) /\ Distinct(pending) /\ Distinct(got)
      /\ Shares(arrived, Q, P, G, HandSet, gone)
      /\ Increasing(got)
  BY DEF KeepInv, KeepShape, ShareInv, LineInv
<1>2. Q \cap P = {} /\ (Q \cup P) \cap G = {}
  <2> HIDE DEF Q, P, G
  <2> QED BY <1>1 DEF Shares
<1>3. /\ queue \o pending \in Seq(Nat) /\ Distinct(queue \o pending)
      /\ Elements(queue \o pending) = Q \cup P
  BY <1>1, <1>2, Joined
<1>4. Elements(bundles) = Q \cup P \cup G /\ Distinct(bundles)
  BY <1>1, <1>2, <1>3, Joined
<1> HIDE DEF Q, P, G
<1>5. /\ (Q \cup P \cup G) \cup HandSet \cup gone = 1..arrived
      /\ (HandSet \cup gone) \cap (Q \cup P \cup G) = {} /\ HandSet \cap gone = {}
  BY <1>1 DEF Shares
<1> QED BY <1>1, <1>4, <1>5 DEF BundlesKept, HandSet

\* Whatever fails, reopens or shuts down, an acknowledged bundle is in one place
\* until the application or the BPA has it, and they get them in the order the
\* listeners handed them over in.
THEOREM AckedBundlesKept == Spec => []BundlesKept
  BY LoopInvAlways, KeepInit, KeepNext, LoopInvNext, KeepInvKeeps, PTL DEF Spec

=============================================================================
