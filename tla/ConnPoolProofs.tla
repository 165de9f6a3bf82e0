--------------------------- MODULE ConnPoolProofs ---------------------------
(***************************************************************************)
(* Proofs about module ConnPool, for every pool size, every set of threads,*)
(* destinations and connection objects, every range of the access counter  *)
(* and every maximal age.                                                  *)
(***************************************************************************)
EXTENDS ConnPool, WellFoundedInduction, TLAPS

-----------------------------------------------------------------------------
(* The table scans *)

\* A non-empty set of natural numbers has a least element.
LEMMA LeastExists ==
    ASSUME NEW S, S \subseteq Nat, S # {}
    PROVE  \E x \in S : \A y \in S : x <= y
<1>1. PICK x \in S : \A y \in S : ~(<<y, x>> \in OpToRel(<, Nat))
  BY NatLessThanWellFounded, WFMin, Zenon
<1>2. ASSUME NEW y \in S PROVE x <= y
  <2>1. x \in Nat /\ y \in Nat
    OBVIOUS
  <2>2. ~(y < x)
    BY <1>1, <2>1 DEF OpToRel
  <2> QED BY <2>1, <2>2
<1> QED BY <1>2

\* The first entry of a non-empty set of entries: what a scan from index 0
\* that stops at the first match finds.
LEMMA FirstSlot ==
    ASSUME NEW S, S \subseteq Slots, S # {}
    PROVE  /\ Min(S) \in S
           /\ \A y \in S : Min(S) <= y
<1>1. S \subseteq Nat
  BY ConnPoolAssumption DEF Slots
<1>2. \E x \in S : \A y \in S : x <= y
  BY <1>1, LeastExists
<1> QED BY <1>2 DEF Min

\* The LRU scan ends on an entry.
LEMMA LruSlotInSlots ==
    ASSUME TypeOK
    PROVE  LruSlot \in Slots
<1> DEFINE Ages == {entries[i].last_used : i \in Slots}
<1>1. Ages \subseteq Nat
  BY ConnPoolAssumption DEF TypeOK, Entry
<1>2. 1 \in Slots
  BY ConnPoolAssumption DEF Slots
<1>3. PICK a \in Ages : \A b \in Ages : a <= b
  <2>1. Ages # {}
    BY <1>2
  <2> QED BY <1>1, <2>1, LeastExists
<1> DEFINE Oldest == {i \in Slots : entries[i].last_used = a}
<1>4. Oldest \subseteq Slots /\ Oldest # {}
  BY <1>3
<1>5. Min(Oldest) \in Oldest /\ \A y \in Oldest : Min(Oldest) <= y
  BY <1>4, FirstSlot
<1>6. \A j \in Slots :
        \/ entries[Min(Oldest)].last_used < entries[j].last_used
        \/ entries[Min(Oldest)].last_used = entries[j].last_used /\ Min(Oldest) <= j
  <2> SUFFICES ASSUME NEW j \in Slots
               PROVE  \/ entries[Min(Oldest)].last_used < entries[j].last_used
                      \/ /\ entries[Min(Oldest)].last_used = entries[j].last_used
                         /\ Min(Oldest) <= j
    OBVIOUS
  <2>1. entries[Min(Oldest)].last_used = a
    BY <1>5
  <2>2. entries[j].last_used \in Ages
    OBVIOUS
  <2>3. a <= entries[j].last_used /\ a \in Nat /\ entries[j].last_used \in Nat
    BY <1>1, <1>3, <2>2
  <2>4. CASE entries[j].last_used = a
    BY <1>5, <2>1, <2>4
  <2>5. CASE entries[j].last_used # a
    BY <2>1, <2>3, <2>5
  <2> QED BY <2>4, <2>5
<1>7. Min(Oldest) \in Slots
  BY <1>5
<1> HIDE DEF Oldest
<1> QED BY <1>6, <1>7 DEF LruSlot

\* The access counter stays in the range of its type: pool->tick wraps.
LEMMA NextTickType ==
    ASSUME tick \in Nat
    PROVE  NextTick \in 0..(TickMod - 1)
BY ConnPoolAssumption DEF NextTick

\* time(NULL) in the model is a natural number.
LEMMA NowType ==
    ASSUME clock \in Nat
    PROVE  Now \in Nat
BY DEF Now

-----------------------------------------------------------------------------
(* Type correctness.  The loop counter needs a bound of its own: only a      *)
(* thread that is about to unlock has failed twice.                          *)

AttemptBound == \A t \in Threads : pc[t] # "unlock" => attempt[t] <= 1

TypeInv == TypeOK /\ AttemptBound

\* A freshly initialised pool is well typed.
LEMMA TypeInit == Init => TypeInv
<1> SUFFICES ASSUME Init PROVE TypeInv
  OBVIOUS
<1> USE ConnPoolAssumption DEF Init
<1>1. entries \in [Slots -> Entry]
  BY DEF Free, Entry
<1>2. stats \in [Counter -> Nat]
  BY DEF ZeroStats
<1>3. slot \in [Threads -> Slots]
  BY DEF Slots
<1>4. AttemptBound
  BY DEF AttemptBound
<1> QED BY <1>1, <1>2, <1>3, <1>4 DEF TypeInv, TypeOK, PC, Rets, Results

\* A freed entry, one filled by cspcl_pool_get_or_create_locked() and one filled
\* by cspcl_conn_pool_add() are well typed.
LEMMA EntryTypes ==
    ASSUME TypeOK, NEW d \in Dests \cup {NULL}, NEW c \in Conns \cup {NULL}
    PROVE  /\ Free \in Entry
           /\ Filled(d, c) \in Entry
           /\ [Filled(d, c) EXCEPT !.last_used = NextTick] \in Entry
<1>1. 0 \in 0..(TickMod - 1) /\ tick \in 0..(TickMod - 1) /\ tick \in Nat
  BY ConnPoolAssumption DEF TypeOK
<1>2. NextTick \in 0..(TickMod - 1)
  BY <1>1, NextTickType
<1>3. Now \in Nat
  BY NowType DEF TypeOK
<1> QED BY <1>1, <1>2, <1>3 DEF Free, Filled, Entry

\* Incrementing a counter of pool->stats keeps the counters well typed.
LEMMA CountType ==
    ASSUME TypeOK, NEW k \in Counter, Count(k)
    PROVE  stats' \in [Counter -> Nat]
BY DEF Count, TypeOK

\* Closing an entry keeps the table and libcsp's connections well typed.
LEMMA CloseEntryType ==
    ASSUME TypeOK, NEW i \in Slots, CloseEntry(i)
    PROVE  entries' \in [Slots -> Entry] /\ conns' \in [Conns -> Dests \cup {NULL}]
<1>1. Free \in Entry
  BY EntryTypes
<1> QED BY <1>1 DEF CloseEntry, TypeOK

\* The types of the threads' own variables.
ThreadTypes ==
    /\ pc \in [Threads -> PC]
    /\ dest \in [Threads -> Dests \cup {NULL}]
    /\ attempt \in [Threads -> 0..2]
    /\ slot \in [Threads -> Slots]
    /\ cur \in [Threads -> Conns \cup {NULL}]
    /\ ret \in [Threads -> Rets]
    /\ result \in [Threads -> Results]
    /\ AttemptBound

\* A call that returns leaves its thread's variables well typed.
LEMMA ReturnType ==
    ASSUME TypeInv, NEW t \in Threads, NEW r \in Results, Return(t, r)
    PROVE  ThreadTypes'
<1>1. 1 \in Slots
  BY ConnPoolAssumption DEF Slots
<1> QED BY <1>1 DEF Return, ThreadTypes, TypeInv, TypeOK, AttemptBound, PC, Rets

\* The types of everything but the threads' own variables.
PoolTypes ==
    /\ entries \in [Slots -> Entry]
    /\ tick \in 0..(TickMod - 1)
    /\ stats \in [Counter -> Nat]
    /\ initialized \in BOOLEAN
    /\ lock \in Threads \cup {NULL}
    /\ mutex \in {"live", "closing", "destroyed"}
    /\ conns \in [Conns -> Dests \cup {NULL}]
    /\ clock \in Nat
    /\ born \in [Conns -> Nat]
    /\ ops \in Nat

\* The type invariant splits into the pool's part and the threads' part.
LEMMA TypeParts == TypeInv => PoolTypes /\ ThreadTypes
BY DEF TypeInv, TypeOK, PoolTypes, ThreadTypes

\* The two parts after a step give the type invariant after the step.
LEMMA TypeJoin == PoolTypes' /\ ThreadTypes' => TypeInv'
BY DEF TypeInv, TypeOK, PoolTypes, ThreadTypes

\* cspcl_pool_get_or_create_locked() up to csp_connect() preserves the types.
LEMMA GetTypes ==
    ASSUME TypeInv, NEW t \in Threads,
           GetHit(t) \/ GetAged(t) \/ GetFree(t) \/ GetEvict(t)
    PROVE  TypeInv'
<1>1. tick' \in 0..(TickMod - 1)
  BY NextTickType DEF GetHit, GetAged, GetFree, GetEvict, TypeInv, TypeOK
<1>2. CASE GetHit(t)
  <2> DEFINE i == Min(Matches(dest[t]))
  <2>1. i \in Slots
    BY <1>2, FirstSlot DEF GetHit, Matches, Used
  <2>2. NextTick \in 0..(TickMod - 1)
    BY <1>1, <1>2 DEF GetHit
  <2> HIDE DEF i
  <2>3. entries' \in [Slots -> Entry] /\ cur' \in [Threads -> Conns \cup {NULL}]
    <3>1. entries' = [entries EXCEPT ![i].last_used = NextTick]
      BY <1>2 DEF GetHit, i
    <3>2. cur' = [cur EXCEPT ![t] = entries[i].conn]
      BY <1>2 DEF GetHit, i
    <3> QED BY <2>1, <2>2, <3>1, <3>2 DEF TypeInv, TypeOK, Entry
  <2>4. stats' \in [Counter -> Nat]
    BY <1>2, CountType DEF GetHit, Counter, TypeInv
  <2> QED BY <1>1, <1>2, <2>3, <2>4
          DEF GetHit, Goto, TypeInv, TypeOK, AttemptBound, PC
<1>3. CASE GetAged(t)
  <2> DEFINE i == Min(Matches(dest[t]))
  <2>1. i \in Slots
    BY <1>3, FirstSlot DEF GetAged, Matches, Used
  <2>2. Min({i} \cup (Slots \ Used)) \in Slots
    BY <2>1, FirstSlot
  <2>3. entries' \in [Slots -> Entry] /\ conns' \in [Conns -> Dests \cup {NULL}]
    BY <1>3, <2>1, CloseEntryType DEF GetAged, TypeInv
  <2>4. stats' \in [Counter -> Nat]
    BY <1>3, CountType DEF GetAged, Counter, TypeInv
  <2>5. slot' \in [Threads -> Slots]
    BY <1>3, <2>2 DEF GetAged, TypeInv, TypeOK
  <2> QED BY <1>1, <1>3, <2>3, <2>4, <2>5
          DEF GetAged, Goto, TypeInv, TypeOK, AttemptBound, PC
<1>4. CASE GetFree(t)
  <2>1. Min(Slots \ Used) \in Slots
    BY <1>4, FirstSlot DEF GetFree, Used
  <2> QED BY <1>1, <1>4, <2>1
          DEF GetFree, Goto, TypeInv, TypeOK, AttemptBound, PC
<1>5. CASE GetEvict(t)
  <2>1. LruSlot \in Slots
    BY LruSlotInSlots DEF TypeInv
  <2>2. entries' \in [Slots -> Entry] /\ conns' \in [Conns -> Dests \cup {NULL}]
    BY <1>5, <2>1, CloseEntryType DEF GetEvict, TypeInv
  <2>3. stats' \in [Counter -> Nat]
    BY <1>5, CountType DEF GetEvict, Counter, TypeInv
  <2> QED BY <1>1, <1>5, <2>1, <2>2, <2>3
          DEF GetEvict, Goto, TypeInv, TypeOK, AttemptBound, PC
<1> QED BY <1>2, <1>3, <1>4, <1>5

\* The other steps of cspcl_send_bundle() preserve the types.
LEMMA SendTypes ==
    ASSUME TypeInv, NEW t \in Threads,
           \/ SendLock(t) \/ SendLockFails(t)
           \/ ConnectOK(t) \/ ConnectFails(t) \/ ConfirmOK(t)
           \/ \E r \in {"TIMEDOUT", "OTHER"} : ConfirmFails(t, r)
           \/ SendUnlock(t)
    PROVE  TypeInv'
<1>1. CASE SendLock(t)
  BY <1>1 DEF SendLock, Goto, TypeInv, TypeOK, AttemptBound, PC
<1>2. CASE SendLockFails(t)
  <2>1. ThreadTypes'
    BY <1>2, ReturnType DEF SendLockFails, Results
  <2>2. PoolTypes'
    BY <1>2, TypeParts DEF SendLockFails, PoolTypes, poolVars
  <2> QED BY <2>1, <2>2, TypeJoin
<1>3. CASE ConnectOK(t)
  <2>1. PICK c \in Conns :
          /\ conns' = [conns EXCEPT ![c] = dest[t]]
          /\ born' = [born EXCEPT ![c] = clock]
          /\ entries' = [entries EXCEPT ![slot[t]] = Filled(dest[t], c)]
          /\ cur' = [cur EXCEPT ![t] = c]
    BY <1>3 DEF ConnectOK
  <2>2. Filled(dest[t], c) \in Entry
    BY EntryTypes DEF TypeInv, TypeOK
  <2>3. stats' \in [Counter -> Nat]
    BY <1>3, CountType DEF ConnectOK, Counter, TypeInv
  <2> QED BY <1>3, <2>1, <2>2, <2>3
          DEF ConnectOK, Goto, TypeInv, TypeOK, AttemptBound, PC
<1>4. CASE ConnectFails(t)
  <2>1. stats' \in [Counter -> Nat]
    BY <1>4, CountType DEF ConnectFails, Counter, TypeInv
  <2> QED BY <1>4, <2>1
          DEF ConnectFails, Goto, TypeInv, TypeOK, AttemptBound, PC, Rets
<1>5. CASE ConfirmOK(t)
  BY <1>5 DEF ConfirmOK, poolVars, Goto, TypeInv, TypeOK, AttemptBound, PC, Rets
<1>6. ASSUME NEW r \in {"TIMEDOUT", "OTHER"}, ConfirmFails(t, r)
      PROVE  TypeInv'
  <2> DEFINE i == Min(Invalidated(dest[t]))
  <2>1. stats' \in [Counter -> Nat]
    BY <1>6, CountType DEF ConfirmFails, Counter, TypeInv
  <2>2. entries' \in [Slots -> Entry] /\ conns' \in [Conns -> Dests \cup {NULL}]
    <3>1. Free \in Entry
      BY EntryTypes DEF TypeInv
    <3> HIDE DEF i
    <3> QED BY <1>6, <3>1 DEF ConfirmFails, CloseEntry, TypeInv, TypeOK
  <2>3. attempt[t] \in 0..1
    BY <1>6 DEF ConfirmFails, TypeInv, TypeOK, AttemptBound
  <2>4. attempt' \in [Threads -> 0..2] /\ AttemptBound'
    BY <1>6, <2>3 DEF ConfirmFails, Goto, TypeInv, TypeOK, AttemptBound
  <2> QED BY <1>6, <2>1, <2>2, <2>4
          DEF ConfirmFails, Goto, TypeInv, TypeOK, PC, Rets
<1>7. CASE SendUnlock(t)
  <2>1. ErrorOf(ret[t]) \in Results
    BY DEF ErrorOf, Results
  <2>2. ThreadTypes'
    BY <1>7, <2>1, ReturnType DEF SendUnlock
  <2>3. PoolTypes'
    BY <1>7, TypeParts DEF SendUnlock, PoolTypes
  <2> QED BY <2>2, <2>3, TypeJoin
<1> QED BY <1>1, <1>2, <1>3, <1>4, <1>5, <1>6, <1>7

\* The steps of cspcl_conn_pool_add() preserve the types.
LEMMA AddTypes ==
    ASSUME TypeInv, NEW t \in Threads,
           \/ \E r \in {"NOT_INITIALIZED", "CONNECTION"} : AddFails(t, r)
           \/ AddCheck(t) \/ AddStore(t)
    PROVE  TypeInv'
<1>1. ASSUME NEW r \in {"NOT_INITIALIZED", "CONNECTION"}, AddFails(t, r)
      PROVE  TypeInv'
  <2>1. ThreadTypes'
    BY <1>1, ReturnType DEF AddFails, Results
  <2>2. PoolTypes'
    BY <1>1, TypeParts DEF AddFails, PoolTypes, poolVars
  <2> QED BY <2>1, <2>2, TypeJoin
<1>2. CASE AddCheck(t)
  BY <1>2 DEF AddCheck, poolVars, Goto, TypeInv, TypeOK, AttemptBound, PC
<1>3. CASE AddStore(t)
  <2> DEFINE e == [Filled(dest[t], cur[t]) EXCEPT !.last_used = NextTick]
  <2>1. e \in Entry
    BY EntryTypes DEF TypeInv, TypeOK
  <2>2. entries' \in [Slots -> Entry]
    <3>1. \E i : entries' = [entries EXCEPT ![i] = e]
      BY <1>3, Zenon DEF AddStore
    <3> HIDE DEF e
    <3> QED BY <2>1, <3>1 DEF TypeInv, TypeOK
  <2>3. stats' \in [Counter -> Nat]
    BY <1>3, CountType DEF AddStore, Counter, TypeInv, TypeOK
  <2>4. conns' \in [Conns -> Dests \cup {NULL}]
    <3>1. UNCHANGED conns \/ \E c : conns' = [conns EXCEPT ![c] = NULL]
      BY <1>3, Zenon DEF AddStore
    <3> QED BY <3>1 DEF TypeInv, TypeOK
  <2>5. tick' \in 0..(TickMod - 1)
    BY <1>3, NextTickType DEF AddStore, TypeInv, TypeOK
  <2>6. /\ Return(t, "OK")
        /\ UNCHANGED <<initialized, lock, mutex, clock, ops>>
        /\ born' = [born EXCEPT ![cur[t]] = clock]
    BY <1>3 DEF AddStore
  <2>7. ThreadTypes'
    BY <2>6, ReturnType DEF Results
  <2>8. clock \in Nat /\ born' \in [Conns -> Nat]
    BY <2>6 DEF TypeInv, TypeOK
  <2>9. PoolTypes'
    BY <2>2, <2>3, <2>4, <2>5, <2>6, <2>8, TypeParts DEF PoolTypes
  <2> QED BY <2>7, <2>9, TypeJoin
<1> QED BY <1>1, <1>2, <1>3

\* Entering a call preserves the types.
LEMMA CallTypes ==
    ASSUME TypeInv, NEW t \in Threads, Call(t)
    PROVE  TypeInv'
<1>1. ASSUME NEW r \in {"INVALID_PARAM", "BUNDLE_TOO_LARGE"}, SendReject(t, r)
      PROVE  TypeInv'
  <2>1. ThreadTypes'
    BY <1>1, ReturnType DEF SendReject, Results
  <2>2. PoolTypes'
    BY <1>1, TypeParts DEF SendReject, PoolTypes, poolVars
  <2> QED BY <2>1, <2>2, TypeJoin
<1>2. ASSUME NEW d \in Dests, SendCheck(t, d)
      PROVE  TypeInv'
  <2>1. PoolTypes'
    BY <1>2, TypeParts DEF SendCheck, PoolTypes, poolVars
  <2>2. CASE initialized
    BY <1>2, <2>2 DEF SendCheck, poolVars, Goto, TypeInv, TypeOK, AttemptBound, PC
  <2>3. CASE ~initialized
    <3>1. ThreadTypes'
      BY <1>2, <2>3, ReturnType DEF SendCheck, Results
    <3> QED BY <2>1, <3>1, TypeJoin
  <2> QED BY <2>2, <2>3
<1>3. ASSUME NEW d \in Dests, CallerConnects(t, d)
      PROVE  TypeInv'
  BY <1>3 DEF CallerConnects, poolVars, Goto, TypeInv, TypeOK, AttemptBound, PC
<1> QED BY <1>1, <1>2, <1>3 DEF Call

\* Pool cleanup, mutex destruction, pool init and the clock preserve the types.
LEMMA LifecycleTypes ==
    ASSUME TypeInv, Cleanup \/ Destroy \/ PoolInit \/ ClockAdvances
    PROVE  TypeInv'
<1>1. ThreadTypes'
  BY TypeParts DEF Cleanup, Destroy, PoolInit, ClockAdvances, threadVars,
                   ThreadTypes, AttemptBound
<1>2. Free \in Entry
  BY EntryTypes DEF TypeInv
<1>3. PoolTypes'
  <2>1. CASE Cleanup
    BY <1>2, <2>1, TypeParts DEF Cleanup, PoolTypes
  <2>2. CASE Destroy
    BY <2>2, TypeParts DEF Destroy, PoolTypes
  <2>3. CASE PoolInit
    BY <1>2, <2>3, TypeParts, ConnPoolAssumption DEF PoolInit, PoolTypes, ZeroStats
  <2>4. CASE ClockAdvances
    BY <2>4, TypeParts, ConnPoolAssumption DEF ClockAdvances, poolVars, PoolTypes
  <2> QED BY <2>1, <2>2, <2>3, <2>4
<1> QED BY <1>1, <1>3, TypeJoin

\* Every step preserves the type invariant and the bound on the loop counter.
LEMMA TypeStep == TypeInv /\ [Next]_vars => TypeInv'
<1> SUFFICES ASSUME TypeInv, [Next]_vars PROVE TypeInv'
  OBVIOUS
<1>1. ASSUME NEW t \in Threads, ThreadStep(t) PROVE TypeInv'
  BY <1>1, GetTypes, SendTypes, AddTypes DEF ThreadStep
<1>2. ASSUME NEW t \in Threads, Call(t) PROVE TypeInv'
  BY <1>2, CallTypes
<1>3. CASE Cleanup \/ Destroy \/ PoolInit \/ ClockAdvances
  BY <1>3, LifecycleTypes
<1>4. CASE UNCHANGED vars
  BY <1>4 DEF vars, poolVars, threadVars, TypeInv, TypeOK, AttemptBound
<1> QED BY <1>1, <1>2, <1>3, <1>4 DEF Next

\* Every variable of the pool and of its callers keeps its type: the access
\* counter wraps inside uint32_t, a send makes at most two attempts, and the
\* entry a sender is about to fill exists.
THEOREM TypeCorrect == Spec => []TypeOK
<1>1. TypeInv => TypeOK
  BY DEF TypeInv
<1> QED BY <1>1, TypeInit, TypeStep, PTL DEF Spec

-----------------------------------------------------------------------------
(* Ownership of connections.  EntriesOwnConns is not inductive: it needs     *)
(*   - the mutex discipline (only the holder of the lock is inside the send  *)
(*     loop, so nobody else touches the table there),                        *)
(*   - that a sender in csp_connect() has a free entry to fill, and that     *)
(*     this entry comes before every other one for its destination,          *)
(*   - that a sender waiting for an ack uses the first entry for its         *)
(*     destination, the one cspcl_pool_invalidate_locked() would close,      *)
(*   - that a caller of cspcl_conn_pool_add() owns an open connection.       *)

InSend == {"get", "connect", "confirm", "unlock"}

LockHeld == \A t \in Threads : pc[t] \in InSend => lock = t

ArgsValid == \A t \in Threads : pc[t] # "idle" => dest[t] # NULL

CallerOwns ==
    /\ \A t \in Threads : pc[t] \in {"add", "addchecked"} =>
         cur[t] # NULL /\ conns[cur[t]] = dest[t]
    /\ \A t, u \in Threads :
         /\ pc[t] \in {"add", "addchecked"} /\ pc[u] \in {"add", "addchecked"}
         /\ cur[t] = cur[u]
         => t = u

ConnectsAhead ==
    \A t \in Threads : pc[t] = "connect" =>
        \A j \in Used : entries[j].dest = dest[t] => slot[t] < j

ConfirmsFirst ==
    \A t \in Threads : pc[t] = "confirm" =>
        \E i \in Invalidated(dest[t]) :
            /\ entries[i].conn = cur[t]
            /\ \A j \in Invalidated(dest[t]) : i <= j

OwnInv ==
    /\ LockHeld /\ ArgsValid
    /\ CallerOwns /\ EntriesOwnConns
    /\ RoomToConnect /\ ConnectsAhead /\ ConfirmsFirst

\* The ownership invariant holds of a freshly initialised pool.
LEMMA OwnInit == Init => OwnInv
BY ConnPoolAssumption
   DEF Init, OwnInv, LockHeld, ArgsValid, CallerOwns, EntriesOwnConns, Used,
       CallerHolds, RoomToConnect, ConnectsAhead, ConfirmsFirst, Invalidated,
       Free, Slots, InSend

\* Closing a used entry removes it from the table and closes its connection,
\* and nothing else.
LEMMA CloseFacts ==
    ASSUME TypeOK, EntriesOwnConns, NEW i \in Used, CloseEntry(i)
    PROVE  /\ Used' = Used \ {i}
           /\ \A j \in Used' : entries'[j] = entries[j]
           /\ entries[i].conn \in Conns
           /\ conns'[entries[i].conn] = NULL
           /\ \A c \in Conns : c # entries[i].conn => conns'[c] = conns[c]
           /\ ~entries'[i].used
BY DEF CloseEntry, TypeOK, EntriesOwnConns, Used, Free, Entry

\* The lock and argument discipline is kept by every step.
LEMMA LockStep ==
    ASSUME TypeInv, LockHeld, ArgsValid, [Next]_vars
    PROVE  LockHeld' /\ ArgsValid'
<1> USE DEF TypeInv, TypeOK, LockHeld, ArgsValid, InSend
<1>1. ASSUME NEW t \in Threads, ThreadStep(t) PROVE LockHeld' /\ ArgsValid'
  <2>1. CASE SendLock(t) \/ SendLockFails(t)
    BY <2>1, ConnPoolAssumption DEF SendLock, SendLockFails, Goto, Return, poolVars
  <2>2. CASE GetHit(t) \/ GetAged(t) \/ GetFree(t) \/ GetEvict(t)
    <3>1. pc[t] = "get" /\ pc' \in {[pc EXCEPT ![t] = "connect"], [pc EXCEPT ![t] = "confirm"]}
          /\ UNCHANGED <<lock, dest>>
      BY <2>2 DEF GetHit, GetAged, GetFree, GetEvict, Goto
    <3> QED BY <3>1
  <2>3. CASE ConnectOK(t) \/ ConnectFails(t) \/ ConfirmOK(t)
    <3>1. pc[t] \in {"connect", "confirm"}
          /\ pc' \in {[pc EXCEPT ![t] = "confirm"], [pc EXCEPT ![t] = "unlock"]}
          /\ UNCHANGED <<lock, dest>>
      BY <2>3 DEF ConnectOK, ConnectFails, ConfirmOK, Goto, poolVars
    <3> QED BY <3>1
  <2>4. ASSUME NEW r \in {"TIMEDOUT", "OTHER"}, ConfirmFails(t, r)
        PROVE  LockHeld' /\ ArgsValid'
    <3>1. pc[t] = "confirm"
          /\ pc' \in {[pc EXCEPT ![t] = "get"], [pc EXCEPT ![t] = "unlock"]}
          /\ UNCHANGED <<lock, dest>>
      BY <2>4 DEF ConfirmFails, Goto
    <3> QED BY <3>1
  <2>5. CASE SendUnlock(t)
    BY <2>5, ConnPoolAssumption DEF SendUnlock, Return
  <2>6. ASSUME NEW r \in {"NOT_INITIALIZED", "CONNECTION"}, AddFails(t, r)
        PROVE  LockHeld' /\ ArgsValid'
    BY <2>6 DEF AddFails, Return, poolVars
  <2>7. CASE AddCheck(t)
    BY <2>7 DEF AddCheck, Goto, poolVars
  <2>8. CASE AddStore(t)
    <3>1. Return(t, "OK") /\ UNCHANGED lock
      BY <2>8 DEF AddStore
    <3> QED BY <3>1 DEF Return
  <2> QED BY <1>1, <2>1, <2>2, <2>3, <2>4, <2>5, <2>6, <2>7, <2>8 DEF ThreadStep
<1>2. ASSUME NEW t \in Threads, Call(t) PROVE LockHeld' /\ ArgsValid'
  BY <1>2, ConnPoolAssumption
     DEF Call, SendReject, SendCheck, CallerConnects, Return, Goto, poolVars
<1>3. CASE Cleanup \/ Destroy \/ PoolInit \/ ClockAdvances
  BY <1>3 DEF Cleanup, Destroy, PoolInit, ClockAdvances, threadVars, poolVars
<1>4. CASE UNCHANGED vars
  BY <1>4 DEF vars, poolVars, threadVars
<1> QED BY <1>1, <1>2, <1>3, <1>4 DEF Next

\* The holder of the mutex is alone in the send loop.
LEMMA Alone ==
    ASSUME LockHeld, NEW t \in Threads, pc[t] \in InSend
    PROVE  \A u \in Threads : u # t => pc[u] \notin InSend
BY DEF LockHeld

\* Steps that leave the table, the connections and the connection each thread
\* uses alone keep ownership; only the thread that moves needs an argument.
LEMMA QuietStep ==
    ASSUME TypeInv, OwnInv, NEW t \in Threads,
           UNCHANGED <<entries, conns>>,
           \A u \in Threads : u # t =>
               pc'[u] = pc[u] /\ dest'[u] = dest[u] /\ slot'[u] = slot[u] /\ cur'[u] = cur[u],
           pc'[t] \notin {"add", "addchecked", "connect", "confirm"}
    PROVE  /\ CallerOwns' /\ EntriesOwnConns'
           /\ RoomToConnect' /\ ConnectsAhead' /\ ConfirmsFirst'
<1> USE DEF TypeInv, TypeOK, OwnInv
<1>0. Used' = Used
  BY DEF Used
<1>1. CallerOwns'
  BY DEF CallerOwns
<1>2. EntriesOwnConns'
  BY <1>0 DEF EntriesOwnConns, CallerHolds
<1>3. RoomToConnect' /\ ConnectsAhead'
  BY <1>0 DEF RoomToConnect, ConnectsAhead
<1>4. ConfirmsFirst'
  BY <1>0 DEF ConfirmsFirst, Invalidated
<1> QED BY <1>1, <1>2, <1>3, <1>4

\* Owners hold connection objects, never the null pointer.
LEMMA OwnersHoldConns ==
    ASSUME TypeInv, OwnInv
    PROVE  /\ \A i \in Used : entries[i].conn \in Conns
           /\ \A u \in Threads : pc[u] \in {"add", "addchecked"} => cur[u] \in Conns
BY DEF TypeInv, TypeOK, OwnInv, EntriesOwnConns, CallerOwns, Used, Entry

\* Closing the entry i, by the only thread in the send loop.
LEMMA ClosingStep ==
    ASSUME TypeInv, OwnInv, NEW t \in Threads, NEW i \in Used,
           pc[t] \in InSend, pc'[t] \in InSend, CloseEntry(i),
           \A u \in Threads : u # t => pc'[u] = pc[u],
           UNCHANGED <<dest, cur>>
    PROVE  CallerOwns' /\ EntriesOwnConns'
<1> USE DEF TypeInv, OwnInv
<1>1. /\ Used' = Used \ {i}
      /\ \A j \in Used' : entries'[j] = entries[j]
      /\ \A c \in Conns : c # entries[i].conn => conns'[c] = conns[c]
  BY CloseFacts
<1>2. \A u \in Threads : pc'[u] \in {"add", "addchecked"} => u # t /\ pc[u] = pc'[u]
  BY DEF InSend
<1>3. CallerOwns'
  <2>1. \A u \in Threads : pc[u] \in {"add", "addchecked"} => cur[u] # entries[i].conn
    BY DEF EntriesOwnConns, CallerHolds
  <2> QED BY <1>1, <1>2, <2>1, OwnersHoldConns DEF CallerOwns
<1>4. EntriesOwnConns'
  <2>1. \A j \in Used' : j \in Used /\ entries[j].conn # entries[i].conn
    BY <1>1 DEF EntriesOwnConns
  <2> QED BY <1>1, <1>2, <2>1, OwnersHoldConns DEF EntriesOwnConns, CallerHolds
<1> QED BY <1>3, <1>4

\* A lookup keeps ownership: a hit selects the first entry of the destination;
\* ageing and eviction close exactly one entry and leave a free one to fill.
LEMMA GetOwn ==
    ASSUME TypeInv, OwnInv, NEW t \in Threads,
           GetHit(t) \/ GetAged(t) \/ GetFree(t) \/ GetEvict(t)
    PROVE  /\ CallerOwns' /\ EntriesOwnConns'
           /\ RoomToConnect' /\ ConnectsAhead' /\ ConfirmsFirst'
<1>1. pc[t] = "get"
  BY DEF GetHit, GetAged, GetFree, GetEvict
<1>2. \A u \in Threads : u # t => pc[u] \notin InSend
  BY <1>1, Alone DEF OwnInv, InSend
<1>3. /\ \A u \in Threads : u # t => pc'[u] = pc[u]
      /\ pc'[t] \in {"connect", "confirm"}
      /\ UNCHANGED dest
  BY DEF GetHit, GetAged, GetFree, GetEvict, Goto, TypeInv, TypeOK
<1>4. \A u \in Threads : pc'[u] \in InSend => u = t
  BY <1>2, <1>3
<1>5. CASE GetHit(t)
  <2> DEFINE i == Min(Matches(dest[t]))
  <2>1. i \in Matches(dest[t]) /\ \A j \in Matches(dest[t]) : i <= j
    BY <1>5, FirstSlot DEF GetHit, Matches, Used
  <2>2. entries' = [entries EXCEPT ![i].last_used = NextTick]
        /\ cur' = [cur EXCEPT ![t] = entries[i].conn] /\ UNCHANGED conns
        /\ pc' = [pc EXCEPT ![t] = "confirm"]
    BY <1>5 DEF GetHit, Goto
  <2> HIDE DEF i
  <2>3. \A j \in Slots : /\ entries'[j].used = entries[j].used
                         /\ entries'[j].dest = entries[j].dest
                         /\ entries'[j].conn = entries[j].conn
    BY <2>2 DEF TypeInv, TypeOK, Entry
  <2>4. Used' = Used /\ Used \subseteq Slots
    BY <2>3 DEF Used
  <2>5. \A u \in Threads : pc'[u] \in {"add", "addchecked"} =>
            u # t /\ pc[u] = pc'[u] /\ cur'[u] = cur[u]
    BY <1>3, <2>2 DEF TypeInv, TypeOK
  <2>6. CallerOwns'
    BY <1>3, <2>2, <2>5 DEF CallerOwns, OwnInv
  <2>7. EntriesOwnConns'
    BY <2>2, <2>3, <2>4, <2>5 DEF EntriesOwnConns, OwnInv, CallerHolds
  <2>8. RoomToConnect' /\ ConnectsAhead'
    BY <1>4, <2>2 DEF RoomToConnect, ConnectsAhead, InSend, TypeInv, TypeOK
  <2>9. ConfirmsFirst'
    <3>1. Invalidated(dest[t])' = Matches(dest[t])
      BY <1>3, <2>3, <2>4 DEF Invalidated, Matches, EntriesOwnConns, OwnInv
    <3>2. cur'[t] = entries'[i].conn
      BY <2>1, <2>2, <2>3 DEF TypeInv, TypeOK, Matches, Used
    <3> QED BY <1>4, <2>1, <3>1, <3>2 DEF ConfirmsFirst, InSend
  <2> QED BY <2>6, <2>7, <2>8, <2>9
<1>6. CASE GetAged(t)
  <2> DEFINE i == Min(Matches(dest[t]))
             s == Min({i} \cup (Slots \ Used))
  <2>1. i \in Matches(dest[t]) /\ \A j \in Matches(dest[t]) : i <= j
    BY <1>6, FirstSlot DEF GetAged, Matches, Used
  <2>2. i \in Used /\ i \in Slots
    BY <2>1 DEF Matches, Used
  <2>3. s \in {i} \cup (Slots \ Used) /\ s <= i
    BY <2>2, FirstSlot
  <2>4. CloseEntry(i) /\ slot' = [slot EXCEPT ![t] = s] /\ UNCHANGED cur
        /\ pc' = [pc EXCEPT ![t] = "connect"]
    BY <1>6 DEF GetAged, Goto
  <2> HIDE DEF i, s
  <2>5. CallerOwns' /\ EntriesOwnConns'
    BY <1>1, <1>3, <2>2, <2>4, ClosingStep DEF InSend
  <2>6. /\ Used' = Used \ {i} /\ ~entries'[i].used
        /\ \A j \in Used' : entries'[j] = entries[j]
    BY <2>2, <2>4, CloseFacts DEF TypeInv, OwnInv
  <2>7. slot'[t] = s /\ s \in Slots /\ s \notin Used'
    BY <2>2, <2>3, <2>4, <2>6 DEF TypeInv, TypeOK
  <2>8. RoomToConnect'
    BY <1>4, <2>7 DEF RoomToConnect, InSend, Used
  <2>9. ConnectsAhead'
    <3>1. \A j \in Used' : entries'[j].dest = dest[t] => j \in Matches(dest[t])
      BY <2>6 DEF Matches, EntriesOwnConns, OwnInv
    <3>2. \A j \in Used' : j # i /\ j \in Nat /\ i \in Nat /\ s \in Nat
      BY <2>2, <2>6, <2>7 DEF Used, Slots
    <3>3. \A j \in Used' : entries'[j].dest = dest[t] => s < j
      BY <2>1, <2>3, <3>1, <3>2
    <3> QED BY <1>3, <1>4, <2>7, <3>3 DEF ConnectsAhead, InSend
  <2>10. ConfirmsFirst'
    BY <1>4, <2>4 DEF ConfirmsFirst, InSend, TypeInv, TypeOK
  <2> QED BY <2>5, <2>8, <2>9, <2>10
<1>7. CASE GetFree(t)
  <2> DEFINE s == Min(Slots \ Used)
  <2>1. s \in Slots \ Used
    BY <1>7, FirstSlot DEF GetFree, Used
  <2>2. slot' = [slot EXCEPT ![t] = s] /\ UNCHANGED <<entries, conns, cur>>
        /\ pc' = [pc EXCEPT ![t] = "connect"] /\ Matches(dest[t]) = {}
    BY <1>7 DEF GetFree, Goto
  <2> HIDE DEF s
  <2>3. Used' = Used
    BY <2>2 DEF Used
  <2>4. CallerOwns' /\ EntriesOwnConns'
    BY <1>3, <2>2, <2>3 DEF CallerOwns, EntriesOwnConns, CallerHolds, OwnInv
  <2>5. RoomToConnect'
    BY <1>4, <2>1, <2>2 DEF RoomToConnect, InSend, Used, TypeInv, TypeOK
  <2>6. ConnectsAhead'
    <3>1. \A j \in Used : entries[j].dest # dest[t]
      BY <2>2 DEF Matches, EntriesOwnConns, OwnInv
    <3> QED BY <1>3, <1>4, <2>2, <2>3, <3>1 DEF ConnectsAhead, InSend
  <2>7. ConfirmsFirst'
    BY <1>4, <2>2 DEF ConfirmsFirst, InSend, TypeInv, TypeOK
  <2> QED BY <2>4, <2>5, <2>6, <2>7
<1>8. CASE GetEvict(t)
  <2>1. LruSlot \in Used /\ LruSlot \in Slots
    BY <1>8, LruSlotInSlots DEF GetEvict, TypeInv
  <2>2. CloseEntry(LruSlot) /\ slot' = [slot EXCEPT ![t] = LruSlot]
        /\ UNCHANGED cur /\ pc' = [pc EXCEPT ![t] = "connect"]
        /\ Matches(dest[t]) = {}
    BY <1>8 DEF GetEvict, Goto
  <2>3. CallerOwns' /\ EntriesOwnConns'
    BY <1>1, <1>3, <2>1, <2>2, ClosingStep DEF InSend
  <2>4. /\ Used' = Used \ {LruSlot} /\ ~entries'[LruSlot].used
        /\ \A j \in Used' : entries'[j] = entries[j]
    BY <2>1, <2>2, CloseFacts DEF TypeInv, OwnInv
  <2>5. RoomToConnect'
    BY <1>4, <2>2, <2>4 DEF RoomToConnect, InSend, TypeInv, TypeOK
  <2>6. ConnectsAhead'
    <3>1. \A j \in Used' : entries'[j].dest # dest[t]
      BY <2>2, <2>4 DEF Matches, EntriesOwnConns, OwnInv
    <3> QED BY <1>3, <1>4, <3>1 DEF ConnectsAhead, InSend
  <2>7. ConfirmsFirst'
    BY <1>4, <2>2 DEF ConfirmsFirst, InSend, TypeInv, TypeOK
  <2> QED BY <2>3, <2>5, <2>6, <2>7
<1> QED BY <1>5, <1>6, <1>7, <1>8

\* A connection object libcsp hands out belongs to nobody.
LEMMA ClosedIsUnowned ==
    ASSUME TypeInv, OwnInv, NEW c \in Conns, conns[c] = NULL
    PROVE  /\ \A i \in Used : entries[i].conn # c
           /\ \A u \in Threads : ~CallerHolds(u, c)
BY DEF OwnInv, EntriesOwnConns, CallerOwns, ArgsValid, CallerHolds

\* Connecting, confirming and failing keep ownership: the new connection was
\* nobody's, and the connection that is invalidated was the pool's alone.
LEMMA SendOwn ==
    ASSUME TypeInv, OwnInv, NEW t \in Threads,
           \/ SendLock(t) \/ SendLockFails(t)
           \/ ConnectOK(t) \/ ConnectFails(t) \/ ConfirmOK(t)
           \/ \E r \in {"TIMEDOUT", "OTHER"} : ConfirmFails(t, r)
           \/ SendUnlock(t)
    PROVE  /\ CallerOwns' /\ EntriesOwnConns'
           /\ RoomToConnect' /\ ConnectsAhead' /\ ConfirmsFirst'
<1>1. CASE SendLock(t) \/ ConnectFails(t) \/ ConfirmOK(t)
  <2>1. /\ UNCHANGED <<entries, conns, dest, slot, cur>>
        /\ pc' \in {[pc EXCEPT ![t] = "get"], [pc EXCEPT ![t] = "unlock"]}
    BY <1>1 DEF SendLock, ConnectFails, ConfirmOK, Goto, poolVars
  <2> QED BY <2>1, QuietStep DEF TypeInv, TypeOK
<1>2. CASE SendLockFails(t) \/ SendUnlock(t)
  <2>1. UNCHANGED <<entries, conns>> /\ \E r : Return(t, r)
    BY <1>2 DEF SendLockFails, SendUnlock, poolVars
  <2> QED BY <2>1, QuietStep DEF Return, TypeInv, TypeOK
<1>3. CASE ConnectOK(t)
  <2>1. pc[t] = "connect" /\ pc' = [pc EXCEPT ![t] = "confirm"] /\ UNCHANGED <<dest, slot>>
    BY <1>3 DEF ConnectOK, Goto
  <2>2. PICK c \in Conns :
          /\ conns[c] = NULL
          /\ conns' = [conns EXCEPT ![c] = dest[t]]
          /\ entries' = [entries EXCEPT ![slot[t]] = Filled(dest[t], c)]
          /\ cur' = [cur EXCEPT ![t] = c]
    BY <1>3 DEF ConnectOK
  <2>3. slot[t] \in Slots \ Used /\ dest[t] # NULL /\ c # NULL
    BY <2>1, ConnPoolAssumption DEF TypeInv, TypeOK, OwnInv, RoomToConnect, ArgsValid, Used
  <2>4. Used' = Used \cup {slot[t]}
    BY <2>2, <2>3 DEF Used, Filled, TypeInv, TypeOK
  <2>5. /\ \A j \in Used : entries'[j] = entries[j]
        /\ entries'[slot[t]].conn = c /\ entries'[slot[t]].dest = dest[t]
    BY <2>2, <2>3 DEF Used, Filled, TypeInv, TypeOK
  <2>6. conns'[c] = dest[t] /\ \A x \in Conns : x # c => conns'[x] = conns[x]
    BY <2>2 DEF TypeInv, TypeOK
  <2>7. /\ \A i \in Used : entries[i].conn # c
        /\ \A u \in Threads : ~CallerHolds(u, c)
    BY <2>2, ClosedIsUnowned
  <2>8. \A u \in Threads : pc'[u] \in {"add", "addchecked"} =>
            u # t /\ pc[u] = pc'[u] /\ cur'[u] = cur[u]
    BY <2>1, <2>2 DEF TypeInv, TypeOK
  <2>9. CallerOwns'
    BY <2>1, <2>6, <2>7, <2>8, OwnersHoldConns DEF CallerOwns, OwnInv, CallerHolds
  <2>10. EntriesOwnConns'
    BY <2>3, <2>4, <2>5, <2>6, <2>7, <2>8, OwnersHoldConns DEF EntriesOwnConns, OwnInv, CallerHolds
  <2>11. \A u \in Threads : pc'[u] \in InSend => u = t
    BY <2>1, Alone DEF OwnInv, InSend, TypeInv, TypeOK
  <2>12. RoomToConnect' /\ ConnectsAhead'
    BY <2>1, <2>11 DEF RoomToConnect, ConnectsAhead, InSend, TypeInv, TypeOK
  <2>13. ConfirmsFirst'
    <3>1. \A j \in Used : entries[j].dest = dest[t] => slot[t] < j
      BY <2>1 DEF OwnInv, ConnectsAhead
    <3>2. slot[t] \in Invalidated(dest[t])'
      BY <2>1, <2>4, <2>5 DEF Invalidated
    <3>3. \A j \in Invalidated(dest[t])' : slot[t] <= j
      BY <2>1, <2>3, <2>4, <2>5, <3>1 DEF Invalidated, Used, Slots
    <3>4. cur'[t] = c
      BY <2>2 DEF TypeInv, TypeOK
    <3> QED BY <2>1, <2>5, <2>11, <3>2, <3>3, <3>4 DEF ConfirmsFirst, InSend
  <2> QED BY <2>9, <2>10, <2>12, <2>13
<1>4. ASSUME NEW r \in {"TIMEDOUT", "OTHER"}, ConfirmFails(t, r)
      PROVE  /\ CallerOwns' /\ EntriesOwnConns'
             /\ RoomToConnect' /\ ConnectsAhead' /\ ConfirmsFirst'
  <2> DEFINE i == Min(Invalidated(dest[t]))
  <2>1. pc[t] = "confirm" /\ CloseEntry(i) /\ UNCHANGED <<dest, cur, slot>>
        /\ pc' \in {[pc EXCEPT ![t] = "get"], [pc EXCEPT ![t] = "unlock"]}
    BY <1>4 DEF ConfirmFails, Goto
  <2>2. i \in Used
    <3>1. Invalidated(dest[t]) # {}
      BY <2>1 DEF OwnInv, ConfirmsFirst
    <3> QED BY <3>1, FirstSlot DEF Invalidated, Used
  <2> HIDE DEF i
  <2>3. CallerOwns' /\ EntriesOwnConns'
    BY <2>1, <2>2, ClosingStep DEF InSend, TypeInv, TypeOK
  <2>4. \A u \in Threads : pc'[u] \notin {"connect", "confirm"}
    BY <2>1, Alone DEF OwnInv, InSend, TypeInv, TypeOK
  <2> QED BY <2>3, <2>4 DEF RoomToConnect, ConnectsAhead, ConfirmsFirst
<1> QED BY <1>1, <1>2, <1>3, <1>4

\* cspcl_conn_pool_add() passes one connection from its caller to the pool.
LEMMA AddOwn ==
    ASSUME TypeInv, OwnInv, NEW t \in Threads,
           \/ \E r \in {"NOT_INITIALIZED", "CONNECTION"} : AddFails(t, r)
           \/ AddCheck(t) \/ AddStore(t)
    PROVE  /\ CallerOwns' /\ EntriesOwnConns'
           /\ RoomToConnect' /\ ConnectsAhead' /\ ConfirmsFirst'
<1>1. ASSUME NEW r \in {"NOT_INITIALIZED", "CONNECTION"}, AddFails(t, r)
      PROVE  /\ CallerOwns' /\ EntriesOwnConns'
             /\ RoomToConnect' /\ ConnectsAhead' /\ ConfirmsFirst'
  <2>1. /\ CallerHolds(t, cur[t]) /\ cur[t] # NULL
        /\ conns' = [conns EXCEPT ![cur[t]] = NULL]
        /\ Return(t, r) /\ UNCHANGED entries
    BY <1>1 DEF AddFails, CallerHolds, OwnInv, CallerOwns, poolVars
  <2>2. Used' = Used
    BY <2>1 DEF Used
  <2>3. \A u \in Threads : u # t =>
            pc'[u] = pc[u] /\ dest'[u] = dest[u] /\ slot'[u] = slot[u] /\ cur'[u] = cur[u]
    BY <2>1 DEF Return, TypeInv, TypeOK
  <2>4. pc'[t] = "idle"
    BY <2>1 DEF Return, TypeInv, TypeOK
  <2>5. \A x \in Conns : x # cur[t] => conns'[x] = conns[x]
    BY <2>1 DEF TypeInv, TypeOK
  <2>6. CallerOwns'
    BY <2>1, <2>3, <2>4, <2>5, OwnersHoldConns DEF CallerOwns, OwnInv, CallerHolds
  <2>7. EntriesOwnConns'
    <3>1. \A j \in Used : entries[j].conn # cur[t]
      BY <2>1 DEF EntriesOwnConns, OwnInv
    <3> QED BY <2>1, <2>2, <2>3, <2>4, <2>5, <3>1, OwnersHoldConns DEF EntriesOwnConns, OwnInv, CallerHolds
  <2>8. RoomToConnect' /\ ConnectsAhead'
    BY <2>1, <2>2, <2>3, <2>4 DEF RoomToConnect, ConnectsAhead, OwnInv
  <2>9. ConfirmsFirst'
    BY <2>1, <2>2, <2>3, <2>4 DEF ConfirmsFirst, Invalidated, OwnInv
  <2> QED BY <2>6, <2>7, <2>8, <2>9
<1>2. CASE AddCheck(t)
  <2>1. /\ UNCHANGED <<entries, conns, dest, slot, cur>>
        /\ pc[t] = "add" /\ pc' = [pc EXCEPT ![t] = "addchecked"]
    BY <1>2 DEF AddCheck, Goto, poolVars
  <2>2. Used' = Used
    BY <2>1 DEF Used
  <2>3. \A u \in Threads : pc'[u] \in {"add", "addchecked"} <=> pc[u] \in {"add", "addchecked"}
    BY <2>1 DEF TypeInv, TypeOK
  <2>4. CallerOwns'
    BY <2>1, <2>3 DEF CallerOwns, OwnInv
  <2>5. EntriesOwnConns'
    BY <2>1, <2>2, <2>3 DEF EntriesOwnConns, OwnInv, CallerHolds
  <2>6. RoomToConnect' /\ ConnectsAhead' /\ ConfirmsFirst'
    BY <2>1, <2>2 DEF RoomToConnect, ConnectsAhead, ConfirmsFirst, Invalidated,
                      OwnInv, TypeInv, TypeOK
  <2> QED BY <2>4, <2>5, <2>6
<1>3. CASE AddStore(t)
  <2> DEFINE e == [Filled(dest[t], cur[t]) EXCEPT !.last_used = NextTick]
             s == IF Used # Slots THEN Min(Slots \ Used) ELSE LruSlot
  <2>1. /\ pc[t] = "addchecked" /\ lock = NULL /\ Return(t, "OK")
        /\ entries' = [entries EXCEPT ![s] = e]
    BY <1>3, Zenon DEF AddStore
  <2>2. s \in Slots
    <3>1. CASE Used # Slots
      BY <3>1, FirstSlot DEF Used
    <3>2. CASE Used = Slots
      BY <3>2, LruSlotInSlots DEF TypeInv
    <3> QED BY <3>1, <3>2
  <2>3. e.used /\ e.dest = dest[t] /\ e.conn = cur[t]
    BY DEF Filled
  <2>4. \/ s \notin Used /\ UNCHANGED conns
        \/ s \in Used /\ conns' = [conns EXCEPT ![entries[s].conn] = NULL]
    <3>1. CASE Used # Slots
      <4>1. s \notin Used
        BY <3>1, FirstSlot DEF Used
      <4> QED BY <1>3, <3>1, <4>1 DEF AddStore
    <3>2. CASE Used = Slots
      BY <1>3, <2>2, <3>2 DEF AddStore
    <3> QED BY <3>1, <3>2
  <2> HIDE DEF e, s
  <2>5. Used' = Used \cup {s}
    BY <2>1, <2>2, <2>3 DEF Used, TypeInv, TypeOK
  <2>6. entries'[s] = e /\ \A j \in Used : j # s => entries'[j] = entries[j]
    BY <2>1, <2>2 DEF Used, TypeInv, TypeOK
  <2>7. \A u \in Threads : u # t => pc'[u] = pc[u] /\ cur'[u] = cur[u] /\ dest'[u] = dest[u]
    BY <2>1 DEF Return, TypeInv, TypeOK
  <2>8. pc'[t] = "idle"
    BY <2>1 DEF Return, TypeInv, TypeOK
  <2>9. CallerHolds(t, cur[t]) /\ cur[t] # NULL /\ dest[t] # NULL /\ conns[cur[t]] = dest[t]
    BY <2>1 DEF CallerHolds, OwnInv, CallerOwns, ArgsValid
  <2>10. \A x \in Conns : (s \in Used => x # entries[s].conn) => conns'[x] = conns[x]
    BY <2>4 DEF TypeInv, TypeOK
  <2>11. \A j \in Used : entries[j].conn # cur[t] /\ (j # s /\ s \in Used => entries[j].conn # entries[s].conn)
    BY <2>9 DEF EntriesOwnConns, OwnInv
  <2>12. \A u \in Threads : pc[u] \in {"add", "addchecked"} =>
             (s \in Used => cur[u] # entries[s].conn) /\ (u # t => cur[u] # cur[t])
    BY <2>1 DEF EntriesOwnConns, CallerOwns, OwnInv, CallerHolds
  <2>13. CallerOwns'
    BY <2>7, <2>8, <2>10, <2>12, OwnersHoldConns DEF CallerOwns, OwnInv
  <2>14. EntriesOwnConns'
    <3>1. \A j \in Used' : /\ entries'[j].dest # NULL /\ entries'[j].conn # NULL
                           /\ conns'[entries'[j].conn] = entries'[j].dest
      <4> SUFFICES ASSUME NEW j \in Used'
                   PROVE  /\ entries'[j].dest # NULL /\ entries'[j].conn # NULL
                          /\ conns'[entries'[j].conn] = entries'[j].dest
        OBVIOUS
      <4>1. cur[t] \in Conns /\ (s \in Used => cur[t] # entries[s].conn)
        BY <2>1, <2>12, OwnersHoldConns
      <4>2. conns'[cur[t]] = dest[t]
        BY <2>9, <2>10, <4>1
      <4>3. CASE j = s
        BY <2>3, <2>6, <2>9, <4>2, <4>3
      <4>4. CASE j # s
        <5>1. j \in Used /\ entries'[j] = entries[j] /\ entries[j].conn \in Conns
          BY <2>5, <2>6, <4>4, OwnersHoldConns
        <5>2. conns'[entries[j].conn] = conns[entries[j].conn]
          BY <2>10, <2>11, <4>4, <5>1
        <5> QED BY <5>1, <5>2 DEF EntriesOwnConns, OwnInv
      <4> QED BY <4>3, <4>4
    <3>2. \A j \in Used' : \A u \in Threads :
            ~(pc'[u] \in {"add", "addchecked"} /\ cur'[u] = entries'[j].conn)
      BY <2>3, <2>5, <2>6, <2>7, <2>8, <2>12 DEF EntriesOwnConns, OwnInv, CallerHolds
    <3>3. \A i, j \in Used' : entries'[i].conn = entries'[j].conn => i = j
      BY <2>3, <2>5, <2>6, <2>11 DEF EntriesOwnConns, OwnInv
    <3> QED BY <3>1, <3>2, <3>3 DEF EntriesOwnConns, CallerHolds
  <2>15. \A u \in Threads : pc'[u] \notin InSend
    BY <2>1, <2>7, <2>8, ConnPoolAssumption DEF OwnInv, LockHeld, InSend
  <2> QED BY <2>13, <2>14, <2>15 DEF RoomToConnect, ConnectsAhead, ConfirmsFirst, InSend
<1> QED BY <1>1, <1>2, <1>3

\* Entering a call keeps ownership: a caller's new connection was nobody's.
LEMMA CallOwn ==
    ASSUME TypeInv, OwnInv, NEW t \in Threads, Call(t)
    PROVE  /\ CallerOwns' /\ EntriesOwnConns'
           /\ RoomToConnect' /\ ConnectsAhead' /\ ConfirmsFirst'
<1>1. ASSUME NEW r \in {"INVALID_PARAM", "BUNDLE_TOO_LARGE"}, SendReject(t, r)
      PROVE  /\ CallerOwns' /\ EntriesOwnConns'
             /\ RoomToConnect' /\ ConnectsAhead' /\ ConfirmsFirst'
  BY <1>1, QuietStep DEF SendReject, Return, poolVars, TypeInv, TypeOK
<1>2. ASSUME NEW d \in Dests, SendCheck(t, d)
      PROVE  /\ CallerOwns' /\ EntriesOwnConns'
             /\ RoomToConnect' /\ ConnectsAhead' /\ ConfirmsFirst'
  <2>1. UNCHANGED <<entries, conns>>
    BY <1>2 DEF SendCheck, poolVars
  <2>2. \A u \in Threads : u # t =>
            pc'[u] = pc[u] /\ dest'[u] = dest[u] /\ slot'[u] = slot[u] /\ cur'[u] = cur[u]
    BY <1>2 DEF SendCheck, Return, Goto, TypeInv, TypeOK
  <2>3. pc'[t] \notin {"add", "addchecked", "connect", "confirm"}
    BY <1>2 DEF SendCheck, Return, Goto, TypeInv, TypeOK
  <2> QED BY <2>1, <2>2, <2>3, QuietStep
<1>3. ASSUME NEW d \in Dests, CallerConnects(t, d)
      PROVE  /\ CallerOwns' /\ EntriesOwnConns'
             /\ RoomToConnect' /\ ConnectsAhead' /\ ConfirmsFirst'
  <2>1. /\ pc[t] = "idle" /\ pc' = [pc EXCEPT ![t] = "add"]
        /\ dest' = [dest EXCEPT ![t] = d] /\ UNCHANGED <<entries, slot>>
    BY <1>3 DEF CallerConnects, Goto, poolVars
  <2>2. PICK c \in Conns : /\ conns[c] = NULL
                           /\ conns' = [conns EXCEPT ![c] = d]
                           /\ cur' = [cur EXCEPT ![t] = c]
    BY <1>3 DEF CallerConnects
  <2>3. /\ \A i \in Used : entries[i].conn # c
        /\ \A u \in Threads : ~CallerHolds(u, c)
    BY <2>2, ClosedIsUnowned
  <2>4. conns'[c] = d /\ \A x \in Conns : x # c => conns'[x] = conns[x]
    BY <2>2 DEF TypeInv, TypeOK
  <2>5. /\ pc'[t] = "add" /\ dest'[t] = d /\ cur'[t] = c
        /\ \A u \in Threads : u # t =>
             pc'[u] = pc[u] /\ dest'[u] = dest[u] /\ slot'[u] = slot[u] /\ cur'[u] = cur[u]
    BY <2>1, <2>2 DEF TypeInv, TypeOK
  <2>6. Used' = Used
    BY <2>1 DEF Used
  <2>7. CallerOwns'
    BY <2>3, <2>4, <2>5, OwnersHoldConns, ConnPoolAssumption
       DEF CallerOwns, OwnInv, CallerHolds
  <2>8. EntriesOwnConns'
    BY <2>1, <2>3, <2>4, <2>5, <2>6, OwnersHoldConns
       DEF EntriesOwnConns, OwnInv, CallerHolds
  <2>9. RoomToConnect' /\ ConnectsAhead'
    BY <2>1, <2>5, <2>6 DEF RoomToConnect, ConnectsAhead, OwnInv
  <2>10. ConfirmsFirst'
    BY <2>1, <2>5, <2>6 DEF ConfirmsFirst, Invalidated, OwnInv
  <2> QED BY <2>7, <2>8, <2>9, <2>10
<1> QED BY <1>1, <1>2, <1>3 DEF Call

\* Cleanup and init keep ownership: the table is emptied, callers keep theirs.
LEMMA LifecycleOwn ==
    ASSUME TypeInv, OwnInv, Cleanup \/ Destroy \/ PoolInit \/ ClockAdvances
    PROVE  /\ CallerOwns' /\ EntriesOwnConns'
           /\ RoomToConnect' /\ ConnectsAhead' /\ ConfirmsFirst'
<1>1. UNCHANGED <<pc, dest, slot, cur>>
  BY DEF Cleanup, Destroy, PoolInit, ClockAdvances, threadVars
<1>2. CASE Destroy \/ ClockAdvances
  <2>1. UNCHANGED <<entries, conns>>
    BY <1>2 DEF Destroy, ClockAdvances, poolVars
  <2>2. Used' = Used
    BY <2>1 DEF Used
  <2> QED BY <1>1, <2>1, <2>2
          DEF OwnInv, CallerOwns, EntriesOwnConns, CallerHolds, RoomToConnect,
              ConnectsAhead, ConfirmsFirst, Invalidated
<1>3. CASE Cleanup \/ PoolInit
  <2>1. Used' = {}
    BY <1>3 DEF Cleanup, PoolInit, Used, Free
  <2>2. \A u \in Threads : pc[u] \notin InSend
    BY <1>3, ConnPoolAssumption
       DEF Cleanup, PoolInit, NobodyInside, OwnInv, LockHeld, InSend
  <2>3. \A u \in Threads : pc[u] \in {"add", "addchecked"} => conns'[cur[u]] = conns[cur[u]]
    BY <1>3, OwnersHoldConns
       DEF Cleanup, PoolInit, OwnInv, EntriesOwnConns, CallerHolds
  <2>4. CallerOwns'
    BY <1>1, <2>3 DEF OwnInv, CallerOwns
  <2>5. EntriesOwnConns'
    BY <2>1 DEF EntriesOwnConns
  <2> QED BY <1>1, <2>2, <2>4, <2>5
          DEF RoomToConnect, ConnectsAhead, ConfirmsFirst, InSend
<1> QED BY <1>2, <1>3

\* Every step preserves the ownership invariant.
LEMMA OwnStep == TypeInv /\ OwnInv /\ [Next]_vars => OwnInv'
<1> SUFFICES ASSUME TypeInv, OwnInv, [Next]_vars PROVE OwnInv'
  OBVIOUS
<1> DEFINE Rest == CallerOwns /\ EntriesOwnConns /\ RoomToConnect
                   /\ ConnectsAhead /\ ConfirmsFirst
<1>1. LockHeld' /\ ArgsValid'
  BY LockStep DEF OwnInv
<1>2. ASSUME NEW t \in Threads, ThreadStep(t) PROVE Rest'
  BY <1>2, GetOwn, SendOwn, AddOwn DEF ThreadStep
<1>3. ASSUME NEW t \in Threads, Call(t) PROVE Rest'
  BY <1>3, CallOwn
<1>4. ASSUME Cleanup \/ Destroy \/ PoolInit \/ ClockAdvances PROVE Rest'
  BY <1>4, LifecycleOwn
<1>5. ASSUME UNCHANGED vars PROVE Rest'
  <2>1. UNCHANGED <<entries, conns, pc, dest, slot, cur>>
    BY <1>5 DEF vars, poolVars, threadVars
  <2>2. Used' = Used
    BY <2>1 DEF Used
  <2> QED BY <2>1, <2>2
          DEF OwnInv, CallerOwns, EntriesOwnConns, CallerHolds, RoomToConnect,
              ConnectsAhead, ConfirmsFirst, Invalidated
<1>6. Rest'
  BY <1>2, <1>3, <1>4, <1>5 DEF Next
<1> QED BY <1>1, <1>6 DEF OwnInv

\* The two invariants together hold in every reachable state, whether or not
\* the caller stops its senders before cspcl_conn_pool_cleanup().
THEOREM PoolInvariant == Spec => [](TypeInv /\ OwnInv)
BY TypeInit, TypeStep, OwnInit, OwnStep, PTL DEF Spec

\* Pool entries own open connections to their own destinations and share them
\* with nobody, whatever the order of sends, additions, cleanups and re-inits.
THEOREM PoolOwnsConns == Spec => []EntriesOwnConns
<1>1. OwnInv => EntriesOwnConns
  BY DEF OwnInv
<1> QED BY <1>1, PoolInvariant, PTL

\* cspcl_pool_get_or_create_locked() never calls csp_connect() while the pool
\* still holds the connection it is about to replace.
THEOREM EvictsBeforeConnect == Spec => []RoomToConnect
<1>1. OwnInv => RoomToConnect
  BY DEF OwnInv
<1> QED BY <1>1, PoolInvariant, PTL

\* When a send fails it is its own connection that is closed, although
\* cspcl_pool_invalidate_locked() only gets the destination.
THEOREM FailureClosesItsConn == Spec => FailedConnClosed
<1> DEFINE A == \A t \in Threads :
                  pc[t] = "confirm" /\ pc'[t] # "confirm" /\ ret'[t] # "NONE"
                    => conns'[cur[t]] = NULL
<1>1. TypeInv /\ OwnInv /\ [Next]_vars => [A]_vars
  <2> SUFFICES ASSUME TypeInv, OwnInv, Next, NEW t \in Threads,
                      pc[t] = "confirm", pc'[t] # "confirm", ret'[t] # "NONE"
               PROVE  conns'[cur[t]] = NULL
    OBVIOUS
  <2>1. ~(Cleanup \/ Destroy \/ PoolInit \/ ClockAdvances)
    BY DEF Cleanup, Destroy, PoolInit, ClockAdvances, threadVars
  <2>2. PICK u \in Threads : ThreadStep(u) \/ Call(u)
    BY <2>1 DEF Next
  <2>3. \A x \in Threads : x # u => pc'[x] = pc[x]
    <3>1. \E l : pc' = [pc EXCEPT ![u] = l]
      <4>1. CASE ThreadStep(u)
        BY <4>1 DEF ThreadStep, SendLock, SendLockFails, GetHit, GetAged,
               GetFree, GetEvict, ConnectOK, ConnectFails, ConfirmOK,
               ConfirmFails, SendUnlock, AddFails, AddCheck, AddStore,
               Goto, Return
      <4>2. CASE Call(u)
        BY <4>2 DEF Call, SendReject, SendCheck, CallerConnects, Goto, Return
      <4> QED BY <2>2, <4>1, <4>2
    <3> QED BY <3>1 DEF TypeInv, TypeOK
  <2>4. u = t
    BY <2>3
  <2>5. ConfirmOK(t) \/ \E r \in {"TIMEDOUT", "OTHER"} : ConfirmFails(t, r)
    BY <2>2, <2>4 DEF ThreadStep, Call, SendLock, SendLockFails, GetHit, GetAged,
       GetFree, GetEvict, ConnectOK, ConnectFails, SendUnlock, AddFails,
       AddCheck, AddStore, SendReject, SendCheck, CallerConnects
  <2>6. ~ConfirmOK(t)
    BY DEF ConfirmOK, TypeInv, TypeOK
  <2>7. CloseEntry(Min(Invalidated(dest[t])))
    BY <2>5, <2>6 DEF ConfirmFails
  <2>8. PICK i \in Invalidated(dest[t]) :
          entries[i].conn = cur[t] /\ \A j \in Invalidated(dest[t]) : i <= j
    BY DEF OwnInv, ConfirmsFirst
  <2>9. /\ Min(Invalidated(dest[t])) \in Invalidated(dest[t])
        /\ \A y \in Invalidated(dest[t]) : Min(Invalidated(dest[t])) <= y
    BY <2>8, FirstSlot DEF Invalidated, Used
  <2>10. Min(Invalidated(dest[t])) = i
    BY <2>8, <2>9 DEF Invalidated, Used, Slots
  <2> QED BY <2>7, <2>8, <2>10, CloseFacts DEF Invalidated, TypeInv, OwnInv
<1> QED BY <1>1, PoolInvariant, PTL DEF Spec, FailedConnClosed

-----------------------------------------------------------------------------
(* No connection is lost, except that a late sender may fill an entry of a   *)
(* cleaned pool that the next cspcl_conn_pool_init() wipes, when the caller  *)
(* does not stop its senders before the cleanup.                             *)

StoppedEmpty ==
    ~initialized => /\ Used = {}
                    /\ \A t \in Threads : pc[t] \in {"idle", "add"}

\* With quiescent cleanup, a pool that is not initialised stays empty and no
\* sender is inside it.
LEMMA StoppedStep ==
    ASSUME QuiescentCleanup, TypeInv, OwnInv, StoppedEmpty, [Next]_vars
    PROVE  StoppedEmpty'
<1>1. ASSUME NEW t \in Threads, ThreadStep(t) PROVE StoppedEmpty'
  <2>1. UNCHANGED initialized
    BY <1>1 DEF ThreadStep, SendLock, SendLockFails, GetHit, GetAged, GetFree,
       GetEvict, ConnectOK, ConnectFails, ConfirmOK, ConfirmFails, SendUnlock,
       AddFails, AddCheck, AddStore, poolVars
  <2>2. CASE initialized
    BY <2>1, <2>2 DEF StoppedEmpty
  <2>3. CASE ~initialized
    <3>1. pc[t] \in {"idle", "add"}
      BY <2>3 DEF StoppedEmpty
    <3>2. AddFails(t, "NOT_INITIALIZED")
      BY <1>1, <2>3, <3>1 DEF ThreadStep, SendLock, SendLockFails, GetHit,
         GetAged, GetFree, GetEvict, ConnectOK, ConnectFails, ConfirmOK,
         ConfirmFails, SendUnlock, AddFails, AddCheck, AddStore
    <3>3. UNCHANGED entries /\ pc' = [pc EXCEPT ![t] = "idle"]
      BY <3>2 DEF AddFails, Return, poolVars
    <3> QED BY <2>1, <2>3, <3>3 DEF StoppedEmpty, Used, TypeInv, TypeOK
  <2> QED BY <2>2, <2>3
<1>2. ASSUME NEW t \in Threads, Call(t) PROVE StoppedEmpty'
  BY <1>2 DEF Call, SendReject, SendCheck, CallerConnects, Goto, Return,
              poolVars, StoppedEmpty, Used, TypeInv, TypeOK
<1>3. CASE Cleanup
  BY <1>3 DEF Cleanup, StoppedEmpty, NobodyInside, Used, Free, threadVars
<1>4. CASE Destroy \/ PoolInit \/ ClockAdvances \/ UNCHANGED vars
  BY <1>4 DEF Destroy, PoolInit, ClockAdvances, StoppedEmpty, Used,
              poolVars, threadVars, vars
<1> QED BY <1>1, <1>2, <1>3, <1>4 DEF Next

\* No step but cspcl_conn_pool_init() on a stopped pool loses a connection.
LEMMA NoLeakStep ==
    ASSUME TypeInv, OwnInv, [Next]_vars,
           NEW c \in Conns, ~Lost(c), ~(~initialized /\ initialized')
    PROVE  ~Lost(c)'
<1> SUFFICES ASSUME conns'[c] # NULL
             PROVE  Owned(c)'
  BY DEF Lost
<1>1. conns[c] # NULL => Owned(c)
  BY DEF Lost
<1>2. ASSUME UNCHANGED <<entries, conns>>,
             \A u \in Threads : pc[u] \in {"add", "addchecked"} =>
                 pc'[u] \in {"add", "addchecked"} /\ cur'[u] = cur[u]
      PROVE  Owned(c)'
  BY <1>1, <1>2 DEF Owned, Used, CallerHolds
<1>3. ASSUME NEW i \in Used, CloseEntry(i),
             \A u \in Threads : pc[u] \in {"add", "addchecked"} =>
                 pc'[u] \in {"add", "addchecked"} /\ cur'[u] = cur[u]
      PROVE  Owned(c)'
  <2>1. /\ Used' = Used \ {i}
        /\ \A j \in Used' : entries'[j] = entries[j]
        /\ conns'[entries[i].conn] = NULL
        /\ \A x \in Conns : x # entries[i].conn => conns'[x] = conns[x]
    BY <1>3, CloseFacts DEF TypeInv, OwnInv
  <2>2. c # entries[i].conn /\ Owned(c)
    BY <1>1, <2>1
  <2> QED BY <1>3, <2>1, <2>2 DEF Owned, CallerHolds
<1>4. ASSUME NEW t \in Threads, ThreadStep(t) PROVE Owned(c)'
  <2>1. CASE SendLock(t) \/ GetFree(t) \/ ConnectFails(t) \/ ConfirmOK(t) \/ AddCheck(t)
    <3>1. UNCHANGED <<entries, conns, cur>> /\ \E l : pc' = [pc EXCEPT ![t] = l]
          /\ (pc[t] \in {"add", "addchecked"} => pc' = [pc EXCEPT ![t] = "addchecked"])
      BY <2>1 DEF SendLock, GetFree, ConnectFails, ConfirmOK, AddCheck, Goto, poolVars
    <3> QED BY <1>2, <3>1 DEF TypeInv, TypeOK
  <2>2. CASE SendLockFails(t) \/ SendUnlock(t)
    <3>1. UNCHANGED <<entries, conns>> /\ pc[t] \notin {"add", "addchecked"}
          /\ \E r : Return(t, r)
      BY <2>2 DEF SendLockFails, SendUnlock, poolVars
    <3> QED BY <1>2, <3>1 DEF Return, TypeInv, TypeOK
  <2>3. CASE GetHit(t)
    <3> DEFINE i == Min(Matches(dest[t]))
    <3>1. entries' = [entries EXCEPT ![i].last_used = NextTick] /\ UNCHANGED conns
          /\ pc[t] = "get" /\ pc' = [pc EXCEPT ![t] = "confirm"]
          /\ \E x : cur' = [cur EXCEPT ![t] = x]
      BY <2>3 DEF GetHit, Goto
    <3> HIDE DEF i
    <3>2. \A j \in Slots : entries'[j].used = entries[j].used
                           /\ entries'[j].conn = entries[j].conn
      BY <3>1 DEF TypeInv, TypeOK, Entry
    <3>3. Used' = Used /\ Used \subseteq Slots
      BY <3>2 DEF Used
    <3>4. \A u \in Threads : pc[u] \in {"add", "addchecked"} =>
              pc'[u] \in {"add", "addchecked"} /\ cur'[u] = cur[u]
      BY <3>1 DEF TypeInv, TypeOK
    <3> QED BY <1>1, <3>1, <3>2, <3>3, <3>4 DEF Owned, CallerHolds
  <2>4. CASE GetAged(t)
    <3>1. Min(Matches(dest[t])) \in Used
      BY <2>4, FirstSlot DEF GetAged, Matches, Used
    <3>2. CloseEntry(Min(Matches(dest[t]))) /\ UNCHANGED cur
          /\ pc[t] = "get" /\ pc' = [pc EXCEPT ![t] = "connect"]
      BY <2>4 DEF GetAged, Goto
    <3> QED BY <1>3, <3>1, <3>2 DEF TypeInv, TypeOK
  <2>5. CASE GetEvict(t)
    <3>1. LruSlot \in Used
      BY <2>5, LruSlotInSlots DEF GetEvict, TypeInv
    <3>2. CloseEntry(LruSlot) /\ UNCHANGED cur
          /\ pc[t] = "get" /\ pc' = [pc EXCEPT ![t] = "connect"]
      BY <2>5 DEF GetEvict, Goto
    <3> QED BY <1>3, <3>1, <3>2 DEF TypeInv, TypeOK
  <2>6. ASSUME NEW r \in {"TIMEDOUT", "OTHER"}, ConfirmFails(t, r) PROVE Owned(c)'
    <3>1. pc[t] = "confirm" /\ CloseEntry(Min(Invalidated(dest[t]))) /\ UNCHANGED cur
          /\ \E l : pc' = [pc EXCEPT ![t] = l]
      BY <2>6 DEF ConfirmFails, Goto
    <3>2. Invalidated(dest[t]) # {}
      BY <3>1 DEF OwnInv, ConfirmsFirst
    <3>3. Min(Invalidated(dest[t])) \in Used
      BY <3>2, FirstSlot DEF Invalidated, Used
    <3> QED BY <1>3, <3>1, <3>3 DEF TypeInv, TypeOK
  <2>7. CASE ConnectOK(t)
    <3>1. PICK x \in Conns :
            /\ conns' = [conns EXCEPT ![x] = dest[t]]
            /\ entries' = [entries EXCEPT ![slot[t]] = Filled(dest[t], x)]
            /\ cur' = [cur EXCEPT ![t] = x]
      BY <2>7 DEF ConnectOK
    <3>2. pc[t] = "connect" /\ pc' = [pc EXCEPT ![t] = "confirm"]
      BY <2>7 DEF ConnectOK, Goto
    <3>3. slot[t] \in Slots \ Used
      BY <3>2 DEF TypeInv, TypeOK, OwnInv, RoomToConnect, Used
    <3>4. /\ Used' = Used \cup {slot[t]} /\ entries'[slot[t]].conn = x
          /\ \A j \in Used : entries'[j] = entries[j]
      BY <3>1, <3>3 DEF Used, Filled, TypeInv, TypeOK
    <3>5. CASE c = x
      BY <3>4, <3>5 DEF Owned
    <3>6. CASE c # x
      <4>1. Owned(c)
        BY <1>1, <3>1, <3>6 DEF TypeInv, TypeOK
      <4>2. \A u \in Threads : pc[u] \in {"add", "addchecked"} =>
                pc'[u] = pc[u] /\ cur'[u] = cur[u]
        BY <3>1, <3>2 DEF TypeInv, TypeOK
      <4> QED BY <3>4, <4>1, <4>2 DEF Owned, CallerHolds
    <3> QED BY <3>5, <3>6
  <2>8. ASSUME NEW r \in {"NOT_INITIALIZED", "CONNECTION"}, AddFails(t, r)
        PROVE  Owned(c)'
    <3>1. conns' = [conns EXCEPT ![cur[t]] = NULL] /\ UNCHANGED entries
          /\ Return(t, r)
      BY <2>8 DEF AddFails, poolVars
    <3>2. c # cur[t] /\ Owned(c)
      BY <1>1, <3>1 DEF TypeInv, TypeOK
    <3>3. Used' = Used
      BY <3>1 DEF Used
    <3>4. \A u \in Threads : u # t => pc'[u] = pc[u] /\ cur'[u] = cur[u]
      BY <3>1 DEF Return, TypeInv, TypeOK
    <3> QED BY <3>1, <3>2, <3>3, <3>4 DEF Owned, CallerHolds
  <2>9. CASE AddStore(t)
    <3> DEFINE e == [Filled(dest[t], cur[t]) EXCEPT !.last_used = NextTick]
               s == IF Used # Slots THEN Min(Slots \ Used) ELSE LruSlot
    <3>1. Return(t, "OK") /\ entries' = [entries EXCEPT ![s] = e]
      BY <2>9, Zenon DEF AddStore
    <3>2. s \in Slots /\ (s \in Used => conns' = [conns EXCEPT ![entries[s].conn] = NULL])
          /\ (s \notin Used => conns' = conns)
      <4>1. CASE Used # Slots
        <5>1. s \in Slots \ Used
          BY <4>1, FirstSlot DEF Used
        <5> QED BY <2>9, <4>1, <5>1 DEF AddStore
      <4>2. CASE Used = Slots
        <5>1. s \in Slots
          BY <4>2, LruSlotInSlots DEF TypeInv
        <5> QED BY <2>9, <4>2, <5>1 DEF AddStore
      <4> QED BY <4>1, <4>2
    <3>3. e.used /\ e.conn = cur[t]
      BY DEF Filled
    <3> HIDE DEF e, s
    <3>4. /\ Used' = Used \cup {s} /\ entries'[s] = e
          /\ \A j \in Used : j # s => entries'[j] = entries[j]
      BY <3>1, <3>2, <3>3 DEF Used, TypeInv, TypeOK
    <3>5. Owned(c) /\ (s \in Used => c # entries[s].conn)
      BY <1>1, <3>2, OwnersHoldConns DEF TypeInv, TypeOK
    <3>6. \A u \in Threads : u # t => pc'[u] = pc[u] /\ cur'[u] = cur[u]
      BY <3>1 DEF Return, TypeInv, TypeOK
    <3> QED BY <3>3, <3>4, <3>5, <3>6 DEF Owned, CallerHolds
  <2> QED BY <1>4, <2>1, <2>2, <2>3, <2>4, <2>5, <2>6, <2>7, <2>8, <2>9 DEF ThreadStep
<1>5. ASSUME NEW t \in Threads, Call(t) PROVE Owned(c)'
  <2>1. CASE UNCHANGED conns
    <3>1. UNCHANGED entries /\ pc[t] = "idle"
      BY <1>5 DEF Call, SendReject, SendCheck, CallerConnects, poolVars
    <3>2. \A u \in Threads : u # t => pc'[u] = pc[u] /\ cur'[u] = cur[u]
      BY <1>5 DEF Call, SendReject, SendCheck, CallerConnects, Goto, Return, TypeInv, TypeOK
    <3> QED BY <1>2, <2>1, <3>1, <3>2
  <2>2. ASSUME NEW d \in Dests, CallerConnects(t, d) PROVE Owned(c)'
    <3>1. PICK x \in Conns : conns' = [conns EXCEPT ![x] = d]
                             /\ cur' = [cur EXCEPT ![t] = x]
      BY <2>2 DEF CallerConnects
    <3>2. pc[t] = "idle" /\ pc' = [pc EXCEPT ![t] = "add"] /\ UNCHANGED entries
      BY <2>2 DEF CallerConnects, Goto, poolVars
    <3>3. Used' = Used
      BY <3>2 DEF Used
    <3>4. CASE c = x
      BY <3>1, <3>2, <3>4 DEF Owned, CallerHolds, TypeInv, TypeOK
    <3>5. CASE c # x
      <4>1. Owned(c)
        BY <1>1, <3>1, <3>5 DEF TypeInv, TypeOK
      <4> QED BY <3>1, <3>2, <3>3, <4>1 DEF Owned, CallerHolds, TypeInv, TypeOK
    <3> QED BY <3>4, <3>5
  <2> QED BY <1>5, <2>1, <2>2 DEF Call, SendReject, SendCheck
<1>6. CASE Cleanup
  <2>1. UNCHANGED <<pc, cur>>
    BY <1>6 DEF Cleanup, threadVars
  <2>2. conns'[c] = IF \E i \in Used : entries[i].conn = c THEN NULL ELSE conns[c]
    BY <1>6 DEF Cleanup
  <2> QED BY <1>1, <2>1, <2>2 DEF Owned, CallerHolds
<1>7. CASE PoolInit
  BY <1>7 DEF PoolInit
<1>8. CASE Destroy \/ ClockAdvances \/ UNCHANGED vars
  BY <1>2, <1>8 DEF Destroy, ClockAdvances, poolVars, threadVars, vars
<1> QED BY <1>4, <1>5, <1>6, <1>7, <1>8 DEF Next

\* Whatever the cleanup overtakes, no step but the next cspcl_conn_pool_init()
\* loses an open connection object of libcsp.
THEOREM PoolLosesNothing == Spec => NoLeak
<1>1. TypeInv /\ OwnInv /\ [Next]_vars
        => [\A c \in Conns :
              Lost(c)' => Lost(c) \/ (~initialized /\ initialized')]_vars
  BY NoLeakStep
<1> QED BY <1>1, PoolInvariant, PTL DEF Spec, NoLeak

\* With a quiescent cleanup cspcl_conn_pool_init() loses none either: every
\* open connection always has its owner.
THEOREM QuiescentPoolLosesNothing ==
    ASSUME QuiescentCleanup
    PROVE  Spec => []NothingLost
<1>1. Init => StoppedEmpty /\ NothingLost
  BY DEF Init, StoppedEmpty, NothingLost, Lost
<1>2. ASSUME TypeInv, OwnInv, StoppedEmpty, NothingLost, [Next]_vars
      PROVE  StoppedEmpty' /\ NothingLost'
  <2>1. StoppedEmpty'
    BY <1>2, StoppedStep
  <2>2. CASE ~(~initialized /\ initialized')
    <3>1. ASSUME NEW c \in Conns PROVE ~Lost(c)'
      BY <1>2, <2>2, <3>1, NoLeakStep DEF NothingLost
    <3> QED BY <2>1, <3>1 DEF NothingLost
  <2>3. CASE ~initialized /\ initialized'
    <3>1. PoolInit
      BY <1>2, <2>3 DEF Next, ThreadStep, Call, SendLock, SendLockFails, GetHit,
         GetAged, GetFree, GetEvict, ConnectOK, ConnectFails, ConfirmOK,
         ConfirmFails, SendUnlock, AddFails, AddCheck, AddStore, SendReject,
         SendCheck, CallerConnects, Cleanup, Destroy, ClockAdvances, poolVars, vars
    <3>2. UNCHANGED <<conns, pc, cur>> /\ Used = {}
      BY <1>2, <2>3, <3>1 DEF PoolInit, StoppedEmpty, threadVars
    <3> QED BY <1>2, <2>1, <3>2 DEF NothingLost, Lost, Owned, CallerHolds
  <2> QED BY <2>2, <2>3
<1> QED BY <1>1, <1>2, PoolInvariant, PTL DEF Spec

-----------------------------------------------------------------------------
(* The age of a reused connection.  The table keeps seconds and the property *)
(* speaks of milliseconds: the two are tied for the entries in use.          *)

BornInv ==
    \A i \in Used :
        /\ entries[i].connected_at = born[entries[i].conn] \div 1000
        /\ born[entries[i].conn] <= clock

\* Whole seconds: an age of at most m seconds, measured between two truncated
\* clock values, is less than m + 1 seconds in milliseconds.
LEMMA SecondsBound ==
    ASSUME NEW now \in Nat, NEW b \in Nat, NEW m \in Nat,
           (now \div 1000) - (b \div 1000) <= m
    PROVE  now - b < 1000 * (m + 1)
<1>1. now < 1000 * (now \div 1000) + 1000 /\ 1000 * (b \div 1000) <= b
      /\ now \div 1000 \in Nat /\ b \div 1000 \in Nat
  OBVIOUS
<1> QED BY <1>1

\* Entries are stamped when they are filled; later uses do not renew the stamp.
LEMMA BornStep ==
    ASSUME TypeInv, OwnInv, BornInv, [Next]_vars
    PROVE  BornInv'
<1>1. ASSUME UNCHANGED <<entries, born>>, clock' \in Nat, clock <= clock'
      PROVE  BornInv'
  <2>1. \A i \in Used : born[entries[i].conn] \in Nat /\ clock \in Nat
    BY OwnersHoldConns DEF TypeInv, TypeOK
  <2>2. Used' = Used
    BY <1>1 DEF Used
  <2> QED BY <1>1, <2>1, <2>2 DEF BornInv
<1>2. ASSUME NEW i \in Used, CloseEntry(i), UNCHANGED <<born, clock>>
      PROVE  BornInv'
  <2>1. Used' = Used \ {i} /\ \A j \in Used' : entries'[j] = entries[j]
    BY <1>2, CloseFacts DEF TypeInv, OwnInv
  <2> QED BY <1>2, <2>1 DEF BornInv
<1>3. ASSUME NEW s \in Slots, NEW c \in Conns, NEW e,
             entries' = [entries EXCEPT ![s] = e], UNCHANGED clock,
             e.conn = c, e.connected_at = Now,
             born' = [born EXCEPT ![c] = clock],
             \A j \in Used : entries[j].conn # c
      PROVE  BornInv'
  <2> SUFFICES ASSUME NEW j \in Used'
               PROVE  /\ entries'[j].connected_at = born'[entries'[j].conn] \div 1000
                      /\ born'[entries'[j].conn] <= clock'
    BY DEF BornInv
  <2>1. CASE j = s
    <3>1. entries'[j] = e /\ born'[c] = clock
      BY <1>3, <2>1 DEF TypeInv, TypeOK
    <3>2. clock \in Nat
      BY DEF TypeInv, TypeOK
    <3> QED BY <1>3, <3>1, <3>2 DEF Now
  <2>2. CASE j # s
    <3>1. entries'[j] = entries[j] /\ j \in Used
      BY <1>3, <2>2 DEF Used, TypeInv, TypeOK
    <3>2. born'[entries[j].conn] = born[entries[j].conn]
      BY <1>3, <3>1, OwnersHoldConns DEF TypeInv, TypeOK
    <3> QED BY <1>3, <3>1, <3>2 DEF BornInv
  <2> QED BY <2>1, <2>2
<1>4. clock \in Nat
  BY DEF TypeInv, TypeOK
<1>5. ASSUME NEW t \in Threads, ThreadStep(t) PROVE BornInv'
  <2>1. CASE SendLock(t) \/ SendLockFails(t) \/ GetFree(t) \/ ConnectFails(t)
             \/ ConfirmOK(t) \/ SendUnlock(t) \/ AddCheck(t)
             \/ \E r \in {"NOT_INITIALIZED", "CONNECTION"} : AddFails(t, r)
    <3>1. UNCHANGED <<entries, born, clock>>
      BY <2>1 DEF SendLock, SendLockFails, GetFree, ConnectFails, ConfirmOK,
                  SendUnlock, AddCheck, AddFails, poolVars
    <3> QED BY <1>1, <1>4, <3>1
  <2>2. CASE GetHit(t)
    <3> DEFINE i == Min(Matches(dest[t]))
    <3>1. entries' = [entries EXCEPT ![i].last_used = NextTick]
          /\ UNCHANGED <<born, clock>>
      BY <2>2 DEF GetHit
    <3> HIDE DEF i
    <3>2. \A j \in Slots : /\ entries'[j].used = entries[j].used
                           /\ entries'[j].conn = entries[j].conn
                           /\ entries'[j].connected_at = entries[j].connected_at
      BY <3>1 DEF TypeInv, TypeOK, Entry
    <3>3. Used' = Used /\ Used \subseteq Slots
      BY <3>2 DEF Used
    <3> QED BY <3>1, <3>2, <3>3 DEF BornInv
  <2>3. CASE GetAged(t)
    <3>1. Min(Matches(dest[t])) \in Used
      BY <2>3, FirstSlot DEF GetAged, Matches, Used
    <3> QED BY <1>2, <2>3, <3>1 DEF GetAged
  <2>4. CASE GetEvict(t)
    <3>1. LruSlot \in Used
      BY <2>4, LruSlotInSlots DEF GetEvict, TypeInv
    <3> QED BY <1>2, <2>4, <3>1 DEF GetEvict
  <2>5. ASSUME NEW r \in {"TIMEDOUT", "OTHER"}, ConfirmFails(t, r) PROVE BornInv'
    <3>1. Invalidated(dest[t]) # {}
      BY <2>5 DEF ConfirmFails, OwnInv, ConfirmsFirst
    <3>2. Min(Invalidated(dest[t])) \in Used
      BY <3>1, FirstSlot DEF Invalidated, Used
    <3> QED BY <1>2, <2>5, <3>2 DEF ConfirmFails
  <2>6. CASE ConnectOK(t)
    <3>1. PICK c \in Conns :
            /\ conns[c] = NULL
            /\ born' = [born EXCEPT ![c] = clock]
            /\ entries' = [entries EXCEPT ![slot[t]] = Filled(dest[t], c)]
      BY <2>6 DEF ConnectOK
    <3>2. \A j \in Used : entries[j].conn # c
      BY <3>1, ClosedIsUnowned
    <3>3. slot[t] \in Slots /\ UNCHANGED clock
      BY <2>6 DEF ConnectOK, TypeInv, TypeOK
    <3>4. Filled(dest[t], c).conn = c /\ Filled(dest[t], c).connected_at = Now
      BY DEF Filled
    <3> QED BY <1>3, <3>1, <3>2, <3>3, <3>4
  <2>7. CASE AddStore(t)
    <3> DEFINE e == [Filled(dest[t], cur[t]) EXCEPT !.last_used = NextTick]
               s == IF Used # Slots THEN Min(Slots \ Used) ELSE LruSlot
    <3>1. entries' = [entries EXCEPT ![s] = e] /\ UNCHANGED clock
          /\ born' = [born EXCEPT ![cur[t]] = clock] /\ pc[t] = "addchecked"
      BY <2>7, Zenon DEF AddStore
    <3>2. s \in Slots
      BY FirstSlot, LruSlotInSlots DEF Used, TypeInv
    <3>3. e.conn = cur[t] /\ e.connected_at = Now
      BY DEF Filled
    <3>4. cur[t] \in Conns /\ \A j \in Used : entries[j].conn # cur[t]
      BY <3>1, OwnersHoldConns DEF OwnInv, EntriesOwnConns, CallerHolds
    <3> HIDE DEF e, s
    <3> QED BY <1>3, <3>1, <3>2, <3>3, <3>4
  <2> QED BY <1>5, <2>1, <2>2, <2>3, <2>4, <2>5, <2>6, <2>7 DEF ThreadStep
<1>6. ASSUME NEW t \in Threads, Call(t) PROVE BornInv'
  <2>1. UNCHANGED <<entries, born, clock>>
    BY <1>6 DEF Call, SendReject, SendCheck, CallerConnects, poolVars
  <2> QED BY <1>1, <1>4, <2>1
<1>7. CASE Cleanup \/ PoolInit
  <2>1. Used' = {}
    BY <1>7 DEF Cleanup, PoolInit, Free, Used
  <2> QED BY <2>1 DEF BornInv
<1>8. CASE Destroy \/ ClockAdvances \/ UNCHANGED vars
  <2>1. UNCHANGED <<entries, born>> /\ clock' \in Nat /\ clock <= clock'
    BY <1>4, <1>8, ConnPoolAssumption DEF Destroy, ClockAdvances, poolVars, vars
  <2> QED BY <1>1, <2>1
<1> QED BY <1>5, <1>6, <1>7, <1>8 DEF Next

\* Reusing a connection does not make it younger, and truncation to seconds
\* lets it live at most one second longer than CSPCL_MAX_CONN_AGE_MS.
THEOREM ReuseAgeBounded == Spec => ReuseAgeInSeconds
<1> DEFINE A == \A t \in Threads :
                  pc[t] = "get" /\ pc'[t] = "confirm" /\ MaxAgeMs > 0
                    => clock - born[cur'[t]] < 1000 * (MaxAgeMs \div 1000 + 1)
<1>1. Init => BornInv
  BY DEF Init, BornInv, Used, Free
<1>2. TypeInv /\ OwnInv /\ BornInv /\ [Next]_vars => BornInv'
  BY BornStep
<1>3. TypeInv /\ OwnInv /\ BornInv /\ [Next]_vars => [A]_vars
  <2> SUFFICES ASSUME TypeInv, OwnInv, BornInv, Next, NEW t \in Threads,
                      pc[t] = "get", pc'[t] = "confirm", MaxAgeMs > 0
               PROVE  clock - born[cur'[t]] < 1000 * (MaxAgeMs \div 1000 + 1)
    OBVIOUS
  <2>1. GetHit(t)
    <3>1. ASSUME NEW u \in Threads, ThreadStep(u) \/ Call(u), u # t
          PROVE  pc'[t] = pc[t]
      BY <3>1 DEF ThreadStep, Call, SendLock, SendLockFails, GetHit, GetAged,
         GetFree, GetEvict, ConnectOK, ConnectFails, ConfirmOK, ConfirmFails,
         SendUnlock, AddFails, AddCheck, AddStore, SendReject, SendCheck,
         CallerConnects, Goto, Return, TypeInv, TypeOK
    <3>2. ~(Cleanup \/ Destroy \/ PoolInit \/ ClockAdvances)
      BY DEF Cleanup, Destroy, PoolInit, ClockAdvances, threadVars
    <3>3. ThreadStep(t) \/ Call(t)
      BY <3>1, <3>2 DEF Next
    <3>4. GetHit(t) \/ GetAged(t) \/ GetFree(t) \/ GetEvict(t)
      BY <3>3 DEF ThreadStep, Call, SendLock, SendLockFails, ConnectOK,
         ConnectFails, ConfirmOK, ConfirmFails, SendUnlock, AddFails,
         AddCheck, AddStore, SendReject, SendCheck, CallerConnects
    <3> QED BY <3>4 DEF GetAged, GetFree, GetEvict, Goto, TypeInv, TypeOK
  <2> DEFINE i == Min(Matches(dest[t]))
  <2>2. i \in Used
    BY <2>1, FirstSlot DEF GetHit, Matches, Used
  <2>3. cur'[t] = entries[i].conn /\ ~Aged(i)
    BY <2>1 DEF GetHit, TypeInv, TypeOK
  <2> HIDE DEF i
  <2>4. /\ entries[i].connected_at = born[entries[i].conn] \div 1000
        /\ born[entries[i].conn] \in Nat /\ clock \in Nat /\ MaxAgeMs \div 1000 \in Nat
    BY <2>2, OwnersHoldConns, ConnPoolAssumption DEF BornInv, TypeInv, TypeOK
  <2>5. (clock \div 1000) - (born[entries[i].conn] \div 1000) <= MaxAgeMs \div 1000
    BY <2>3, <2>4 DEF Aged, Now
  <2> QED BY <2>3, <2>4, <2>5, SecondsBound
<1> QED BY <1>1, <1>2, <1>3, PoolInvariant, PTL DEF Spec, ReuseAgeInSeconds

=============================================================================
