---------------------------- MODULE RxTableProofs ---------------------------
(***************************************************************************)
(* Proofs about the inbound table of cspcl_recv_bundle(), for any table    *)
(* size, any number of peers and any backlog: every open connection has    *)
(* one owner and none is lost, the idlest entry is evicted, and a call     *)
(* returns within its time.                                                *)
(*                                                                         *)
(* RxOwnsConns is almost inductive.  It needs to know that the connections *)
(* in the backlog are open and distinct, and that the table is empty while *)
(* the library is not initialised, or cspcl_init() would lose what it      *)
(* clears.  Eviction needs the order of the ticks (OrderInv), the time a   *)
(* budget: what was spent and what the rest of the scan may spend          *)
(* (BudgetInv).                                                            *)
(***************************************************************************)
EXTENDS RxTable, FiniteSetTheorems, WellFoundedInduction, TLAPS

-----------------------------------------------------------------------------
(* What the scans return *)

\* Every non-empty set of naturals has a least member.
LEMMA LeastNat ==
  ASSUME NEW S, S \subseteq Nat, S # {}
  PROVE  Min(S) \in S /\ \A y \in S : Min(S) <= y
<1>1. PICK x \in S : \A y \in S : ~(<<y, x>> \in OpToRel(<, Nat))
  BY NatLessThanWellFounded, WFMin, Zenon
<1>2. ASSUME NEW y \in S PROVE x <= y
  <2>1. x \in Nat /\ y \in Nat
    OBVIOUS
  <2>2. ~(y < x)
    BY <1>1, <2>1 DEF OpToRel
  <2> QED BY <2>1, <2>2
<1> QED BY <1>2 DEF Min

\* What the proofs need of the types.
ShapeInv ==
    /\ rx_conns \in [Slots -> RxEntry]
    /\ rx_tick \in Nat
    /\ link \in [Conns -> Keys \cup {NULL}]
    /\ backlog \in Seq(Conns)
    /\ start \in Nat /\ pos \in Nat

\* The eviction scan ends on an entry.
LEMMA LeastActiveIsLeast ==
  ASSUME ShapeInv
  PROVE  /\ LeastActive \in Slots
         /\ \A x \in Slots : rx_conns[LeastActive].last_active <= rx_conns[x].last_active
<1> DEFINE ages == {rx_conns[s].last_active : s \in Slots}
           a == Min(ages)
           idle == {s \in Slots : rx_conns[s].last_active = a}
<1>1. ages \subseteq Nat /\ ages # {}
  <2>1. 0 \in Slots
    BY RxAssumption DEF Slots
  <2>2. \A s \in Slots : rx_conns[s].last_active \in Nat
    BY RxAssumption DEF ShapeInv, RxEntry
  <2> QED BY <2>1, <2>2
<1>2. a \in ages /\ \A b \in ages : a <= b
  BY <1>1, LeastNat
<1>3. idle \subseteq Nat /\ idle # {}
  <2>1. PICK s \in Slots : rx_conns[s].last_active = a
    BY <1>2
  <2>2. s \in idle
    BY <2>1
  <2>3. Slots \subseteq Nat
    BY DEF Slots
  <2> QED BY <2>2, <2>3
<1>4. Min(idle) \in idle /\ \A y \in idle : Min(idle) <= y
  BY <1>3, LeastNat
<1>5. ASSUME NEW x \in Slots
      PROVE  \/ rx_conns[Min(idle)].last_active < rx_conns[x].last_active
             \/ /\ rx_conns[Min(idle)].last_active = rx_conns[x].last_active
                /\ Min(idle) <= x
  <2>1. rx_conns[Min(idle)].last_active = a /\ rx_conns[x].last_active \in ages
    BY <1>4
  <2>2. a \in Nat /\ rx_conns[x].last_active \in Nat
        /\ a <= rx_conns[x].last_active
    BY <1>1, <1>2, <2>1
  <2>3. rx_conns[x].last_active = a => Min(idle) <= x
    BY <1>4
  <2> HIDE DEF a, idle, ages
  <2> QED BY <2>1, <2>2, <2>3
<1>6. Min(idle) \in Slots
  BY <1>4
<1> HIDE DEF idle
<1>7. /\ LeastActive \in Slots
      /\ \A x \in Slots :
           \/ rx_conns[LeastActive].last_active < rx_conns[x].last_active
           \/ rx_conns[LeastActive].last_active = rx_conns[x].last_active
                /\ LeastActive <= x
  BY <1>5, <1>6 DEF LeastActive
<1>8. \A x \in Slots : rx_conns[x].last_active \in Nat
  BY RxAssumption DEF ShapeInv, RxEntry
<1> QED BY <1>7, <1>8

\* A connection from k is stored in an entry that is free, or evicted, or k's
\* own; afterwards no other entry is k's.
LEMMA SlotForIsSlot ==
  ASSUME ShapeInv, RxOwnsConns, NEW k
  PROVE  /\ SlotFor(k) \in Slots
         /\ \A x \in Used : x # SlotFor(k) => rx_conns[x].key # k
<1>1. CASE WithKey(k) # {}
  <2>1. WithKey(k) \subseteq Nat /\ WithKey(k) \subseteq Used
    BY DEF WithKey, Used, UsedIn, Slots
  <2>2. SlotFor(k) \in WithKey(k)
    BY <1>1, <2>1, LeastNat DEF SlotFor
  <2> QED BY <2>1, <2>2 DEF WithKey, Used, UsedIn, RxOwnsConns
<1>2. CASE WithKey(k) = {} /\ Used # Slots
  <2>1. Slots \ Used \subseteq Nat /\ Slots \ Used # {}
    BY <1>2 DEF Used, UsedIn, Slots
  <2>2. SlotFor(k) \in Slots \ Used
    BY <1>2, <2>1, LeastNat DEF SlotFor
  <2> QED BY <1>2, <2>2 DEF WithKey
<1>3. CASE WithKey(k) = {} /\ Used = Slots
  BY <1>3, LeastActiveIsLeast DEF SlotFor, WithKey
<1> QED BY <1>1, <1>2, <1>3

\* The scan of a call reads an entry that is used.
LEMMA ScannedIsUsed ==
  ASSUME ShapeInv, Ahead # {}
  PROVE  SlotAt(Min(Ahead)) \in Used
<1>1. Ahead \subseteq Nat
  BY RxAssumption DEF ShapeInv, Ahead
<1>2. Min(Ahead) \in Ahead
  BY <1>1, LeastNat
<1>3. SlotAt(Min(Ahead)) \in Slots
  <2>1. \A a, b \in Nat : (a + b) % TableSize \in 0..(TableSize - 1)
    BY RxAssumption
  <2>2. start \in Nat /\ Min(Ahead) \in Nat
    BY <1>1, <1>2 DEF ShapeInv
  <2> QED BY <2>1, <2>2 DEF SlotAt, Slots
<1>4. rx_conns[SlotAt(Min(Ahead))].used
  BY <1>2 DEF Ahead
<1> QED BY <1>3, <1>4 DEF Used, UsedIn

-----------------------------------------------------------------------------
(* The inductive invariant *)

\* The connections in the backlog are open and distinct.
BacklogInv ==
    /\ \A n \in DOMAIN backlog : link[backlog[n]] # NULL
    /\ \A m, n \in DOMAIN backlog : backlog[m] = backlog[n] => m = n

\* An uninitialised library has an empty table, and no call is in it.
ClearedInv ==
    /\ ~initialized => Used = {}
    /\ pc # "idle" => initialized

RxInv == ShapeInv /\ RxOwnsConns /\ BacklogInv /\ ClearedInv

\* The table is empty.
LEMMA RxInvInit == Init => RxInv
<1> SUFFICES ASSUME Init PROVE RxInv
  OBVIOUS
<1>1. ShapeInv
  BY RxAssumption DEF Init, ShapeInv, RxEntry, Free
<1>2. Used = {}
  BY DEF Init, Used, UsedIn, Free
<1> QED
  BY <1>1, <1>2 DEF Init, RxInv, RxOwnsConns, BacklogInv, ClearedInv, InTable

\* The counter stays a natural number.
LEMMA TickType == rx_tick \in Nat => NextTick \in 0..(TickMod - 1)
  BY RxAssumption DEF NextTick

\* What a used entry holds.
LEMMA UsedEntry ==
  ASSUME ShapeInv, RxOwnsConns, NEW s \in Used
  PROVE  s \in Slots /\ rx_conns[s].conn \in Conns /\ rx_conns[s].key \in Keys
  BY DEF ShapeInv, RxEntry, RxOwnsConns, Used, UsedIn

-----------------------------------------------------------------------------
(* The steps *)

\* The accepted connection is stored; what its entry held is closed.
LEMMA AcceptStep == RxInv /\ AcceptNew => RxInv'
<1> SUFFICES ASSUME RxInv, AcceptNew PROVE RxInv'
  OBVIOUS
<1> DEFINE c == Head(backlog)
           s == SlotFor(link[c])
           old == rx_conns[s].conn
<1>0. ShapeInv /\ RxOwnsConns /\ BacklogInv /\ ClearedInv
  BY DEF RxInv
<1>1. /\ c \in Conns /\ backlog \in Seq(Conns) /\ backlog # <<>>
      /\ 1 \in DOMAIN backlog /\ c = backlog[1]
  BY <1>0 DEF AcceptNew, ShapeInv
<1>2. link[c] \in Keys /\ link[c] # NULL
  BY <1>0, <1>1, RxAssumption DEF ShapeInv, BacklogInv
<1>3. s \in Slots /\ \A x \in Used : x # s => rx_conns[x].key # link[c]
  BY <1>0, SlotForIsSlot
<1>4. \A x \in Used : rx_conns[x].conn # c
  BY <1>0, <1>1 DEF RxOwnsConns
<1>5. /\ rx_conns' = [rx_conns EXCEPT ![s] =
              [used |-> TRUE, conn |-> c, key |-> link[c], last_active |-> NextTick]]
      /\ backlog' = Tail(backlog)
      /\ rx_tick' = NextTick
      /\ start' = StartAt(NextTick) /\ pos' = 0
      /\ UNCHANGED initialized
      /\ link' = IF rx_conns[s].used THEN [link EXCEPT ![old] = NULL] ELSE link
  BY DEF AcceptNew, Tick, BeginScan, Closing
<1>6. NextTick \in 0..(TickMod - 1) /\ StartAt(NextTick) \in Nat
  BY <1>0, TickType, RxAssumption DEF ShapeInv, StartAt
<1>7. s \in Used => old \in Conns /\ old # c
  BY <1>0, <1>4, UsedEntry
<1>8. s \in Used <=> rx_conns[s].used
  BY <1>3 DEF Used, UsedIn
<1> HIDE DEF s, c, old
<1>9. ShapeInv'
  <2>1. rx_conns' \in [Slots -> RxEntry]
    BY <1>0, <1>1, <1>2, <1>3, <1>5, <1>6 DEF ShapeInv, RxEntry
  <2>2. link' \in [Conns -> Keys \cup {NULL}]
    BY <1>0, <1>5 DEF ShapeInv
  <2>3. backlog' \in Seq(Conns)
    BY <1>1, <1>5
  <2> QED BY <1>5, <1>6, <2>1, <2>2, <2>3 DEF ShapeInv
<1>10. \A n \in DOMAIN backlog' : n + 1 \in DOMAIN backlog /\ backlog'[n] = backlog[n + 1]
  BY <1>1, <1>5
<1>11. \A n \in DOMAIN backlog : n # 1 => n - 1 \in DOMAIN backlog' /\ backlog'[n - 1] = backlog[n]
  BY <1>1, <1>5
<1>12. \A n \in DOMAIN backlog' : backlog'[n] # c /\ backlog'[n] \in Conns
  <2> SUFFICES ASSUME NEW n \in DOMAIN backlog'
               PROVE  backlog'[n] # c /\ backlog'[n] \in Conns
    OBVIOUS
  <2>1. n \in Nat /\ n >= 1
    BY <1>1, <1>5
  <2>2. n + 1 # 1 /\ n + 1 \in DOMAIN backlog
    BY <1>10, <2>1
  <2> QED BY <1>0, <1>1, <1>10, <2>2 DEF BacklogInv
<1>13. Used' = Used \cup {s}
  BY <1>0, <1>3, <1>5 DEF Used, UsedIn, ShapeInv
<1>14. /\ \A x \in Used : x # s => rx_conns'[x] = rx_conns[x]
       /\ rx_conns'[s].conn = c /\ rx_conns'[s].key = link[c]
  BY <1>0, <1>3, <1>5 DEF Used, UsedIn, ShapeInv
<1>15. \A x \in Conns : link'[x] = (IF s \in Used /\ x = old THEN NULL ELSE link[x])
  BY <1>0, <1>5, <1>8 DEF ShapeInv
<1>16. BacklogInv'
  <2>1. ASSUME NEW n \in DOMAIN backlog' PROVE link'[backlog'[n]] # NULL
    <3>1. s \in Used => backlog'[n] # old
      BY <1>0, <1>10 DEF RxOwnsConns, old
    <3>2. link[backlog'[n]] # NULL
      BY <1>0, <1>10 DEF BacklogInv
    <3> QED BY <1>12, <1>15, <3>1, <3>2
  <2>2. ASSUME NEW m \in DOMAIN backlog', NEW n \in DOMAIN backlog',
               backlog'[m] = backlog'[n]
        PROVE  m = n
    <3>1. m + 1 = n + 1
      BY <1>0, <1>10, <2>2 DEF BacklogInv
    <3>2. m \in Nat /\ n \in Nat
      BY <1>1, <1>5
    <3> QED BY <3>1, <3>2
  <2> QED BY <2>1, <2>2 DEF BacklogInv
<1>17. RxOwnsConns'
  <2>1. ASSUME NEW x \in Used'
        PROVE  /\ rx_conns'[x].conn # NULL /\ rx_conns'[x].key # NULL
               /\ link'[rx_conns'[x].conn] = rx_conns'[x].key
               /\ \A n \in DOMAIN backlog' : backlog'[n] # rx_conns'[x].conn
    <3>1. CASE x = s
      BY <1>1, <1>2, <1>7, <1>12, <1>14, <1>15, <3>1, RxAssumption
    <3>2. CASE x # s
      <4>1. x \in Used /\ rx_conns'[x] = rx_conns[x] /\ rx_conns[x].conn \in Conns
        BY <1>0, <1>13, <1>14, <3>2, UsedEntry
      <4>2. s \in Used => rx_conns[x].conn # old
        BY <1>0, <3>2, <4>1 DEF RxOwnsConns, old
      <4>3. /\ rx_conns[x].conn # NULL /\ rx_conns[x].key # NULL
            /\ link[rx_conns[x].conn] = rx_conns[x].key
            /\ \A n \in DOMAIN backlog : backlog[n] # rx_conns[x].conn
        BY <1>0, <4>1 DEF RxOwnsConns
      <4> QED BY <1>10, <1>15, <4>1, <4>2, <4>3
    <3> QED BY <3>1, <3>2
  <2>2. ASSUME NEW x \in Used', NEW y \in Used', x # y
        PROVE  rx_conns'[x].conn # rx_conns'[y].conn
               /\ rx_conns'[x].key # rx_conns'[y].key
    <3>1. CASE x = s
      BY <1>3, <1>4, <1>13, <1>14, <2>2, <3>1
    <3>2. CASE y = s
      BY <1>3, <1>4, <1>13, <1>14, <2>2, <3>2
    <3>3. CASE x # s /\ y # s
      BY <1>0, <1>13, <1>14, <2>2, <3>3 DEF RxOwnsConns
    <3> QED BY <3>1, <3>2, <3>3
  <2>3. ASSUME NEW d \in Conns, link'[d] # NULL
        PROVE  (\E x \in Used' : rx_conns'[x].conn = d)
               \/ \E n \in DOMAIN backlog' : backlog'[n] = d
    <3>1. link[d] # NULL /\ ~(s \in Used /\ d = old)
      BY <1>15, <2>3
    <3>2. CASE d = c
      BY <1>13, <1>14, <3>2
    <3>3. CASE \E x \in Used : rx_conns[x].conn = d
      BY <1>13, <1>14, <3>1, <3>3 DEF old
    <3>4. CASE d # c /\ \E n \in DOMAIN backlog : backlog[n] = d
      BY <1>1, <1>11, <3>4
    <3> QED BY <1>0, <3>1, <3>2, <3>3, <3>4 DEF RxOwnsConns, InTable
  <2> QED BY <2>1, <2>2, <2>3 DEF RxOwnsConns, InTable
<1>18. ClearedInv'
  <2>1. initialized
    BY <1>0 DEF ClearedInv, AcceptNew
  <2> QED BY <1>5, <2>1 DEF ClearedInv
<1> QED BY <1>9, <1>16, <1>17, <1>18 DEF RxInv

\* The steps of a call that leave the connections alone.
LEMMA QuietSteps ==
  ASSUME RxInv,
         \/ \E ms \in Timeouts : Call(ms)
         \/ AcceptTimeout \/ AcceptFails \/ ScanEnds \/ ReadTimeout
  PROVE  RxInv'
<1>1. UNCHANGED <<tableVars, initialized, link, backlog>>
  BY DEF Call, AcceptTimeout, AcceptFails, ScanEnds, ReadTimeout, peerVars
<1>2. start' \in Nat /\ pos' \in Nat
  <2>1. CASE \E ms \in Timeouts : Call(ms)
    BY <2>1 DEF Call, RxInv, ShapeInv
  <2>2. CASE AcceptFails \/ ScanEnds
    BY <2>2 DEF AcceptFails, ScanEnds, Return
  <2>3. CASE AcceptTimeout
    BY <2>3, RxAssumption DEF AcceptTimeout, Return, BeginScan, StartAt, RxInv, ShapeInv
  <2>4. CASE ReadTimeout
    <3>1. Ahead \subseteq Nat /\ Ahead # {}
      BY <2>4, RxAssumption DEF ReadTimeout, Ahead, RxInv, ShapeInv
    <3>2. Min(Ahead) \in Nat
      BY <3>1, LeastNat
    <3> QED BY <2>4, <3>2 DEF ReadTimeout, RxInv, ShapeInv
  <2> QED BY <2>1, <2>2, <2>3, <2>4
<1>3. pc' # "idle" => initialized
  BY DEF Call, AcceptTimeout, AcceptFails, ScanEnds, ReadTimeout, Return,
         BeginScan, RxInv, ClearedInv
<1>4. ShapeInv'
  BY <1>1, <1>2 DEF RxInv, ShapeInv, tableVars
<1>5. RxOwnsConns' /\ BacklogInv'
  BY <1>1 DEF RxInv, RxOwnsConns, BacklogInv, InTable, Used, UsedIn, tableVars
<1>6. ClearedInv'
  BY <1>1, <1>3 DEF RxInv, ClearedInv, Used, UsedIn, tableVars
<1> QED BY <1>4, <1>5, <1>6 DEF RxInv

\* A bundle is read: only the entry's activity changes.
LEMMA ReadStep == RxInv /\ ReadOK => RxInv'
<1> SUFFICES ASSUME RxInv, ReadOK PROVE RxInv'
  OBVIOUS
<1> DEFINE s == SlotAt(Min(Ahead))
<1>1. s \in Used /\ s \in Slots
  BY ScannedIsUsed DEF RxInv, ReadOK, Used, UsedIn
<1>2. NextTick \in 0..(TickMod - 1)
  BY TickType DEF RxInv, ShapeInv
<1>3. /\ rx_conns' = [rx_conns EXCEPT ![s].last_active = NextTick]
      /\ UNCHANGED <<initialized, link, backlog>>
      /\ rx_tick' = NextTick /\ pc' = "idle" /\ start' = 0 /\ pos' = 0
  BY DEF ReadOK, Tick, Return
<1> HIDE DEF s
<1>4. ShapeInv'
  <2>1. rx_conns' \in [Slots -> RxEntry]
    BY <1>1, <1>2, <1>3 DEF RxInv, ShapeInv, RxEntry
  <2>2. NextTick \in Nat
    BY <1>2
  <2> QED BY <1>3, <2>1, <2>2 DEF RxInv, ShapeInv
<1>5. \A x \in Slots : /\ rx_conns'[x].used = rx_conns[x].used
                       /\ rx_conns'[x].conn = rx_conns[x].conn
                       /\ rx_conns'[x].key = rx_conns[x].key
  BY <1>1, <1>3 DEF RxInv, ShapeInv, RxEntry
<1>6. Used' = Used /\ Used \subseteq Slots
  BY <1>5 DEF Used, UsedIn
<1>7. RxOwnsConns'
  BY <1>3, <1>5, <1>6 DEF RxInv, RxOwnsConns, InTable
<1> QED BY <1>3, <1>4, <1>6, <1>7 DEF RxInv, BacklogInv, ClearedInv

\* A connection that failed is closed and its entry freed.
LEMMA ErrorStep == RxInv /\ ReadError => RxInv'
<1> SUFFICES ASSUME RxInv, ReadError PROVE RxInv'
  OBVIOUS
<1> DEFINE s == SlotAt(Min(Ahead))
           c == rx_conns[s].conn
<1>0. ShapeInv /\ RxOwnsConns /\ BacklogInv /\ ClearedInv
  BY DEF RxInv
<1>1. s \in Used /\ s \in Slots /\ c \in Conns
  BY <1>0, ScannedIsUsed, UsedEntry DEF ReadError
<1>2. /\ rx_conns' = [rx_conns EXCEPT ![s] = Free]
      /\ link' = [link EXCEPT ![c] = NULL]
      /\ UNCHANGED <<rx_tick, initialized, backlog, pc, start>>
  BY <1>1 DEF ReadError, Closing, Used, UsedIn
<1>3. pos' \in Nat
  <2>1. Ahead \subseteq Nat /\ Ahead # {}
    BY <1>0, RxAssumption DEF ReadError, Ahead, ShapeInv
  <2>2. Min(Ahead) \in Nat
    BY <2>1, LeastNat
  <2> QED BY <2>2 DEF ReadError
<1>4. \A x \in Used : x # s => rx_conns[x].conn # c
  BY <1>0, <1>1 DEF RxOwnsConns
<1>5. \A n \in DOMAIN backlog : backlog[n] # c
  BY <1>0, <1>1 DEF RxOwnsConns
<1>6. rx_conns[s].conn = c
  OBVIOUS
<1> HIDE DEF s, c
<1>7. ShapeInv'
  BY <1>0, <1>1, <1>2, <1>3, RxAssumption DEF ShapeInv, RxEntry, Free
<1>8. Used' = Used \ {s} /\ \A x \in Used' : rx_conns'[x] = rx_conns[x]
  BY <1>0, <1>1, <1>2 DEF ShapeInv, Used, UsedIn, Free
<1>9. \A d \in Conns : link'[d] = (IF d = c THEN NULL ELSE link[d])
  BY <1>0, <1>2 DEF ShapeInv
<1>10. \A n \in DOMAIN backlog : backlog[n] \in Conns
  BY <1>0 DEF ShapeInv
<1>11. BacklogInv'
  BY <1>0, <1>2, <1>5, <1>9, <1>10 DEF BacklogInv
<1>12. RxOwnsConns'
  <2>1. \A x \in Used' : rx_conns[x].conn \in Conns /\ rx_conns[x].conn # c
    BY <1>0, <1>4, <1>8, UsedEntry
  <2>2. ASSUME NEW d \in Conns, link'[d] # NULL
        PROVE  (\E x \in Used' : rx_conns'[x].conn = d)
               \/ \E n \in DOMAIN backlog' : backlog'[n] = d
    <3>1. d # c /\ link[d] # NULL
      BY <1>9, <2>2
    <3> QED BY <1>0, <1>2, <1>6, <1>8, <3>1 DEF RxOwnsConns, InTable
  <2> QED BY <1>0, <1>2, <1>8, <1>9, <2>1, <2>2 DEF RxOwnsConns, InTable
<1>13. ClearedInv'
  BY <1>0, <1>2, <1>8 DEF ClearedInv
<1> QED BY <1>7, <1>11, <1>12, <1>13 DEF RxInv

\* cspcl_cleanup() closes the table's connections, cspcl_init() finds none.
LEMMA LifecycleSteps == RxInv /\ (Cleanup \/ Reinit) => RxInv'
<1> SUFFICES ASSUME RxInv, Cleanup \/ Reinit PROVE RxInv'
  OBVIOUS
<1>0. ShapeInv /\ RxOwnsConns /\ BacklogInv /\ ClearedInv
  BY DEF RxInv
<1>1. rx_conns' = [s \in Slots |-> Free] /\ UNCHANGED <<backlog, callVars>>
  BY DEF Cleanup, Reinit, peerVars
<1>2. Used' = {}
  BY <1>1 DEF Used, UsedIn, Free
<1>3. link' = [c \in Conns |-> IF InTable(c) THEN NULL ELSE link[c]]
  <2>1. CASE Cleanup
    BY <2>1 DEF Cleanup
  <2>2. CASE Reinit
    <3>1. Used = {}
      BY <1>0, <2>2 DEF Reinit, ClearedInv
    <3>2. link' = link /\ \A c \in Conns : ~InTable(c)
      BY <2>2, <3>1 DEF Reinit, InTable, peerVars
    <3> QED BY <1>0, <3>2 DEF ShapeInv
  <2> QED BY <2>1, <2>2
<1>4. rx_tick' \in Nat /\ (pc' # "idle" => initialized')
  BY <1>0 DEF Cleanup, Reinit, ShapeInv, ClearedInv, callVars
<1>5. ShapeInv'
  BY <1>0, <1>1, <1>3, <1>4, RxAssumption DEF ShapeInv, RxEntry, Free, callVars
<1>6. \A n \in DOMAIN backlog : backlog[n] \in Conns /\ ~InTable(backlog[n])
  BY <1>0 DEF ShapeInv, RxOwnsConns, InTable
<1>7. BacklogInv'
  BY <1>0, <1>1, <1>3, <1>6 DEF BacklogInv
<1>8. RxOwnsConns'
  BY <1>0, <1>1, <1>2, <1>3 DEF RxOwnsConns, InTable
<1> QED BY <1>2, <1>4, <1>5, <1>7, <1>8 DEF RxInv, ClearedInv

\* The peers.
LEMMA PeerSteps == RxInv /\ PeerStep => RxInv'
<1> SUFFICES ASSUME RxInv, PeerStep PROVE RxInv'
  OBVIOUS
<1>0. ShapeInv /\ RxOwnsConns /\ BacklogInv /\ ClearedInv
  BY DEF RxInv
<1>1. ASSUME NEW c \in Conns, NEW x, PeerSends(c, x) PROVE RxInv'
  BY <1>0, <1>1
  DEF PeerSends, RxInv, ShapeInv, RxOwnsConns, BacklogInv, ClearedInv, InTable,
      Used, UsedIn, tableVars, callVars
<1>2. ASSUME NEW c \in Conns, NEW k \in Keys, PeerConnects(k, c) PROVE RxInv'
  <2>1. /\ link[c] = NULL /\ link' = [link EXCEPT ![c] = k]
        /\ backlog' = Append(backlog, c)
        /\ UNCHANGED <<tableVars, initialized, callVars>>
    BY <1>2 DEF PeerConnects
  <2>2. k # NULL
    BY RxAssumption
  <2>3. ShapeInv'
    BY <1>0, <2>1 DEF ShapeInv, tableVars, callVars
  <2>4. \A d \in Conns : link'[d] = (IF d = c THEN k ELSE link[d])
    BY <1>0, <2>1 DEF ShapeInv
  <2>5. /\ DOMAIN backlog' = DOMAIN backlog \cup {Len(backlog) + 1}
        /\ \A n \in DOMAIN backlog : backlog'[n] = backlog[n] /\ backlog[n] \in Conns
        /\ backlog'[Len(backlog) + 1] = c
    BY <1>0, <2>1 DEF ShapeInv
  <2>6. Used' = Used /\ rx_conns' = rx_conns
    BY <2>1 DEF Used, UsedIn, tableVars
  <2>7. \A n \in DOMAIN backlog : backlog[n] # c
    BY <1>0, <2>1 DEF BacklogInv
  <2>8. \A s \in Used : rx_conns[s].conn \in Conns /\ rx_conns[s].conn # c
    BY <1>0, <2>1, UsedEntry DEF RxOwnsConns
  <2>9. BacklogInv'
    BY <1>0, <2>2, <2>4, <2>5, <2>7 DEF BacklogInv
  <2>10. RxOwnsConns'
    BY <1>0, <2>4, <2>5, <2>6, <2>8 DEF RxOwnsConns, InTable
  <2> QED BY <1>0, <2>1, <2>3, <2>6, <2>9, <2>10 DEF RxInv, ClearedInv, callVars
<1> QED BY <1>1, <1>2 DEF PeerStep

\* Every step.
LEMMA RxInvNext == RxInv /\ [Next]_vars => RxInv'
<1>1. RxInv /\ UNCHANGED vars => RxInv'
  BY DEF vars, tableVars, peerVars, callVars, RxInv, ShapeInv, RxOwnsConns,
         BacklogInv, ClearedInv, InTable, Used, UsedIn
<1>2. RxInv /\ Next => RxInv'
  BY AcceptStep, QuietSteps, ReadStep, ErrorStep, LifecycleSteps, PeerSteps
  DEF Next, CallStep
<1> QED BY <1>1, <1>2

\* Along every behaviour.
LEMMA RxInvAlways == Spec => []RxInv
  BY RxInvInit, RxInvNext, PTL DEF Spec

\* Replacement, eviction, read errors, cleanup and initialisation leave every
\* open inbound connection with exactly one owner, its entry or the backlog.
THEOREM RxTableOwnsConns == Spec => []RxOwnsConns
  BY RxInvAlways, PTL DEF RxInv

-----------------------------------------------------------------------------
(* Who is evicted *)

\* While the counter has not wrapped, it is ahead of every entry, and the
\* entries' ticks are in the order in which their connections were active.
OrderInv ==
    /\ rx_tick \in 0..(TickMod - 1)
    /\ \A s \in Slots : ~rx_conns[s].used => rx_conns[s].conn = NULL
    /\ ~wrapped =>
         /\ \A s \in Used : rx_conns[s].last_active <= rx_tick
         /\ \A s, x \in Used : s # x =>
              /\ rx_conns[s].last_active # rx_conns[x].last_active
              /\ rx_conns[s].last_active < rx_conns[x].last_active =>
                   rx_conns[x].conn \in since[rx_conns[s].conn]

\* The counter goes up by one until it wraps.
LEMMA TickGoesUp ==
  ASSUME rx_tick \in 0..(TickMod - 1), NextTick # 0
  PROVE  NextTick = rx_tick + 1
<1>1. TickMod \in Nat /\ TickMod > 0 /\ rx_tick \in Nat
  BY RxAssumption
<1>2. CASE rx_tick + 1 < TickMod
  BY <1>1, <1>2 DEF NextTick
<1>3. CASE rx_tick + 1 = TickMod
  BY <1>1, <1>3 DEF NextTick
<1> QED BY <1>1, <1>2, <1>3

\* One entry becomes active, the others stay as they are.
LEMMA OrderActive ==
  ASSUME RxInv, OrderInv, NEW s \in Slots, NEW c \in Conns, NEW G,
         rx_tick' = NextTick, wrapped' = (wrapped \/ NextTick = 0),
         since' = Since({c}, G),
         \A x \in Slots : x # s => rx_conns'[x] = rx_conns[x],
         rx_conns'[s].used, rx_conns'[s].conn = c,
         rx_conns'[s].last_active = NextTick,
         \A x \in Used : x # s => rx_conns[x].conn # c /\ rx_conns[x].conn \notin G
  PROVE  OrderInv'
<1>1. Used' = Used \cup {s} /\ Used \subseteq Slots
  BY DEF Used, UsedIn
<1>2. \A x \in Used : rx_conns[x].conn \in Conns
  BY UsedEntry DEF RxInv
<1>3. rx_tick' \in 0..(TickMod - 1)
  BY TickType, RxAssumption DEF OrderInv
<1>4. \A x \in Slots : rx_conns[x].last_active \in Nat
  BY RxAssumption DEF RxInv, ShapeInv, RxEntry
<1>5. \A x \in Slots : ~rx_conns'[x].used => rx_conns'[x].conn = NULL
  BY DEF OrderInv
<1>6. ASSUME ~wrapped'
      PROVE  /\ \A x \in Used' : rx_conns'[x].last_active <= rx_tick'
             /\ \A x, y \in Used' : x # y =>
                  /\ rx_conns'[x].last_active # rx_conns'[y].last_active
                  /\ rx_conns'[x].last_active < rx_conns'[y].last_active =>
                       rx_conns'[y].conn \in since'[rx_conns'[x].conn]
  <2>0. ~(wrapped \/ NextTick = 0)
    BY <1>6, Zenon
  <2>1. NextTick = rx_tick + 1 /\ rx_tick \in Nat /\ ~wrapped
    BY <2>0, TickGoesUp DEF OrderInv
  <2>2. \A x \in Used : x # s => /\ rx_conns'[x].last_active \in Nat
                                 /\ rx_conns'[x].last_active < NextTick
    BY <1>1, <1>4, <2>1 DEF OrderInv
  <2>3. \A x \in Used' : rx_conns'[x].last_active <= rx_tick'
    BY <1>1, <2>1, <2>2
  <2>4. ASSUME NEW x \in Used', NEW y \in Used', x # y
        PROVE  /\ rx_conns'[x].last_active # rx_conns'[y].last_active
               /\ rx_conns'[x].last_active < rx_conns'[y].last_active =>
                    rx_conns'[y].conn \in since'[rx_conns'[x].conn]
    <3>1. CASE x = s
      <4>1. y \in Used /\ y # s
        BY <1>1, <2>4, <3>1
      <4>2. rx_conns'[y].last_active < rx_conns'[x].last_active
        BY <2>2, <3>1, <4>1
      <4>3. rx_conns'[y].last_active \in Nat /\ rx_conns'[x].last_active \in Nat
        BY <2>1, <2>2, <3>1, <4>1
      <4> QED BY <4>2, <4>3
    <3>2. CASE x # s
      <4>1. x \in Used /\ rx_conns'[x] = rx_conns[x] /\ rx_conns[x].conn \in Conns
        BY <1>1, <1>2, <3>2
      <4>2. InTable(rx_conns[x].conn) /\ rx_conns[x].conn \notin {c} \cup G
        BY <3>2, <4>1 DEF InTable
      <4>3. since'[rx_conns[x].conn] = (since[rx_conns[x].conn] \ G) \cup {c}
        BY <4>1, <4>2 DEF Since
      <4>4. CASE y = s
        BY <2>1, <2>2, <3>2, <4>1, <4>3, <4>4
      <4>5. CASE y # s
        <5>1. y \in Used /\ rx_conns'[y] = rx_conns[y] /\ rx_conns[y].conn \notin G
          BY <1>1, <4>5
        <5> QED BY <2>1, <2>4, <4>1, <4>3, <5>1 DEF OrderInv
      <4> QED BY <4>4, <4>5
    <3> QED BY <3>1, <3>2
  <2> QED BY <2>3, <2>4
<1> QED BY <1>3, <1>5, <1>6 DEF OrderInv

\* No entry becomes active, the connections of G leave the table.
LEMMA OrderLeaves ==
  ASSUME RxInv, OrderInv, NEW G,
         rx_tick' = rx_tick, wrapped' = wrapped,
         Used' \subseteq Used,
         \A x \in Used' : rx_conns'[x] = rx_conns[x] /\ rx_conns[x].conn \notin G,
         \A x \in Slots : ~rx_conns'[x].used => rx_conns'[x].conn = NULL,
         since' = since \/ since' = Since({}, G)
  PROVE  OrderInv'
<1>1. ASSUME NEW x \in Used', NEW y \in Used',
             rx_conns[y].conn \in since[rx_conns[x].conn]
      PROVE  rx_conns[y].conn \in since'[rx_conns[x].conn]
  <2>1. CASE since' = since
    BY <1>1, <2>1
  <2>2. CASE since' = Since({}, G)
    <3>1. rx_conns[x].conn \in Conns /\ InTable(rx_conns[x].conn)
      BY UsedEntry DEF RxInv, InTable
    <3>2. since'[rx_conns[x].conn] = since[rx_conns[x].conn] \ G
      BY <2>2, <3>1 DEF Since
    <3> QED BY <1>1, <3>2
  <2> QED BY <2>1, <2>2
<1>2. ~wrapped =>
        /\ \A s \in Used' : rx_conns'[s].last_active <= rx_tick
        /\ \A s, x \in Used' : s # x =>
             /\ rx_conns'[s].last_active # rx_conns'[x].last_active
             /\ rx_conns'[s].last_active < rx_conns'[x].last_active =>
                  rx_conns'[x].conn \in since'[rx_conns'[s].conn]
  BY <1>1 DEF OrderInv
<1> QED BY <1>2 DEF OrderInv

\* No connection has been active.
LEMMA OrderInit == Init => OrderInv
<1> SUFFICES ASSUME Init PROVE OrderInv
  OBVIOUS
<1>1. Used = {}
  BY DEF Init, Used, UsedIn, Free
<1> QED BY <1>1, RxAssumption DEF Init, OrderInv, Free

\* Every step.
LEMMA OrderNext == RxInv /\ OrderInv /\ [Next]_vars => OrderInv'
<1> SUFFICES ASSUME RxInv, OrderInv, [Next]_vars PROVE OrderInv'
  OBVIOUS
<1>0. ShapeInv /\ RxOwnsConns /\ BacklogInv /\ ClearedInv
  BY DEF RxInv
<1>1. CASE AcceptNew
  <2> DEFINE c == Head(backlog)
             s == SlotFor(link[c])
             G == {rx_conns[s].conn}
  <2>1. c \in Conns /\ 1 \in DOMAIN backlog /\ c = backlog[1]
    BY <1>0, <1>1 DEF AcceptNew, ShapeInv
  <2>2. s \in Slots
    BY <1>0, SlotForIsSlot
  <2>3. \A x \in Used : x # s => rx_conns[x].conn # c
    BY <1>0, <2>1 DEF RxOwnsConns
  <2>4. \A x \in Used : x # s => rx_conns[x].conn \notin G
    <3>1. CASE s \in Used
      BY <1>0, <3>1 DEF RxOwnsConns
    <3>2. CASE s \notin Used
      <4>1. rx_conns[s].conn = NULL
        BY <2>2, <3>2 DEF OrderInv, Used, UsedIn
      <4> QED BY <1>0, <4>1 DEF RxOwnsConns
    <3> QED BY <3>1, <3>2
  <2>5. /\ rx_conns' = [rx_conns EXCEPT ![s] =
              [used |-> TRUE, conn |-> c, key |-> link[c], last_active |-> NextTick]]
        /\ since' = Since({c}, G)
        /\ rx_tick' = NextTick /\ wrapped' = (wrapped \/ NextTick = 0)
    BY <1>1 DEF AcceptNew, Tick
  <2> HIDE DEF s, c, G
  <2>6. /\ \A x \in Slots : x # s => rx_conns'[x] = rx_conns[x]
        /\ rx_conns'[s].used /\ rx_conns'[s].conn = c
        /\ rx_conns'[s].last_active = NextTick
    BY <1>0, <2>2, <2>5 DEF ShapeInv
  <2> QED BY <2>1, <2>2, <2>3, <2>4, <2>5, <2>6, OrderActive
<1>2. CASE ReadOK
  <2> DEFINE s == SlotAt(Min(Ahead))
             c == rx_conns[s].conn
  <2>1. s \in Used /\ s \in Slots /\ c \in Conns
    BY <1>0, <1>2, ScannedIsUsed, UsedEntry DEF ReadOK
  <2>2. \A x \in Used : x # s => rx_conns[x].conn # c
    BY <1>0, <2>1 DEF RxOwnsConns
  <2>3. /\ rx_conns' = [rx_conns EXCEPT ![s].last_active = NextTick]
        /\ since' = Since({c}, {})
        /\ rx_tick' = NextTick /\ wrapped' = (wrapped \/ NextTick = 0)
    BY <1>2 DEF ReadOK, Tick
  <2>4. rx_conns[s].used /\ rx_conns[s].conn = c
    BY <2>1 DEF Used, UsedIn
  <2> HIDE DEF s, c
  <2>5. /\ \A x \in Slots : x # s => rx_conns'[x] = rx_conns[x]
        /\ rx_conns'[s].used /\ rx_conns'[s].conn = c
        /\ rx_conns'[s].last_active = NextTick
    BY <1>0, <2>1, <2>3, <2>4 DEF ShapeInv, RxEntry
  <2>6. \A x \in Used : rx_conns[x].conn \notin {}
    OBVIOUS
  <2> QED BY <2>1, <2>2, <2>3, <2>5, <2>6, OrderActive
<1>3. CASE ReadError
  <2> DEFINE s == SlotAt(Min(Ahead))
             G == {rx_conns[s].conn}
  <2>1. s \in Used /\ s \in Slots
    BY <1>0, <1>3, ScannedIsUsed, UsedEntry DEF ReadError
  <2>2. /\ rx_conns' = [rx_conns EXCEPT ![s] = Free]
        /\ since' = Since({}, G) /\ rx_tick' = rx_tick /\ wrapped' = wrapped
    BY <1>3 DEF ReadError
  <2>3. \A x \in Used : x # s => rx_conns[x].conn \notin G
    BY <1>0, <2>1 DEF RxOwnsConns
  <2> HIDE DEF s, G
  <2>4. /\ \A x \in Used' : x \in Used /\ x # s /\ rx_conns'[x] = rx_conns[x]
        /\ \A x \in Slots : ~rx_conns'[x].used => rx_conns'[x].conn = NULL
    BY <1>0, <2>1, <2>2 DEF ShapeInv, Used, UsedIn, Free, OrderInv
  <2> QED BY <2>2, <2>3, <2>4, OrderLeaves
<1>4. CASE Cleanup \/ Reinit
  <2>1. Used' = {} /\ \A x \in Slots : rx_conns'[x].conn = NULL
    BY <1>4 DEF Cleanup, Reinit, Used, UsedIn, Free
  <2>2. rx_tick' \in 0..(TickMod - 1)
    BY <1>4, RxAssumption DEF Cleanup, Reinit, OrderInv
  <2> QED BY <2>1, <2>2 DEF OrderInv
<1>5. CASE \/ UNCHANGED vars \/ PeerStep \/ AcceptTimeout \/ AcceptFails
           \/ ReadTimeout \/ ScanEnds \/ \E ms \in Timeouts : Call(ms)
  <2>1. UNCHANGED <<rx_conns, rx_tick, since, wrapped>>
    BY <1>5 DEF vars, tableVars, histVars, PeerStep, PeerConnects, PeerSends,
                AcceptTimeout, AcceptFails, ReadTimeout, ScanEnds, Call
  <2> QED BY <2>1 DEF OrderInv, Used, UsedIn
<1> QED BY <1>1, <1>2, <1>3, <1>4, <1>5 DEF Next, CallStep

\* Along every behaviour.
LEMMA OrderAlways == Spec => []OrderInv
  BY OrderInit, OrderNext, RxInvAlways, PTL DEF Spec

\* A connection is given up for another peer's only when the table is full, and
\* then it is the one that was idle for longest, as long as the 32-bit counter
\* has not wrapped.
THEOREM IdlestIsEvicted == Spec => EvictsIdlest
<1>1. RxInv /\ OrderInv /\ [Next]_vars =>
        [\A s \in Used :
           /\ rx_conns'[s].used /\ rx_conns'[s].key # rx_conns[s].key
           /\ ~wrapped'
           => /\ Used = Slots
              /\ \A x \in Used \ {s} :
                   rx_conns[x].conn \in since[rx_conns[s].conn]]_vars
  <2> SUFFICES ASSUME RxInv, OrderInv, Next, NEW s \in Used, rx_conns'[s].used,
                      rx_conns'[s].key # rx_conns[s].key, ~wrapped'
               PROVE  /\ Used = Slots
                      /\ \A x \in Used \ {s} :
                           rx_conns[x].conn \in since[rx_conns[s].conn]
    BY DEF vars, tableVars
  <2>0. /\ s \in Slots /\ ShapeInv /\ RxOwnsConns
        /\ \A x \in Slots : rx_conns[x].last_active \in Nat
    BY RxAssumption DEF RxInv, ShapeInv, RxEntry, Used, UsedIn
  <2>1. AcceptNew
    <3>1. ~ReadOK
      <4>1. ReadOK => \E x : rx_conns' = [rx_conns EXCEPT ![x].last_active = NextTick]
        BY DEF ReadOK
      <4> QED BY <2>0, <4>1 DEF ShapeInv, RxEntry
    <3>2. ~ReadError
      <4>1. ReadError => \E x : rx_conns' = [rx_conns EXCEPT ![x] = Free]
        BY DEF ReadError
      <4> QED BY <2>0, <4>1 DEF ShapeInv, Free
    <3>3. ~Cleanup /\ ~Reinit
      BY <2>0 DEF Cleanup, Reinit, Free
    <3>4. rx_conns' # rx_conns
      OBVIOUS
    <3>5. ~PeerStep /\ ~AcceptTimeout /\ ~AcceptFails /\ ~ReadTimeout /\ ~ScanEnds
          /\ ~\E ms \in Timeouts : Call(ms)
      BY <3>4 DEF tableVars, PeerStep, PeerConnects, PeerSends, AcceptTimeout,
                  AcceptFails, ReadTimeout, ScanEnds, Call
    <3> QED BY <3>1, <3>2, <3>3, <3>5 DEF Next, CallStep
  <2> DEFINE k == link[Head(backlog)]
  <2>2. /\ rx_conns' = [rx_conns EXCEPT ![SlotFor(k)] =
              [used |-> TRUE, conn |-> Head(backlog), key |-> k,
               last_active |-> NextTick]]
        /\ ~wrapped
    BY <2>1 DEF AcceptNew, Tick
  <2> HIDE DEF k
  <2>3. s = SlotFor(k) /\ rx_conns[s].key # k
    BY <2>0, <2>2 DEF ShapeInv
  <2>4. WithKey(k) = {}
    <3>1. WithKey(k) \subseteq Nat
      BY DEF WithKey, Used, UsedIn, Slots
    <3>2. WithKey(k) # {} => SlotFor(k) \in WithKey(k)
      BY <3>1, LeastNat DEF SlotFor
    <3> QED BY <2>3, <3>2 DEF WithKey
  <2>5. Used = Slots
    <3>1. Slots \ Used \subseteq Nat
      BY DEF Slots
    <3>2. Slots \ Used # {} => Min(Slots \ Used) \in Slots \ Used
      BY <3>1, LeastNat
    <3>3. Used # Slots => SlotFor(k) \in Slots \ Used
      BY <2>4, <3>2 DEF SlotFor, Used, UsedIn
    <3> QED BY <2>3, <3>3
  <2>6. s = LeastActive
    BY <2>3, <2>4, <2>5 DEF SlotFor
  <2>7. \A x \in Slots : rx_conns[s].last_active <= rx_conns[x].last_active
    BY <2>0, <2>6, LeastActiveIsLeast
  <2>8. ASSUME NEW x \in Used \ {s}
        PROVE  rx_conns[x].conn \in since[rx_conns[s].conn]
    <3>1. rx_conns[s].last_active # rx_conns[x].last_active
      BY <2>2, <2>8 DEF OrderInv
    <3>2. rx_conns[s].last_active < rx_conns[x].last_active
      BY <2>0, <2>5, <2>7, <2>8, <3>1
    <3> QED BY <2>2, <2>8, <3>2 DEF OrderInv
  <2> QED BY <2>5, <2>8
<1> QED BY <1>1, RxInvAlways, OrderAlways, PTL DEF Spec, EvictsIdlest

-----------------------------------------------------------------------------
(* How long a call waits *)

\* Sets of slots are finite and no larger than the table.
LEMMA SlotSets ==
  ASSUME NEW T \in SUBSET Slots, NEW S \in SUBSET T
  PROVE  /\ IsFiniteSet(S) /\ IsFiniteSet(T)
         /\ Cardinality(S) \in Nat /\ Cardinality(T) \in Nat
         /\ Cardinality(S) <= Cardinality(T) /\ Cardinality(T) <= TableSize
<1>1. IsFiniteSet(Slots) /\ Cardinality(Slots) = TableSize
  BY FS_Interval, RxAssumption DEF Slots
<1> QED BY <1>1, FS_Subset, FS_CardinalityType

\* The scan passes each entry once.
LEMMA ScanPassesOnce ==
  ASSUME NEW st \in Slots, NEW a \in Slots, NEW b \in Slots,
         (st + a) % TableSize = (st + b) % TableSize
  PROVE  a = b
<1> DEFINE T == TableSize
<1>1. T \in Nat /\ T > 0
  BY RxAssumption
<1>2. ASSUME NEW x \in Slots
      PROVE  (st + x) % T = IF st + x < T THEN st + x ELSE st + x - T
  <2>1. st \in Int /\ x \in Int /\ 0 <= st /\ st < T /\ 0 <= x /\ x < T
    BY <1>1 DEF Slots
  <2>2. CASE st + x < T
    BY <1>1, <2>1, <2>2
  <2>3. CASE ~(st + x < T)
    BY <1>1, <2>1, <2>3
  <2> QED BY <2>2, <2>3
<1>3. st \in Int /\ a \in Int /\ b \in Int /\ a < T /\ b < T /\ 0 <= a /\ 0 <= b
      /\ 0 <= st /\ st < T
  BY <1>1 DEF Slots
<1> QED BY <1>1, <1>2, <1>3

\* So it finds no more connections than the table has.
LEMMA AheadIsUsed ==
  ASSUME NEW U \in SUBSET Slots, NEW st \in Slots, NEW p \in Nat
  PROVE  LET A == {n \in p..(TableSize - 1) : (st + n) % TableSize \in U}
         IN A \subseteq Slots /\ Cardinality(A) <= Cardinality(U)
<1> DEFINE A == {n \in p..(TableSize - 1) : (st + n) % TableSize \in U}
           f == [n \in A |-> (st + n) % TableSize]
<1>1. A \subseteq Slots
  BY RxAssumption DEF Slots
<1>2. f \in [A -> U]
  OBVIOUS
<1>3. \A a, b \in A : f[a] = f[b] => a = b
  BY <1>1, ScanPassesOnce
<1> HIDE DEF A, f
<1>4. f \in Injection(A, U)
  BY <1>2, <1>3 DEF Injection, IsInjective
<1>5. Cardinality(A) <= Cardinality(U)
  BY <1>4, FS_Injection, SlotSets
<1> QED BY <1>1, <1>5 DEF A

\* The least a read that finds nothing lasts.
LeastWait == Larger(RdpMs, FloorMs)

\* Arithmetic of the shares: those above the least a read lasts add up to no more
\* than the time that is shared.
LEMMA Shares ==
  ASSUME NEW x \in Nat, NEW n \in Nat \ {0}, NEW m \in Nat, m <= n, n <= TableSize
  PROVE  LET W == Larger(Larger(x \div n, FloorMs), RdpMs)
         IN /\ W \in Nat
            /\ m * W <= x + TableSize * LeastWait
            /\ x <= 1 => m * W <= TableSize * LeastWait
<1> DEFINE q == x \div n
           L == Larger(Larger(q, FloorMs), RdpMs)
<1>0. TableSize \in Nat /\ FloorMs \in Nat /\ FloorMs >= 1 /\ RdpMs \in Nat
  BY RxAssumption
<1>1. q \in Nat /\ n * q <= x
  OBVIOUS
<1>2. x <= 1 => q <= 1
  <2>1. q <= n * q
    <3> HIDE DEF q
    <3> QED BY <1>1
  <2> HIDE DEF q
  <2> QED BY <1>1, <2>1
<1> HIDE DEF q
<1>3. /\ L \in Nat /\ LeastWait \in Nat /\ (L = q \/ L = LeastWait)
      /\ x <= 1 => L = LeastWait
  BY <1>0, <1>1, <1>2 DEF Larger, LeastWait
<1> HIDE DEF L
<1>4. \A a, b, c \in Nat : a <= b => a * c <= b * c
  OBVIOUS
<1>5. m * L <= n * L
  BY <1>3, <1>4
<1>6. n * LeastWait <= TableSize * LeastWait
  BY <1>0, <1>3, <1>4
<1>7. /\ m * L \in Nat /\ n * L \in Nat /\ n * q \in Nat
      /\ n * LeastWait \in Nat /\ TableSize * LeastWait \in Nat
  BY <1>0, <1>1, <1>3
<1>8. m * L <= x + TableSize * LeastWait
  BY <1>1, <1>3, <1>5, <1>6, <1>7
<1>9. x <= 1 => m * L <= TableSize * LeastWait
  BY <1>3, <1>5, <1>6, <1>7
<1> QED BY <1>3, <1>8, <1>9 DEF L, q

\* The limit of WaitBound.
Limit == MaxFrags * ((IF timeout = 1 THEN DefaultMs ELSE timeout)
                     + TableSize * LeastWait)

\* The longest one read may last.
Costs == MaxFrags * ReadWait

\* What a call has waited, and what it still may, stay within the limit.
BudgetInv ==
    /\ start \in Slots
    /\ timeout \in Nat /\ spent \in Nat
    /\ pc \in {"idle", "accept", "read"}
    /\ pc # "read" => spent = 0
    /\ pc = "accept" => /\ timeout > 0 /\ accept_timeout \in 0..timeout
                        /\ accept_timeout = 0 => timeout = 1
    /\ pc = "read" => /\ read_timeout \in Nat
                      /\ spent + Cardinality(Ahead) * Costs <= Limit

\* A scan begins with its whole budget.
LEMMA BudgetScan ==
  ASSUME BudgetInv, pc = "accept", NEW tick \in Nat,
         Used' # {}, BeginScan(Cardinality(Used'), tick),
         \/ spent' = spent
         \/ spent' = IF accept_timeout > 0 THEN accept_timeout ELSE DefaultMs
  PROVE  BudgetInv'
<1> DEFINE n == Cardinality(Used')
           m == Cardinality(Ahead')
           x == timeout - accept_timeout
<1>1. start' \in Slots
  BY RxAssumption DEF BeginScan, StartAt, Slots
<1>2. n \in Nat \ {0} /\ n <= TableSize
  <2>1. Used' \subseteq Slots
    BY DEF Used, UsedIn
  <2>2. IsFiniteSet(Used') /\ n \in Nat /\ n <= TableSize
    BY <2>1, SlotSets
  <2> QED BY <2>2, FS_EmptySet
<1>3. m \in Nat /\ m <= n
  <2>1. Ahead' = {k \in pos'..(TableSize - 1) : (start' + k) % TableSize \in Used'}
    <3>1. \A k \in pos'..(TableSize - 1) : (start' + k) % TableSize \in Slots
      BY <1>1, RxAssumption DEF BeginScan, Slots
    <3> QED BY <3>1 DEF Ahead, SlotAt, Used, UsedIn
  <2>2. Used' \subseteq Slots /\ pos' \in Nat
    BY DEF Used, UsedIn, BeginScan
  <2>3. Ahead' \subseteq Slots /\ m <= n
    BY <1>1, <2>1, <2>2, AheadIsUsed
  <2> QED BY <2>3, SlotSets
<1>4. x \in Nat /\ timeout \in Nat /\ timeout > 0 /\ accept_timeout \in Nat
      /\ x + accept_timeout = timeout /\ (accept_timeout = 0 => timeout = 1)
      /\ spent = 0
  BY DEF BudgetInv
<1>5. /\ read_timeout' = Larger(x \div n, FloorMs)
      /\ pc' = "read" /\ timeout' = timeout
  BY DEF BeginScan, ReadShare
<1>6. /\ TableSize \in Nat /\ LeastWait \in Nat /\ MaxFrags \in Nat /\ MaxFrags >= 1
      /\ DefaultMs \in Nat /\ DefaultMs >= 1
  BY RxAssumption DEF LeastWait, Larger
<1> DEFINE W == ReadWait'
           R == m * W
           B == TableSize * LeastWait
           T == IF timeout = 1 THEN DefaultMs ELSE timeout
<1> HIDE DEF n, m, x
<1>7. read_timeout' \in Nat
  BY <1>2, <1>4, <1>5, RxAssumption DEF Larger
<1>8. W \in Nat /\ R <= x + B /\ (x <= 1 => R <= B)
  BY <1>2, <1>3, <1>4, <1>5, Shares DEF ReadWait
<1>9. R \in Nat /\ B \in Nat /\ T \in Nat
  <2>1. \A a, b \in Nat : a * b \in Nat
    OBVIOUS
  <2> QED BY <1>3, <1>4, <1>6, <1>8, <2>1
<1> HIDE DEF W, R, B
<1>10. spent' \in Nat /\ spent' + R <= T + B
  <2>1. CASE spent' = 0
    BY <1>4, <1>6, <1>8, <1>9, <2>1
  <2>2. CASE accept_timeout > 0 /\ spent' = accept_timeout
    BY <1>4, <1>6, <1>8, <1>9, <2>2
  <2>3. CASE accept_timeout = 0 /\ spent' = DefaultMs
    BY <1>4, <1>6, <1>8, <1>9, <2>3
  <2> QED BY <1>4, <2>1, <2>2, <2>3
<1> HIDE DEF T
<1>11. spent' + MaxFrags * R <= MaxFrags * (T + B)
  <2>1. \A f, a, b, c \in Nat : f >= 1 /\ a + b <= c => a + f * b <= f * c
    <3> SUFFICES ASSUME NEW f \in Nat, NEW a \in Nat, NEW b \in Nat, NEW c \in Nat,
                        f >= 1, a + b <= c
                 PROVE  a + f * b <= f * c
      OBVIOUS
    <3>1. f * (a + b) <= f * c
      <4>1. \A u, v, w \in Nat : u <= v => w * u <= w * v
        OBVIOUS
      <4> QED BY <4>1
    <3>2. f * (a + b) = f * a + f * b
      OBVIOUS
    <3>3. a <= f * a /\ f * a \in Nat /\ f * b \in Nat /\ f * c \in Nat
      OBVIOUS
    <3> QED BY <3>1, <3>2, <3>3
  <2>2. T + B \in Nat
    BY <1>9
  <2> QED BY <1>6, <1>9, <1>10, <2>1, <2>2
<1>12. m * Costs' = MaxFrags * R
  <2>1. \A a, b, c \in Nat : a * (b * c) = b * (a * c)
    OBVIOUS
  <2> QED BY <1>3, <1>6, <1>8, <2>1 DEF Costs, W, R
<1>13. Limit' = MaxFrags * (T + B)
  BY <1>5 DEF Limit, T, B
<1>14. spent' + m * Costs' <= Limit'
  BY <1>11, <1>12, <1>13
<1> QED BY <1>1, <1>4, <1>5, <1>7, <1>10, <1>14 DEF BudgetInv, m

\* A read that yields no bundle takes at most its cost from the budget.
LEMMA BudgetRead ==
  ASSUME ShapeInv, BudgetInv, pc = "read", pc' = pc, Ahead # {},
         pos' = Min(Ahead) + 1, start' = start, timeout' = timeout,
         read_timeout' = read_timeout,
         spent' \in Nat, spent' <= spent + Costs,
         \A s \in Slots : rx_conns'[s].used => rx_conns[s].used
  PROVE  BudgetInv'
<1>1. Ahead \subseteq Slots
  BY RxAssumption DEF Ahead, ShapeInv, Slots
<1>2. Min(Ahead) \in Ahead /\ \A y \in Ahead : Min(Ahead) <= y
  <2>1. Ahead \subseteq Nat
    BY <1>1 DEF Slots
  <2> QED BY <2>1, LeastNat
<1>3. Ahead' \subseteq Ahead \ {Min(Ahead)}
  <2> SUFFICES ASSUME NEW k \in Ahead' PROVE k \in Ahead /\ k # Min(Ahead)
    OBVIOUS
  <2>1. k \in pos'..(TableSize - 1) /\ rx_conns'[SlotAt(k)].used
    BY DEF Ahead, SlotAt
  <2>2. Min(Ahead) \in Nat /\ pos <= Min(Ahead) /\ pos \in Nat
    BY <1>1, <1>2 DEF Ahead, ShapeInv, Slots
  <2>3. k \in pos..(TableSize - 1) /\ k # Min(Ahead)
    BY <2>1, <2>2, RxAssumption
  <2>4. SlotAt(k) \in Slots
    BY <2>3, <2>2, RxAssumption DEF BudgetInv, SlotAt, Slots
  <2> QED BY <2>1, <2>3, <2>4 DEF Ahead
<1> DEFINE m == Cardinality(Ahead)
           k == Cardinality(Ahead')
<1>4. m \in Nat /\ k \in Nat /\ k + 1 <= m
  <2>1. IsFiniteSet(Ahead) /\ m \in Nat
    BY <1>1, SlotSets
  <2>2. Cardinality(Ahead \ {Min(Ahead)}) = m - 1
    BY <1>2, <2>1, FS_RemoveElement
  <2>3. k \in Nat /\ k <= Cardinality(Ahead \ {Min(Ahead)})
    BY <1>1, <1>3, SlotSets
  <2> QED BY <2>1, <2>2, <2>3
<1>5. /\ read_timeout \in Nat /\ spent \in Nat /\ timeout \in Nat
      /\ spent + m * Costs <= Limit
  BY DEF BudgetInv
<1>6. Costs \in Nat /\ Costs' = Costs
  BY <1>5, RxAssumption DEF Costs, ReadWait, Larger
<1>7. Limit' = Limit
  BY DEF Limit
<1> HIDE DEF m, k
<1>8. k * Costs + Costs <= m * Costs
  <2>1. \A a, b, c \in Nat : a + 1 <= b => a * c + c <= b * c
    OBVIOUS
  <2> QED BY <1>4, <1>6, <2>1
<1>9. k * Costs \in Nat /\ m * Costs \in Nat /\ Limit \in Nat
  <2>1. \A a, b \in Nat : a * b \in Nat
    OBVIOUS
  <2>2. LeastWait \in Nat
    BY RxAssumption DEF LeastWait, Larger
  <2> QED BY <1>4, <1>5, <1>6, <2>1, <2>2, RxAssumption DEF Limit
<1>10. spent' + k * Costs <= Limit
  BY <1>5, <1>6, <1>8, <1>9
<1> QED BY <1>5, <1>6, <1>7, <1>10 DEF BudgetInv, k

\* The fragments a read waits for.
LEMMA ReadCosts ==
  ASSUME BudgetInv, pc = "read", NEW n \in 0..MaxFrags, spent' = spent + n * ReadWait
  PROVE  spent' \in Nat /\ spent' <= spent + Costs
<1>1. MaxFrags \in Nat /\ n \in Nat /\ n <= MaxFrags
  BY RxAssumption
<1>2. ReadWait \in Nat /\ spent \in Nat
  BY RxAssumption DEF BudgetInv, ReadWait, Larger
<1>3. \A a, b, c \in Nat : a <= b => a * c \in Nat /\ b * c \in Nat /\ a * c <= b * c
  OBVIOUS
<1>4. n * ReadWait \in Nat /\ Costs \in Nat /\ n * ReadWait <= Costs
  BY <1>1, <1>2, <1>3 DEF Costs
<1> QED BY <1>2, <1>4

\* Every step.
LEMMA BudgetNext == RxInv /\ OrderInv /\ BudgetInv /\ [Next]_vars => BudgetInv'
<1> SUFFICES ASSUME RxInv, OrderInv, BudgetInv, [Next]_vars PROVE BudgetInv'
  OBVIOUS
<1>0. ShapeInv /\ RxOwnsConns /\ BacklogInv /\ ClearedInv
  BY DEF RxInv
<1>1. ASSUME NEW ms \in Timeouts, Call(ms) PROVE BudgetInv'
  <2>1. /\ timeout' = (IF ms = 0 THEN DefaultMs ELSE ms)
        /\ accept_timeout' = AcceptShare(timeout')
        /\ pc' = "accept" /\ pc = "idle" /\ start' = start /\ spent' = spent
    BY <1>1 DEF Call
  <2>2. timeout' \in Nat /\ timeout' > 0
    BY <2>1, RxAssumption
  <2>3. accept_timeout' \in 0..timeout' /\ (accept_timeout' = 0 => timeout' = 1)
    <3> DEFINE t == timeout'
    <3>1. accept_timeout' = AcceptShare(t) /\ t \in Nat /\ t > 0
      BY <2>1, <2>2
    <3> HIDE DEF t
    <3>2. t \div 2 \in Nat /\ t \div 2 <= t /\ (t \div 2 = 0 => t = 1)
      BY <3>1
    <3>3. AcceptShare(t) \in 0..t /\ (AcceptShare(t) = 0 => t = 1)
      BY <3>1, <3>2, RxAssumption DEF AcceptShare, Smaller
    <3> QED BY <3>1, <3>3 DEF t
  <2> QED BY <2>1, <2>2, <2>3 DEF BudgetInv
<1>2. CASE AcceptNew
  <2> DEFINE c == Head(backlog)
             s == SlotFor(link[c])
  <2>1. s \in Slots
    BY <1>0, SlotForIsSlot
  <2>2. /\ rx_conns' = [rx_conns EXCEPT ![s] =
              [used |-> TRUE, conn |-> c, key |-> link[c], last_active |-> NextTick]]
        /\ BeginScan(Cardinality(UsedIn(rx_conns')), NextTick)
        /\ pc = "accept" /\ spent' = spent
    BY <1>2 DEF AcceptNew
  <2> HIDE DEF s, c
  <2>3. s \in Used'
    BY <1>0, <2>1, <2>2 DEF Used, UsedIn, ShapeInv
  <2>4. NextTick \in Nat
    BY <1>0, TickType, RxAssumption DEF ShapeInv
  <2>5. BeginScan(Cardinality(Used'), NextTick)
    BY <2>2 DEF Used
  <2> QED BY <2>2, <2>3, <2>4, <2>5, BudgetScan
<1>3. CASE AcceptTimeout
  <2>1. CASE Return
    BY <2>1, RxAssumption DEF Return, BudgetInv, Slots
  <2>2. CASE ~Return
    <3>1. /\ pc = "accept" /\ Used # {} /\ BeginScan(Cardinality(Used), rx_tick)
          /\ spent' = IF accept_timeout > 0 THEN accept_timeout ELSE DefaultMs
          /\ rx_conns' = rx_conns
      BY <1>3, <2>2 DEF AcceptTimeout, tableVars
    <3>2. Used' = Used /\ rx_tick \in Nat
      BY <1>0, <3>1 DEF Used, UsedIn, ShapeInv
    <3> QED BY <3>1, <3>2, BudgetScan
  <2> QED BY <2>1, <2>2
<1>4. CASE AcceptFails \/ ReadOK \/ ScanEnds
  <2>1. Return
    BY <1>4 DEF AcceptFails, ReadOK, ScanEnds
  <2> QED BY <2>1, RxAssumption DEF Return, BudgetInv, Slots
<1>5. CASE ReadTimeout
  <2>1. PICK n \in 0..(MaxFrags - 1) : spent' = spent + (n + 1) * ReadWait
    BY <1>5 DEF ReadTimeout
  <2>2. n + 1 \in 0..MaxFrags /\ pc = "read"
    BY <1>5, RxAssumption DEF ReadTimeout
  <2>3. spent' \in Nat /\ spent' <= spent + Costs
    BY <2>1, <2>2, ReadCosts
  <2> QED BY <1>0, <1>5, <2>3, BudgetRead DEF ReadTimeout, tableVars
<1>6. CASE ReadError
  <2>1. \E x : rx_conns' = [rx_conns EXCEPT ![x] = Free]
    BY <1>6 DEF ReadError
  <2>2. \A s \in Slots : rx_conns'[s].used => rx_conns[s].used
    BY <1>0, <2>1 DEF ShapeInv, Free
  <2>3. PICK n \in 0..MaxFrags : spent' = spent + n * ReadWait
    BY <1>6 DEF ReadError
  <2>4. spent' \in Nat /\ spent' <= spent + Costs
    BY <1>6, <2>3, ReadCosts DEF ReadError
  <2> QED BY <1>0, <1>6, <2>2, <2>4, BudgetRead DEF ReadError
<1>7. CASE Cleanup \/ Reinit
  <2>1. pc = "idle" /\ UNCHANGED callVars
    BY <1>0, <1>7 DEF Cleanup, Reinit, ClearedInv
  <2> QED BY <2>1 DEF BudgetInv, callVars
<1>8. CASE PeerStep \/ UNCHANGED vars
  <2>1. UNCHANGED <<rx_conns, callVars>>
    BY <1>8 DEF PeerStep, PeerConnects, PeerSends, vars, tableVars
  <2> QED BY <2>1 DEF BudgetInv, Limit, Costs, ReadWait, Ahead, SlotAt, callVars
<1> QED BY <1>1, <1>2, <1>3, <1>4, <1>5, <1>6, <1>7, <1>8 DEF Next, CallStep

\* cspcl_recv_bundle() waits in vain for at most its timeout and libcsp's RDP
\* timeout once for each entry, per fragment of the largest bundle a peer sends,
\* whatever the table size, the timeout and the split between accepting and
\* reading; never longer, however many connections share the time.
THEOREM WaitIsBounded == Spec => []WaitBound
<1>1. Init => BudgetInv
  BY RxAssumption DEF Init, BudgetInv, Slots
<1>2. RxInv /\ BudgetInv => WaitBound
  <2> SUFFICES ASSUME RxInv, BudgetInv, pc # "idle" PROVE spent <= Limit
    BY DEF WaitBound, Limit, LeastWait
  <2>1. \A a, b \in Nat : a * b \in Nat
    OBVIOUS
  <2>2. Limit \in Nat
    <3>1. LeastWait \in Nat
      BY RxAssumption DEF LeastWait, Larger
    <3> QED BY <2>1, <3>1, RxAssumption DEF Limit, BudgetInv
  <2>3. CASE pc = "accept"
    BY <2>2, <2>3 DEF BudgetInv
  <2>4. CASE pc = "read"
    <3>1. Ahead \subseteq Slots
      BY RxAssumption DEF Ahead, RxInv, ShapeInv, Slots
    <3>2. Cardinality(Ahead) \in Nat
      BY <3>1, SlotSets
    <3>3. Costs \in Nat
      BY <2>1, <2>4, RxAssumption DEF BudgetInv, Costs, ReadWait, Larger
    <3>4. Cardinality(Ahead) * Costs \in Nat
      BY <2>1, <3>2, <3>3
    <3> QED BY <2>2, <2>4, <3>4 DEF BudgetInv
  <2> QED BY <2>3, <2>4 DEF BudgetInv
<1> QED BY <1>1, <1>2, BudgetNext, RxInvAlways, OrderAlways, PTL DEF Spec

=============================================================================
