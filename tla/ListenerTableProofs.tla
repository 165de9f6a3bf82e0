------------------------- MODULE ListenerTableProofs ------------------------
(***************************************************************************)
(* Proofs about the listener threads, for any number of them and any table *)
(* size: the C cleanup comes last, a slot is counted as long as its        *)
(* connection is open, and there are never more of them than slots.        *)
(*                                                                         *)
(* The bound is inductive with what holds between accepting a connection   *)
(* and making room for it: one slot is free while the accept thread waits  *)
(* (RoomInv), and the newcomer is not among those that have to stay.       *)
(***************************************************************************)
EXTENDS ListenerTable, FiniteSetTheorems, WellFoundedInduction, TLAPS

-----------------------------------------------------------------------------
(* The inductive invariant *)

\* What the proofs need of the types.
ShapeInv ==
    /\ lis \in [Listeners -> ListenerStates]
    /\ conn_open \in [Listeners -> BOOLEAN]
    /\ running \in [Listeners -> BOOLEAN]
    /\ acc \in AcceptStates
    /\ acc \in {"register", "spawn", "supersede"} => new \in Listeners
    /\ app \in BOOLEAN /\ receiving \in BOOLEAN

\* An open connection belongs to its listener, or to the accept thread that has
\* not started that listener yet.
OwnerInv ==
    /\ acc \in {"register", "spawn"} => lis[new] = "none"
    /\ \A l \in Listeners : conn_open[l] =>
         \/ acc \in {"register", "spawn"} /\ new = l
         \/ lis[l] \in {"check", "reading", "close"}

\* The table of connections counts every open one until it is closed.
Counted ==
    \A l \in Listeners : conn_open[l] =>
        (l \in table /\ running[l]) \/ (acc = "register" /\ new = l)

\* After the cleanup nobody holds the instance, and nobody can get it again.
CleanInv ==
    /\ ~app => ~receiving
    /\ cleaned => /\ ~app /\ acc = "none"
                  /\ \A l \in Listeners : lis[l] \in {"none", "finish"}

TableInv == ShapeInv /\ OwnerInv /\ Counted /\ CleanInv

-----------------------------------------------------------------------------
(* The steps *)

\* Nothing runs and nothing is open.
LEMMA TableInvInit == Init => TableInv
  BY DEF Init, TableInv, ShapeInv, OwnerInv, Counted, CleanInv, ListenerStates,
         AcceptStates

\* Streams, the application and the last handle.
LEMMA EnvironmentSteps ==
  TableInv /\ (StreamsChange \/ DropApp \/ DropInstance) => TableInv'
<1> SUFFICES ASSUME TableInv, StreamsChange \/ DropApp \/ DropInstance
             PROVE TableInv'
  OBVIOUS
<1> USE DEF TableInv, ShapeInv, OwnerInv, Counted, CleanInv, ListenerStates,
            AcceptStates
<1>1. CASE StreamsChange BY <1>1 DEF StreamsChange
<1>2. CASE DropApp BY <1>2 DEF DropApp
<1>3. CASE DropInstance BY <1>3 DEF DropInstance, Held
<1> QED BY <1>1, <1>2, <1>3

\* The accept thread.
LEMMA AcceptSteps == TableInv /\ AcceptStep => TableInv'
<1> SUFFICES ASSUME TableInv, AcceptStep PROVE TableInv'
  OBVIOUS
<1> USE DEF TableInv, ShapeInv, OwnerInv, Counted, CleanInv, ListenerStates,
            AcceptStates
<1>1. CASE AcceptStop \/ NoConnection BY <1>1 DEF AcceptStop, NoConnection
<1>2. CASE WaitForSlot BY <1>2 DEF WaitForSlot, Pruned
<1>3. ASSUME NEW l \in Listeners, NEW k \in Keys, AcceptConnection(l, k)
      PROVE TableInv'
  BY <1>3 DEF AcceptConnection
<1>4. CASE register BY <1>4 DEF register
<1>5. CASE SpawnListener BY <1>5 DEF SpawnListener
<1>6. CASE SpawnFails BY <1>6 DEF SpawnFails, Finished
<1>7. CASE supersede
  <2>1. table' \in {table, Pruned} /\ acc' = "top"
    BY <1>7 DEF supersede
  <2>2. UNCHANGED <<receiving, running, lis, conn_open, app, cleaned>>
    BY <1>7 DEF supersede
  <2>3. acc = "supersede"
    BY <1>7 DEF supersede
  <2> QED BY <2>1, <2>2, <2>3 DEF Pruned
<1> QED BY <1>1, <1>2, <1>3, <1>4, <1>5, <1>6, <1>7 DEF AcceptStep

\* A listener thread.
LEMMA ListenerSteps ==
  ASSUME TableInv, NEW l \in Listeners, ListenerStep(l)
  PROVE  TableInv'
<1> USE DEF TableInv, ShapeInv, OwnerInv, Counted, CleanInv, ListenerStates,
            AcceptStates
<1>1. CASE StartRead(l) \/ ListenerStops(l) \/ ReadTimeout(l) \/ ReadEnds(l)
  BY <1>1 DEF StartRead, ListenerStops, ReadTimeout, ReadEnds, ListenerGoto
<1>2. CASE ReadBundle(l) BY <1>2 DEF ReadBundle
<1>3. CASE CloseConn(l) BY <1>3 DEF CloseConn
<1>4. CASE ReleaseInstance(l) BY <1>4 DEF ReleaseInstance, ListenerGoto
<1>5. CASE Finish(l) BY <1>5 DEF Finish, Finished
<1> QED BY <1>1, <1>2, <1>3, <1>4, <1>5 DEF ListenerStep

\* Every step.
LEMMA TableInvNext == TableInv /\ [Next]_vars => TableInv'
<1>1. TableInv /\ UNCHANGED vars => TableInv'
  BY DEF vars, TableInv, ShapeInv, OwnerInv, Counted, CleanInv
<1> QED BY <1>1, EnvironmentSteps, AcceptSteps, ListenerSteps DEF Next

\* Along every behaviour.
LEMMA TableInvAlways == Spec => []TableInv
  BY TableInvInit, TableInvNext, PTL DEF Spec

-----------------------------------------------------------------------------
(* Theorems *)

\* Whichever thread drops the instance last, cspcl_cleanup() runs after the
\* accept thread has ended and every connection is closed.
THEOREM CleanupComesLast == Spec => []CleanupLast
<1>1. TableInv => CleanupLast
  BY DEF TableInv, OwnerInv, CleanInv, CleanupLast
<1> QED BY <1>1, TableInvAlways, PTL

\* open() never counts a slot as free before its connection is closed: the
\* connections being closed after an eviction are still in the count.
THEOREM OpenIsCounted == Spec => []Counted
  BY TableInvAlways, PTL DEF TableInv

-----------------------------------------------------------------------------
(* The size of the table *)

\* What else the proofs need of the types, and of the listener that is being
\* added: it has a slot only from register() on, and nobody evicts it.
NewInv ==
    /\ table \subseteq Listeners
    /\ evicted \in [Listeners -> BOOLEAN]
    /\ key = [l \in Listeners |-> key[l]]
    /\ recency \in [Listeners -> Nat]
    /\ acc = "register" => new \notin table
    /\ ~Settled => ~evicted[new]

\* The connections that stay, without the one supersede() makes room for.
Staying ==
    {l \in table : running[l] /\ ~evicted[l] /\ (Settled \/ l # new)}

\* A slot is free while a connection is accepted, and those that stay are from
\* different peers and at most MaxConns.
RoomInv ==
    /\ Cardinality(Pruned) <= MaxConns + ExtraConns
    /\ acc \in {"accept", "register"} =>
         Cardinality(Pruned) < MaxConns + ExtraConns
    /\ Cardinality(Staying) <= MaxConns
    /\ \A l, x \in Staying : key[l] = key[x] => l = x

SizeInv == NewInv /\ RoomInv

\* Sets of listeners are finite, and a part has no more members than the whole.
LEMMA ListenerSets ==
  ASSUME NEW T \in SUBSET Listeners, NEW S \in SUBSET T
  PROVE  /\ IsFiniteSet(S) /\ Cardinality(S) \in Nat /\ Cardinality(T) \in Nat
         /\ Cardinality(S) <= Cardinality(T)
  BY FS_Subset, FS_CardinalityType, TableAssumption

\* One listener more makes a set larger by at most one.
LEMMA OneMore ==
  ASSUME NEW S \in SUBSET Listeners, NEW x \in Listeners
  PROVE  /\ Cardinality(S) \in Nat /\ Cardinality(S \cup {x}) \in Nat
         /\ Cardinality(S \cup {x}) <= Cardinality(S) + 1
<1>1. IsFiniteSet(S) /\ Cardinality(S) \in Nat
  BY ListenerSets
<1>2. Cardinality(S \cup {x}) =
        IF x \in S THEN Cardinality(S) ELSE Cardinality(S) + 1
  BY <1>1, FS_AddElement
<1> QED BY <1>1, <1>2

\* Every non-empty set of naturals has a least member.
LEMMA LeastNumber ==
  ASSUME NEW N \in SUBSET Nat, N # {}
  PROVE  \E n \in N : \A m \in N : n <= m
<1>1. PICK n \in N : \A m \in N : ~(<<m, n>> \in OpToRel(<, Nat))
  BY NatLessThanWellFounded, WFMin, Zenon
<1>2. ASSUME NEW m \in N PROVE n <= m
  <2>1. n \in Nat /\ m \in Nat
    OBVIOUS
  <2>2. ~(m < n)
    BY <1>1, <2>1 DEF OpToRel
  <2> QED BY <2>1, <2>2
<1> QED BY <1>2

\* evict_least_recent_except() picks one of its candidates.
LEMMA LeastRecentIsOne ==
  ASSUME recency \in [Listeners -> Nat], NEW S \in SUBSET Listeners, S # {}
  PROVE  LeastRecent(S) \in S
<1> DEFINE N == {recency[x] : x \in S}
<1>1. N \in SUBSET Nat /\ N # {}
  OBVIOUS
<1>2. PICK n \in N : \A m \in N : n <= m
  BY <1>1, LeastNumber
<1>3. \E x \in S : \A y \in S : recency[x] <= recency[y]
  BY <1>2
<1> QED BY <1>3 DEF LeastRecent

\* Taking a listener out of the order leaves ranks.
LEMMA ForgottenType ==
  ASSUME recency \in [Listeners -> Nat], NEW l \in Listeners
  PROVE  Forgotten(l) \in [Listeners -> Nat]
  BY DEF Forgotten

\* So does making it the most recent one.
LEMMA TouchedType ==
  ASSUME recency \in [Listeners -> Nat], NEW l \in Listeners
  PROVE  Touched(l) \in [Listeners -> Nat]
<1>1. Cardinality({x \in Listeners : Forgotten(l)[x] # 0}) \in Nat
  BY ListenerSets
<1> QED BY <1>1, ForgottenType DEF Touched

\* A step that adds nobody.
LEMMA NobodyAdded ==
  ASSUME TableInv, SizeInv, NewInv',
         Pruned' \subseteq Pruned, Staying' \subseteq Staying,
         \A l \in Staying' : key'[l] = key[l],
         acc' \in {"accept", "register"} =>
           Cardinality(Pruned') < MaxConns + ExtraConns
  PROVE  SizeInv'
<1>1. Pruned \subseteq Listeners /\ Staying \subseteq Listeners
  BY DEF SizeInv, NewInv, Pruned, Staying
<1>2. /\ Cardinality(Pruned') \in Nat /\ Cardinality(Pruned) \in Nat
      /\ Cardinality(Pruned') <= Cardinality(Pruned)
  BY <1>1, ListenerSets
<1>3. /\ Cardinality(Staying') \in Nat /\ Cardinality(Staying) \in Nat
      /\ Cardinality(Staying') <= Cardinality(Staying)
  BY <1>1, ListenerSets
<1>4. Cardinality(Pruned') <= MaxConns + ExtraConns
      /\ Cardinality(Staying') <= MaxConns
  BY <1>2, <1>3, TableAssumption DEF SizeInv, RoomInv
<1>5. \A l, x \in Staying' : key'[l] = key'[x] => l = x
  BY DEF SizeInv, RoomInv
<1> QED BY <1>4, <1>5 DEF SizeInv, RoomInv

\* Nothing is open.
LEMMA SizeInit == Init => SizeInv
<1> SUFFICES ASSUME Init PROVE SizeInv
  OBVIOUS
<1>1. Pruned = {} /\ Staying = {}
  BY DEF Init, Pruned, Staying
<1>2. Cardinality({}) = 0
  BY FS_EmptySet
<1>3. RoomInv
  BY <1>1, <1>2, TableAssumption DEF RoomInv, Init
<1>4. NewInv
  BY DEF Init, NewInv, Settled
<1> QED BY <1>3, <1>4 DEF SizeInv

\* Everything but accepting, registering and superseding.
LEMMA SizeQuiet ==
  ASSUME TableInv, SizeInv,
         \/ StreamsChange \/ DropApp \/ DropInstance
         \/ AcceptStop \/ NoConnection \/ SpawnListener
         \/ \E l \in Listeners :
              StartRead(l) \/ ListenerStops(l) \/ ReadBundle(l) \/ ReadTimeout(l)
                \/ ReadEnds(l) \/ CloseConn(l) \/ ReleaseInstance(l)
  PROVE  SizeInv'
<1>1. /\ UNCHANGED <<table, running, evicted, key, new>>
      /\ Settled' = Settled
      /\ acc' \in {"accept", "register"} => acc' = acc
  BY DEF StreamsChange, DropApp, DropInstance, AcceptStop, NoConnection,
         SpawnListener, StartRead, ListenerStops, ReadBundle, ReadTimeout,
         ReadEnds, CloseConn, ReleaseInstance, ListenerGoto, Settled
<1>2. recency' = recency \/ \E l \in Listeners : recency' = Touched(l)
  BY DEF StreamsChange, DropApp, DropInstance, AcceptStop, NoConnection,
         SpawnListener, StartRead, ListenerStops, ReadBundle, ReadTimeout,
         ReadEnds, CloseConn, ReleaseInstance, ListenerGoto
<1>3. recency' \in [Listeners -> Nat]
  BY <1>2, TouchedType DEF SizeInv, NewInv
<1>4. NewInv'
  BY <1>1, <1>3 DEF SizeInv, NewInv
<1>5. Pruned' = Pruned /\ Staying' = Staying
  BY <1>1 DEF Pruned, Staying
<1>6. acc' \in {"accept", "register"} =>
        Cardinality(Pruned') < MaxConns + ExtraConns
  BY <1>1, <1>5 DEF SizeInv, RoomInv
<1> QED BY <1>1, <1>4, <1>5, <1>6, NobodyAdded

\* Listeners that end: SpawnFails and Finish.
LEMMA SizeEnds ==
  ASSUME TableInv, SizeInv, SpawnFails \/ \E l \in Listeners : Finish(l)
  PROVE  SizeInv'
<1>1. PICK l \in Listeners :
        /\ Finished(l) /\ table' = table
        /\ \/ acc' = acc /\ new' = new
           \/ acc = "spawn" /\ l = new /\ acc' = "top"
  BY DEF SpawnFails, Finish, TableInv, ShapeInv
<1>2. recency' \in [Listeners -> Nat]
  BY <1>1, ForgottenType DEF Finished, SizeInv, NewInv
<1>3. NewInv'
  BY <1>1, <1>2 DEF Finished, SizeInv, NewInv, Settled, TableInv, ShapeInv
<1>4. Pruned' \subseteq Pruned
  BY <1>1 DEF Finished, Pruned, TableInv, ShapeInv, SizeInv, NewInv
<1>5. \A x \in Staying' : x \in Staying /\ x # l
  BY <1>1 DEF Finished, Staying, Settled, TableInv, ShapeInv, SizeInv, NewInv
<1>6. \A x \in Staying' : key'[x] = key[x]
  BY <1>1, <1>5 DEF Finished, SizeInv, NewInv, Staying
<1>7. acc' \in {"accept", "register"} =>
        Cardinality(Pruned') < MaxConns + ExtraConns
  <2> SUFFICES ASSUME acc' \in {"accept", "register"}
               PROVE  Cardinality(Pruned') < MaxConns + ExtraConns
    OBVIOUS
  <2>1. Cardinality(Pruned) < MaxConns + ExtraConns
    BY <1>1 DEF SizeInv, RoomInv
  <2>2. Pruned \subseteq Listeners
    BY DEF Pruned, SizeInv, NewInv
  <2>3. /\ Cardinality(Pruned') \in Nat /\ Cardinality(Pruned) \in Nat
        /\ Cardinality(Pruned') <= Cardinality(Pruned)
    BY <1>4, <2>2, ListenerSets
  <2> QED BY <2>1, <2>3, TableAssumption
<1> QED BY <1>3, <1>4, <1>5, <1>6, <1>7, NobodyAdded

\* wait_for_slot() and accepting.
LEMMA SizeAccept ==
  ASSUME TableInv, SizeInv,
         WaitForSlot
           \/ \E l \in Listeners : \E k \in Keys : AcceptConnection(l, k)
  PROVE  SizeInv'
<1>1. CASE WaitForSlot
  <2>1. /\ table' = Pruned /\ UNCHANGED <<running, evicted, key, recency, new>>
        /\ acc = "top" /\ acc' \in {"accept", "top"}
        /\ acc' = "accept" => may_accept
    BY <1>1 DEF WaitForSlot
  <2>2. NewInv'
    BY <2>1 DEF SizeInv, NewInv, Settled, Pruned
  <2>3. Pruned' = Pruned /\ Staying' \subseteq Staying
    BY <2>1 DEF Pruned, Staying, Settled
  <2>4. acc' \in {"accept", "register"} =>
          Cardinality(Pruned') < MaxConns + ExtraConns
    BY <2>1, <2>3 DEF may_accept
  <2> QED BY <2>1, <2>2, <2>3, <2>4, NobodyAdded
<1>2. ASSUME NEW l \in Listeners, NEW k \in Keys, AcceptConnection(l, k)
      PROVE  SizeInv'
  <2>1. /\ UNCHANGED <<table, running, evicted, recency>>
        /\ key' = [key EXCEPT ![l] = k] /\ l \notin table /\ new' = l
        /\ acc = "accept" /\ acc' = "register"
    BY <1>2 DEF AcceptConnection
  <2>2. NewInv'
    BY <2>1 DEF SizeInv, NewInv, Settled
  <2>3. Pruned' = Pruned /\ Staying' = Staying
    BY <2>1 DEF Pruned, Staying, Settled
  <2>4. \A x \in Staying' : key'[x] = key[x]
    BY <2>1, <2>3 DEF Staying, SizeInv, NewInv
  <2>5. Cardinality(Pruned') < MaxConns + ExtraConns
    BY <2>1, <2>3 DEF SizeInv, RoomInv
  <2> QED BY <2>2, <2>3, <2>4, <2>5, NobodyAdded
<1> QED BY <1>1, <1>2

\* register(): the newcomer takes the slot that was free.
LEMMA SizeRegister ==
  ASSUME TableInv, SizeInv, register
  PROVE  SizeInv'
<1>1. /\ acc = "register" /\ acc' = "spawn" /\ new' = new /\ key' = key
      /\ table' = table \cup {new} /\ recency' = Touched(new)
      /\ running' = [running EXCEPT ![new] = TRUE]
      /\ evicted' = [evicted EXCEPT ![new] = FALSE]
      /\ new \in Listeners /\ new \notin table
  BY DEF register, TableInv, ShapeInv, SizeInv, NewInv
<1>2. NewInv'
  BY <1>1, TouchedType DEF SizeInv, NewInv
<1>3. Pruned' = Pruned \cup {new} /\ new \notin Pruned /\ Pruned \subseteq Listeners
  BY <1>1 DEF Pruned, TableInv, ShapeInv, SizeInv, NewInv
<1>4. Staying' = Staying
  BY <1>1 DEF Staying, Settled, TableInv, ShapeInv, SizeInv, NewInv
<1>5. Cardinality(Pruned') = Cardinality(Pruned) + 1 /\ Cardinality(Pruned) \in Nat
  BY <1>3, ListenerSets, FS_AddElement
<1>6. Cardinality(Pruned) < MaxConns + ExtraConns
  BY <1>1 DEF SizeInv, RoomInv
<1>7. Cardinality(Pruned') <= MaxConns + ExtraConns
  BY <1>5, <1>6, TableAssumption
<1>8. /\ Cardinality(Staying') <= MaxConns
      /\ \A l, x \in Staying' : key'[l] = key'[x] => l = x
  BY <1>1, <1>4 DEF SizeInv, RoomInv
<1> QED BY <1>1, <1>2, <1>7, <1>8 DEF SizeInv, RoomInv

\* supersede() with a newcomer that still runs: who is evicted.
LEMMA SupersedeEvicts ==
  ASSUME TableInv, SizeInv, supersede, running[new]
  PROVE  \E V \in SUBSET Candidates(new, Stale(new) \cup {x \in Pruned : evicted[x]}) :
           /\ Cardinality(Kept(Stale(new) \cup {x \in Pruned : evicted[x]})) > MaxConns
                /\ Candidates(new, Stale(new) \cup {x \in Pruned : evicted[x]}) # {}
                => V # {}
           /\ evicted' = [x \in Listeners |-> evicted[x] \/ x \in Stale(new) \cup V]
           /\ table' = Pruned
<1> DEFINE gone == Stale(new) \cup {x \in Pruned : evicted[x]}
           cand == Candidates(new, gone)
           full == Cardinality(Kept(gone)) > MaxConns /\ cand # {}
           V == IF full THEN {LeastRecent(cand)} ELSE {}
<1>1. cand \subseteq Listeners
  BY DEF Candidates, Pruned, SizeInv, NewInv
<1>2. full => LeastRecent(cand) \in cand
  BY <1>1, LeastRecentIsOne DEF SizeInv, NewInv
<1>3. V \in SUBSET cand /\ (full => V # {})
  BY <1>2
<1>4. /\ evicted' = [x \in Listeners |-> evicted[x] \/ x \in Stale(new) \cup V]
      /\ table' = Pruned
  BY DEF supersede
<1> QED BY <1>3, <1>4

\* supersede() evicts the older listener of the peer, and one more over the limit.
LEMMA SizeSupersede ==
  ASSUME TableInv, SizeInv, supersede
  PROVE  SizeInv'
<1>1. /\ acc = "supersede" /\ acc' = "top" /\ new \in Listeners
      /\ UNCHANGED <<running, key, recency>>
  BY DEF supersede, TableInv, ShapeInv
<1>2. CASE ~running[new]
  <2>1. UNCHANGED <<evicted, table>>
    BY <1>2 DEF supersede
  <2>2. NewInv'
    BY <1>1, <2>1 DEF SizeInv, NewInv, Settled
  <2>3. Pruned' = Pruned /\ Staying' \subseteq Staying
    BY <1>1, <1>2, <2>1 DEF Pruned, Staying, Settled
  <2> QED BY <1>1, <2>2, <2>3, NobodyAdded
<1>3. CASE running[new]
  <2> DEFINE gone == Stale(new) \cup {x \in Pruned : evicted[x]}
             K == Kept(gone)
  <2>1. PICK V \in SUBSET Candidates(new, gone) :
          /\ Cardinality(K) > MaxConns /\ Candidates(new, gone) # {} => V # {}
          /\ evicted' = [x \in Listeners |-> evicted[x] \/ x \in Stale(new) \cup V]
          /\ table' = Pruned
    BY <1>3, SupersedeEvicts
  <2>2. Pruned \subseteq Listeners
    BY DEF Pruned, SizeInv, NewInv
  <2>3. NewInv'
    BY <1>1, <2>1, <2>2 DEF SizeInv, NewInv, Settled
  <2>4. Pruned' = Pruned
    BY <1>1, <2>1 DEF Pruned
  <2>5. Staying' = K \ V
    BY <1>1, <2>1, <2>2 DEF Staying, Settled, Kept, Pruned
  <2>6. K \subseteq Staying \cup {new} /\ K \subseteq Listeners
    BY <1>1, <2>2 DEF Kept, Pruned, Staying
  <2>7. Staying \subseteq Listeners
    BY DEF Staying, SizeInv, NewInv
  <2>8. /\ IsFiniteSet(K) /\ Cardinality(K) \in Nat
        /\ IsFiniteSet(Staying) /\ Cardinality(Staying) \in Nat
    BY <2>6, <2>7, ListenerSets
  <2>9. Cardinality(K) <= MaxConns + 1
    <3>1. Cardinality(Staying \cup {new}) <= Cardinality(Staying) + 1
          /\ Cardinality(Staying \cup {new}) \in Nat
      BY <1>1, <2>7, OneMore
    <3>2. Cardinality(K) <= Cardinality(Staying \cup {new})
      BY <2>6, <2>7, <1>1, ListenerSets
    <3>3. Cardinality(Staying) <= MaxConns
      BY DEF SizeInv, RoomInv
    <3> QED BY <2>8, <3>1, <3>2, <3>3, TableAssumption
  <2>10. Candidates(new, gone) = K \ {new}
    BY DEF Candidates, Kept
  <2>11. Cardinality(K \ V) <= MaxConns
    <3>1. CASE V = {}
      <4>1. Cardinality(K) > MaxConns => K \subseteq {new}
        BY <2>1, <2>10, <3>1
      <4>2. K \subseteq {new} => Cardinality(K) <= 1
        <5>1. Cardinality({new}) = 1
          BY FS_Singleton
        <5>2. {new} \in SUBSET Listeners
          BY <1>1
        <5> HIDE DEF K
        <5> QED BY <5>1, <5>2, ListenerSets
      <4>3. K \ V = K
        BY <3>1
      <4> HIDE DEF K
      <4> QED BY <4>1, <4>2, <4>3, <2>8, TableAssumption
    <3>2. CASE V # {}
      <4>1. PICK v \in V : TRUE
        BY <3>2
      <4>2. v \in K
        BY <4>1, <2>1, <2>10
      <4>3. Cardinality(K \ {v}) = Cardinality(K) - 1
        BY <4>2, <2>8, FS_RemoveElement
      <4>4. Cardinality(K \ V) <= Cardinality(K \ {v})
            /\ Cardinality(K \ V) \in Nat
        BY <4>1, <2>6, ListenerSets
      <4> QED BY <4>3, <4>4, <2>8, <2>9, TableAssumption
    <3> QED BY <3>1, <3>2
  <2>12. ASSUME NEW l \in K, NEW x \in K, key[l] = key[x] PROVE l = x
    <3>1. CASE l \in Staying /\ x \in Staying
      BY <3>1, <2>12 DEF SizeInv, RoomInv
    <3>2. CASE l = new \/ x = new
      BY <3>2, <2>12 DEF Kept, Stale
    <3> QED BY <3>1, <3>2, <2>6
  <2>13. \A l, x \in Staying' : key'[l] = key'[x] => l = x
    BY <1>1, <2>5, <2>12
  <2>14. Cardinality(Pruned') <= MaxConns + ExtraConns
    BY <2>4 DEF SizeInv, RoomInv
  <2>15. Cardinality(Staying') <= MaxConns
    BY <2>5, <2>11
  <2> QED BY <1>1, <2>3, <2>13, <2>14, <2>15 DEF SizeInv, RoomInv
<1> QED BY <1>2, <1>3

\* Along every behaviour.
LEMMA SizeAlways == Spec => []SizeInv
<1>1. TableInv /\ SizeInv /\ Next => SizeInv'
  BY SizeQuiet, SizeEnds, SizeAccept, SizeRegister, SizeSupersede
     DEF Next, AcceptStep, ListenerStep
<1>2. SizeInv /\ UNCHANGED vars => SizeInv'
  BY DEF vars, SizeInv, NewInv, RoomInv, Pruned, Staying, Settled
<1> QED BY <1>1, <1>2, SizeInit, TableInvAlways, PTL DEF Spec

\* libcsp's connection table is never asked for more than it has: with the one
\* just accepted and those still closing, at most MaxConns + ExtraConns are
\* open, and after each accept at most MaxConns, from different peers, stay.
THEOREM OpenIsBounded == Spec => []OpenBound
<1>1. TableInv /\ SizeInv => OpenBound
  <2> SUFFICES ASSUME TableInv, SizeInv PROVE OpenBound
    OBVIOUS
  <2> DEFINE open == {l \in Listeners : conn_open[l]}
  <2>1. Cardinality(open) <= MaxConns + ExtraConns
    <3>1. Pruned \subseteq Listeners
      BY DEF Pruned, SizeInv, NewInv
    <3>2. /\ IsFiniteSet(Pruned) /\ Cardinality(Pruned) \in Nat
          /\ Cardinality(open) \in Nat
      BY <3>1, ListenerSets
    <3>3. CASE acc = "register"
      <4>1. open \subseteq Pruned \cup {new} /\ new \in Listeners
        BY <3>3 DEF TableInv, ShapeInv, Counted, Pruned
      <4>2. /\ Cardinality(Pruned \cup {new}) <= Cardinality(Pruned) + 1
            /\ Cardinality(Pruned \cup {new}) \in Nat
        BY <3>1, <4>1, OneMore
      <4>3. Cardinality(open) <= Cardinality(Pruned \cup {new})
        BY <4>1, <3>1, ListenerSets
      <4>4. Cardinality(Pruned) < MaxConns + ExtraConns
        BY <3>3 DEF SizeInv, RoomInv
      <4> QED BY <3>2, <4>2, <4>3, <4>4, TableAssumption
    <3>4. CASE acc # "register"
      <4>1. open \subseteq Pruned
        BY <3>4 DEF TableInv, Counted, Pruned
      <4>2. Cardinality(open) <= Cardinality(Pruned)
        BY <4>1, <3>1, ListenerSets
      <4>3. Cardinality(Pruned) <= MaxConns + ExtraConns
        BY DEF SizeInv, RoomInv
      <4> QED BY <3>2, <4>2, <4>3, TableAssumption
    <3> QED BY <3>3, <3>4
  <2>2. Settled => {l \in table : running[l] /\ ~evicted[l]} = Staying
    BY DEF Staying
  <2>3. Counted
    BY DEF TableInv
  <2> QED BY <2>1, <2>2, <2>3 DEF OpenBound, Counted, SizeInv, RoomInv
<1> QED BY <1>1, TableInvAlways, SizeAlways, PTL

\* A connection is never given up for itself: supersede() keeps the newcomer,
\* whoever was active since it registered.
THEOREM NewcomerIsKept == Spec => NewcomerKept
<1>1. TableInv /\ SizeInv /\ [Next]_vars =>
        [\A l \in Listeners :
           acc = "supersede" /\ acc' = "top" /\ new = l /\ running[l]
             => ~evicted'[l]]_vars
  <2> SUFFICES ASSUME TableInv, SizeInv, Next, NEW l \in Listeners,
                      acc = "supersede", acc' = "top", new = l, running[l]
               PROVE  ~evicted'[l]
    BY DEF vars
  <2>1. supersede
    BY DEF Next, StreamsChange, DropApp, DropInstance, AcceptStep, AcceptStop,
           WaitForSlot, NoConnection, AcceptConnection, register, SpawnListener,
           SpawnFails, ListenerStep, StartRead, ListenerStops, ReadBundle,
           ReadTimeout, ReadEnds, CloseConn, ReleaseInstance, Finish, ListenerGoto
  <2> DEFINE gone == Stale(new) \cup {x \in Pruned : evicted[x]}
  <2>2. PICK V \in SUBSET Candidates(new, gone) :
          evicted' = [x \in Listeners |-> evicted[x] \/ x \in Stale(new) \cup V]
    BY <2>1, SupersedeEvicts
  <2>3. new \notin V /\ new \notin Stale(new)
    BY DEF Candidates, Stale
  <2>4. ~evicted[new]
    BY DEF SizeInv, NewInv, Settled
  <2> QED BY <2>2, <2>3, <2>4
<1> QED BY <1>1, TableInvAlways, SizeAlways, PTL DEF Spec, NewcomerKept

=============================================================================
