--------------------------- MODULE DeliveryProofs ---------------------------
(***************************************************************************)
(* Proofs about one hop of delivery, for any number of threads, bundles,   *)
(* links and fragments: a connection taken from the pool carries nothing   *)
(* of an earlier bundle, and the hop is the service BundleService          *)
(* promises.                                                               *)
(*                                                                         *)
(* The ack names no bundle, so that an OK is true rests on where           *)
(* connections have been: a pooled connection nobody uses is quiet         *)
(* (PooledInv), and one in use carries the fragments of its sender's       *)
(* bundle, in order, or its ack and nothing else (CarriesInv).  That a     *)
(* bundle is kept at most twice rests on a count: the copies kept and the  *)
(* copies that can still be completed never exceed the attempts made       *)
(* (CopyInv).                                                              *)
(***************************************************************************)
EXTENDS Delivery, ConnPoolProofs, FiniteSetTheorems

-----------------------------------------------------------------------------
(* The inductive invariant *)

Sending == {"checked"} \cup InSend

\* The calls in progress, and the numbers of those to come.
CallInv ==
    /\ \A k \in Calls :
         IF k > ops THEN outcome[k] = "none" /\ \A d \in Dests : got[k][d] = 0
         ELSE outcome[k] # "none" /\ target[k] \in Dests
    /\ \A t \in Threads : pc[t] # "idle" =>
         /\ pc[t] \in Sending
         /\ callOf[t] \in Calls /\ callOf[t] <= ops
         /\ outcome[callOf[t]] = "busy" /\ target[callOf[t]] = dest[t]
    /\ \A t, u \in Threads :
         pc[t] # "idle" /\ pc[u] # "idle" /\ callOf[t] = callOf[u] => t = u

\* An attempt is only in progress while its sender sends or waits.
AttemptInv ==
    \A t \in Threads : /\ pc[t] # "confirm" => sent[t] = 0
                       /\ pc[t] # "unlock" => ret[t] # "NONE"

OnLink(l, f) ==
    \/ \E i \in 1..Len(wire[l]) : wire[l][i] = f
    \/ \E i \in 1..Len(partial[l]) : partial[l][i] = f

Quiet(l) == wire[l] = <<>> /\ partial[l] = <<>> /\ acks[l] = <<>>

\* What travels on a link is addressed to its receiving node, once, and
\* nothing travels to a node that is gone.
FragInv ==
    \A l \in Links :
        /\ \A f \in Frag : OnLink(l, f) => f.call <= ops /\ target[f.call] = peer[l]
        /\ \A i, j \in 1..Len(wire[l]) : wire[l][i] = wire[l][j] => i = j
        /\ l > links => ~up[l] /\ Quiet(l)
        /\ ~up[l] => wire[l] = <<>> /\ partial[l] = <<>>

Pooled(c) == \E i \in Used : entries[i].conn = c

InUse(c) == \E t \in Threads : pc[t] = "confirm" /\ cur[t] = c

\* A pooled connection has a link of its own to its own peer, and is quiet
\* unless a sender uses it.
PooledInv ==
    /\ \A c \in Conns : Pooled(c) =>
         /\ linkOf[c] \in Links /\ linkOf[c] <= links
         /\ peer[linkOf[c]] = conns[c]
         /\ InUse(c) \/ Quiet(linkOf[c])
    /\ \A c, e \in Conns : Pooled(c) /\ Pooled(e) /\ linkOf[c] = linkOf[e] => c = e

\* The link of a sender carries the fragments of its bundle up to the last one
\* sent, or the ack of that bundle and nothing else.
Carries(t, l, k) ==
    /\ Len(partial[l]) + Len(wire[l]) <= sent[t]
    /\ \A i \in 1..Len(wire[l]) :
         wire[l][i] = [call |-> k, n |-> sent[t] - Len(wire[l]) + i]
    /\ \A i \in 1..Len(partial[l]) : partial[l][i] = [call |-> k, n |-> i]
    /\ acks[l] # <<>> =>
         /\ acks[l] = <<k>> /\ wire[l] = <<>> /\ partial[l] = <<>>
         /\ sent[t] = Fragments /\ got[k][target[k]] > 0

CarriesInv ==
    \A t \in Threads : pc[t] = "confirm" => Carries(t, linkOf[cur[t]], callOf[t])

\* Links on which the last fragment of call k is still to be received.
Flying(k) ==
    {l \in Links : \E i \in 1..Len(wire[l]) :
                     wire[l][i] = [call |-> k, n |-> Fragments]}

\* Attempts whose last fragment has been sent, at most.
Tried(t) ==
    CASE pc[t] = "checked" -> 0
      [] pc[t] \in {"get", "connect"} -> attempt[t]
      [] pc[t] = "confirm" -> attempt[t] + (IF sent[t] = Fragments THEN 1 ELSE 0)
      [] OTHER -> 2

Copies(k) == got[k][target[k]] + Cardinality(Flying(k))

\* No more copies than attempts.
CopyInv ==
    /\ \A k \in Calls : k <= ops => Copies(k) <= 2
    /\ \A t \in Threads : pc[t] # "idle" => Copies(callOf[t]) <= Tried(t)

\* An OK that is about to be reported is true.
OkInv ==
    \A t \in Threads : pc[t] = "unlock" /\ ret[t] = "NONE" =>
        got[callOf[t]][target[callOf[t]]] > 0

HopInv ==
    /\ DeliveryTypeOK /\ CallInv /\ AttemptInv /\ FragInv
    /\ PooledInv /\ CarriesInv /\ CopyInv /\ OkInv


-----------------------------------------------------------------------------
(* Operators *)

\* What csp_send() does to the fragments in flight.
LEMMA AppendFacts ==
    ASSUME NEW S, NEW s \in Seq(S), NEW e \in S
    PROVE  /\ Append(s, e) \in Seq(S)
           /\ Len(Append(s, e)) = Len(s) + 1
           /\ \A i \in 1..Len(s) : Append(s, e)[i] = s[i]
           /\ Append(s, e)[Len(s) + 1] = e
OBVIOUS

\* What csp_read() does to the packets in flight.
LEMMA TailFacts ==
    ASSUME NEW S, NEW s \in Seq(S), s # <<>>
    PROVE  /\ Tail(s) \in Seq(S) /\ Head(s) \in S /\ Head(s) = s[1]
           /\ Len(s) \in Nat \ {0} /\ Len(Tail(s)) = Len(s) - 1
           /\ \A i \in 1..Len(Tail(s)) : Tail(s)[i] = s[i + 1]
OBVIOUS

\* The links that carry a last fragment are finitely many.
LEMMA FlyingFinite ==
    ASSUME NEW k
    PROVE  IsFiniteSet(Flying(k)) /\ Cardinality(Flying(k)) \in Nat
<1>1. IsFiniteSet(Links)
  BY FS_Interval, DeliveryAssumption DEF Links
<1>2. Flying(k) \subseteq Links
  BY DEF Flying
<1> QED BY <1>1, <1>2, FS_Subset, FS_CardinalityType

\* Dropping one link, or adding at most one, changes the count by as much.
LEMMA CountLinks ==
    ASSUME NEW S, NEW T, NEW l, IsFiniteSet(S)
    PROVE  /\ T \subseteq S => Cardinality(T) <= Cardinality(S)
           /\ T \subseteq S \ {l} /\ l \in S => Cardinality(T) + 1 <= Cardinality(S)
           /\ T \subseteq S \cup {l} => Cardinality(T) <= Cardinality(S) + 1
           /\ Cardinality(S) \in Nat
<1>0. Cardinality(S) \in Nat
  BY FS_CardinalityType
<1>1. ASSUME T \subseteq S PROVE Cardinality(T) <= Cardinality(S)
  BY <1>1, FS_Subset
<1>2. ASSUME T \subseteq S \ {l}, l \in S
      PROVE  Cardinality(T) + 1 <= Cardinality(S)
  <2>1. IsFiniteSet(S \ {l}) /\ Cardinality(S \ {l}) = Cardinality(S) - 1
    BY <1>2, FS_RemoveElement
  <2>2. Cardinality(T) <= Cardinality(S \ {l}) /\ Cardinality(T) \in Nat
    BY <1>2, <2>1, FS_Subset, FS_CardinalityType
  <2> QED BY <1>0, <2>1, <2>2
<1>3. ASSUME T \subseteq S \cup {l}
      PROVE  Cardinality(T) <= Cardinality(S) + 1
  <2>1. IsFiniteSet(S \cup {l}) /\ Cardinality(S \cup {l}) <= Cardinality(S) + 1
    BY <1>0, FS_AddElement
  <2>2. Cardinality(T) <= Cardinality(S \cup {l}) /\ Cardinality(T) \in Nat
        /\ Cardinality(S \cup {l}) \in Nat
    BY <1>3, <2>1, FS_Subset, FS_CardinalityType
  <2> QED BY <1>0, <2>1, <2>2
<1> QED BY <1>0, <1>1, <1>2, <1>3

-----------------------------------------------------------------------------
(* The pool of a hop is the pool of ConnPool *)

\* Every step of a hop is a step of the pool or leaves the pool alone.
LEMMA HopIsPoolStep ==
    ASSUME [DeliveryNext]_deliveryVars
    PROVE  [Next]_vars
<1>1. ASSUME NEW t \in Threads, SenderStep(t) PROVE [Next]_vars
  <2>1. CASE PoolStep(t) \/ OpenLink(t) \/ TakeAck(t) \/ EndSend(t)
    <3>1. ThreadStep(t)
      BY <2>1 DEF PoolStep, OpenLink, TakeAck, EndSend, ThreadStep
    <3> QED BY <3>1 DEF Next
  <2>2. CASE AckTimeout(t) \/ \E r \in {"TIMEDOUT", "OTHER"} : SfpFails(t, r)
    <3>1. ThreadStep(t)
      BY <2>2 DEF AckTimeout, SfpFails, ThreadStep
    <3> QED BY <3>1 DEF Next
  <2>3. CASE SfpSend(t)
    BY <2>3 DEF SfpSend
  <2> QED BY <1>1, <2>1, <2>2, <2>3 DEF SenderStep
<1>2. ASSUME NEW t \in Threads, NEW d \in Dests, StartSend(t, d) PROVE [Next]_vars
  BY <1>2 DEF StartSend, Next, Call
<1>3. ASSUME NEW l \in Links, ReceiverStep(l) \/ LinkDies(l) PROVE [Next]_vars
  BY <1>3 DEF ReceiverStep, RecvFragment, RecvBundle, RecvTimeout, RecvMismatch,
              LinkDies, LinkDown
<1>4. CASE Lifecycle
  BY <1>4 DEF Lifecycle, Next
<1>5. CASE UNCHANGED deliveryVars
  BY <1>5 DEF deliveryVars
<1> QED BY <1>1, <1>2, <1>3, <1>4, <1>5 DEF DeliveryNext

\* So a hop's pool keeps the invariants of the pool.
LEMMA HopIsPool == DeliverySpec => Spec
<1>1. DeliveryInit => Init
  BY DEF DeliveryInit
<1>2. [DeliveryNext]_deliveryVars => [Next]_vars
  BY HopIsPoolStep
<1> QED BY <1>1, <1>2, PTL DEF DeliverySpec, Spec

\* The pool of the hop keeps its invariant.
LEMMA HopPoolInvariant == DeliverySpec => [](TypeInv /\ OwnInv)
BY HopIsPool, PoolInvariant, PTL

-----------------------------------------------------------------------------
(* Facts the steps share *)

Safe == TypeInv /\ OwnInv /\ HopInv

\* At the start nothing is called, pooled or in flight.
LEMMA HopInit == DeliveryInit => HopInv
<1> SUFFICES ASSUME DeliveryInit PROVE HopInv
  OBVIOUS
<1> USE ConnPoolAssumption, DeliveryAssumption DEF DeliveryInit, Init
<1>1. DeliveryTypeOK
  BY DEF DeliveryTypeOK, Calls, Links, Results
<1>2. Used = {}
  BY DEF Used, Free
<1>3. CallInv /\ AttemptInv /\ OkInv
  BY DEF CallInv, AttemptInv, OkInv, Calls
<1>4. FragInv
  BY DEF FragInv, OnLink, Quiet
<1>5. PooledInv /\ CarriesInv
  BY <1>2 DEF PooledInv, CarriesInv, Pooled
<1>6. CopyInv
  BY DEF CopyInv, Calls
<1> QED BY <1>1, <1>3, <1>4, <1>5, <1>6 DEF HopInv

\* A sender that sends or waits does so on a pooled connection to its own
\* destination, for its own call, and nobody else is in the send loop.
LEMMA SenderLink ==
    ASSUME Safe, NEW t \in Threads, pc[t] = "confirm"
    PROVE  /\ cur[t] \in Conns /\ Pooled(cur[t]) /\ InUse(cur[t])
           /\ conns[cur[t]] = dest[t] /\ dest[t] \in Dests
           /\ linkOf[cur[t]] \in Links /\ linkOf[cur[t]] <= links
           /\ peer[linkOf[cur[t]]] = dest[t]
           /\ callOf[t] \in Calls /\ callOf[t] <= ops
           /\ target[callOf[t]] = dest[t]
           /\ sent[t] \in 0..Fragments
           /\ \A u \in Threads : u # t => pc[u] \notin InSend
           /\ Carries(t, linkOf[cur[t]], callOf[t])
<1>1. PICK i \in Invalidated(dest[t]) : entries[i].conn = cur[t]
  BY DEF Safe, OwnInv, ConfirmsFirst
<1>2. i \in Used /\ entries[i].dest = dest[t]
  BY <1>1 DEF Invalidated
<1>3. cur[t] \in Conns /\ conns[cur[t]] = dest[t]
  BY <1>1, <1>2, OwnersHoldConns DEF Safe, OwnInv, EntriesOwnConns
<1>4. Pooled(cur[t]) /\ InUse(cur[t])
  BY <1>1, <1>2 DEF Pooled, InUse
<1>5. dest[t] \in Dests
  BY DEF Safe, TypeInv, TypeOK, OwnInv, ArgsValid
<1>6. linkOf[cur[t]] \in Links /\ linkOf[cur[t]] <= links /\ peer[linkOf[cur[t]]] = dest[t]
  BY <1>3, <1>4 DEF Safe, HopInv, PooledInv
<1>7. callOf[t] \in Calls /\ callOf[t] <= ops /\ target[callOf[t]] = dest[t]
  BY DEF Safe, HopInv, CallInv
<1>8. \A u \in Threads : u # t => pc[u] \notin InSend
  BY Alone DEF Safe, OwnInv, InSend
<1>9. sent[t] \in 0..Fragments /\ Carries(t, linkOf[cur[t]], callOf[t])
  BY DEF Safe, HopInv, DeliveryTypeOK, CarriesInv
<1> QED BY <1>3, <1>4, <1>5, <1>6, <1>7, <1>8, <1>9

\* Calls are undisturbed by steps inside a call and by the receivers.
LEMMA CallFrame ==
    ASSUME Safe, UNCHANGED <<callOf, target, outcome, ops, dest>>,
           \A u \in Threads :
               pc'[u] = pc[u] \/ (pc[u] \in Sending /\ pc'[u] \in Sending),
           \A k \in Calls : k > ops => got'[k] = got[k]
    PROVE  CallInv'
<1>1. \A u \in Threads : pc'[u] # "idle" => pc[u] # "idle" /\ pc'[u] \in Sending
  BY DEF Sending, InSend, Safe, HopInv, CallInv
<1>2. \A k \in Calls :
         IF k > ops' THEN outcome'[k] = "none" /\ \A d \in Dests : got'[k][d] = 0
         ELSE outcome'[k] # "none" /\ target'[k] \in Dests
  BY DEF Safe, HopInv, CallInv
<1>3. \A u \in Threads : pc'[u] # "idle" =>
         /\ pc'[u] \in Sending
         /\ callOf'[u] \in Calls /\ callOf'[u] <= ops'
         /\ outcome'[callOf'[u]] = "busy" /\ target'[callOf'[u]] = dest'[u]
  BY <1>1 DEF Safe, HopInv, CallInv
<1>4. \A t, u \in Threads :
         pc'[t] # "idle" /\ pc'[u] # "idle" /\ callOf'[t] = callOf'[u] => t = u
  BY <1>1 DEF Safe, HopInv, CallInv
<1> QED BY <1>2, <1>3, <1>4 DEF CallInv

\* What travels is undisturbed by steps that leave the links alone.
LEMMA FragFrame ==
    ASSUME Safe, UNCHANGED <<wire, partial, acks, up, links, peer, target, ops>>
    PROVE  FragInv'
BY DEF Safe, HopInv, FragInv, OnLink, Quiet

\* Steps that only close entries keep the pooled connections in order; a
\* sender that stops using a connection leaves it quiet or closes it.
LEMMA PooledFrame ==
    ASSUME Safe, UNCHANGED <<linkOf, links, peer, wire, partial>>,
           \A c \in Conns : Pooled(c)' => Pooled(c) /\ conns'[c] = conns[c],
           \A c \in Conns : Pooled(c)' /\ InUse(c) => InUse(c)' \/ Quiet(linkOf[c])',
           \A c \in Conns : Pooled(c) /\ ~InUse(c) => acks'[linkOf[c]] = acks[linkOf[c]]
    PROVE  PooledInv'
<1>1. ASSUME NEW c \in Conns, Pooled(c)'
      PROVE  /\ linkOf'[c] \in Links /\ linkOf'[c] <= links'
             /\ peer'[linkOf'[c]] = conns'[c]
             /\ InUse(c)' \/ Quiet(linkOf[c])'
  <2>1. Pooled(c) /\ conns'[c] = conns[c]
    BY <1>1
  <2>2. InUse(c)' \/ Quiet(linkOf[c])'
    <3>1. CASE InUse(c)
      BY <1>1, <3>1
    <3>2. CASE ~InUse(c)
      BY <2>1, <3>2 DEF Safe, HopInv, PooledInv, Quiet
    <3> QED BY <3>1, <3>2
  <2> QED BY <2>1, <2>2 DEF Safe, HopInv, PooledInv
<1>2. ASSUME NEW c \in Conns, NEW e \in Conns, Pooled(c)', Pooled(e)',
             linkOf'[c] = linkOf'[e]
      PROVE  c = e
  BY <1>2 DEF Safe, HopInv, PooledInv
<1> QED BY <1>1, <1>2 DEF PooledInv

\* Attempts and copies are counted in natural numbers, and a call that is
\* still sending has made at most two attempts.
LEMMA CountTypes ==
    ASSUME Safe
    PROVE  /\ \A u \in Threads : Tried(u) \in 0..2
           /\ \A k \in Calls : k <= ops => /\ target[k] \in Dests
                                           /\ got[k][target[k]] \in Nat
                                           /\ Copies(k) \in Nat
<1>1. ASSUME NEW u \in Threads PROVE Tried(u) \in 0..2
  <2>1. attempt[u] \in 0..2 /\ (pc[u] # "unlock" => attempt[u] <= 1)
    BY DEF Safe, TypeInv, TypeOK, AttemptBound
  <2> QED BY <2>1 DEF Tried
<1>2. ASSUME NEW k \in Calls, k <= ops
      PROVE  target[k] \in Dests /\ got[k][target[k]] \in Nat /\ Copies(k) \in Nat
  <2>1. target[k] \in Dests
    BY <1>2 DEF Safe, HopInv, CallInv, TypeInv, TypeOK, Calls
  <2>2. got[k][target[k]] \in Nat
    BY <2>1 DEF Safe, HopInv, DeliveryTypeOK
  <2> QED BY <2>1, <2>2, FlyingFinite DEF Copies
<1> QED BY <1>1, <1>2

\* No copy is made by a step that leaves wires and bundles alone.
LEMMA CopyFrame ==
    ASSUME Safe, UNCHANGED <<wire, got, target, callOf, ops>>,
           \A u \in Threads : pc'[u] # "idle" =>
               pc[u] # "idle" /\ Tried(u)' \in Nat /\ Tried(u) <= Tried(u)'
    PROVE  CopyInv'
<1>1. \A k : Flying(k)' = Flying(k)
  BY DEF Flying
<1>2. \A k : Copies(k)' = Copies(k)
  BY <1>1 DEF Copies
<1>3. \A k \in Calls : k <= ops' => Copies(k)' <= 2
  BY <1>2 DEF Safe, HopInv, CopyInv
<1>4. ASSUME NEW u \in Threads, pc'[u] # "idle"
      PROVE  Copies(callOf[u])' <= Tried(u)'
  <2>1. pc[u] # "idle" /\ Tried(u) <= Tried(u)' /\ Tried(u)' \in Nat
    BY <1>4
  <2>2. callOf[u] \in Calls /\ callOf[u] <= ops
    BY <2>1 DEF Safe, HopInv, CallInv
  <2>3. Copies(callOf[u]) <= Tried(u) /\ Copies(callOf[u]) \in Nat /\ Tried(u) \in Nat
    BY <2>1, <2>2, CountTypes DEF Safe, HopInv, CopyInv
  <2> QED BY <1>2, <2>1, <2>3
<1> QED BY <1>3, <1>4 DEF CopyInv

-----------------------------------------------------------------------------
(* The sender's steps on its pool *)

\* Closing one entry, and nothing else, leaves the other pooled connections.
LEMMA CloseShrinks ==
    ASSUME Safe, NEW i \in Used, CloseEntry(i)
    PROVE  \A c \in Conns :
             Pooled(c)' => /\ Pooled(c) /\ conns'[c] = conns[c]
                           /\ c # entries[i].conn
<1>1. /\ Used' = Used \ {i}
      /\ \A j \in Used' : entries'[j] = entries[j]
      /\ \A c \in Conns : c # entries[i].conn => conns'[c] = conns[c]
  BY CloseFacts DEF Safe, TypeInv, OwnInv
<1> SUFFICES ASSUME NEW c \in Conns, Pooled(c)'
             PROVE  Pooled(c) /\ conns'[c] = conns[c] /\ c # entries[i].conn
  OBVIOUS
<1>2. PICK j \in Used' : entries'[j].conn = c
  BY DEF Pooled
<1>3. j \in Used /\ j # i /\ entries[j].conn = c
  BY <1>1, <1>2
<1>4. c # entries[i].conn
  BY <1>3 DEF Safe, OwnInv, EntriesOwnConns
<1> QED BY <1>1, <1>3, <1>4 DEF Pooled

\* The control of a step on the pool.
LEMMA PoolControl ==
    ASSUME Safe, NEW t \in Threads, PoolStep(t)
    PROVE  /\ UNCHANGED <<dest, attempt, ops>>
           /\ \/ pc[t] = "checked" /\ pc'[t] = "get"
              \/ pc[t] = "get" /\ pc'[t] \in {"connect", "confirm"}
              \/ pc[t] = "connect" /\ pc'[t] = "unlock"
           /\ \A u \in Threads : u # t => /\ pc'[u] = pc[u] /\ cur'[u] = cur[u]
                                          /\ pc[u] \notin InSend
           /\ \A u \in Threads : ret'[u] = "NONE" => ret[u] = "NONE"
           /\ UNCHANGED <<callOf, target, outcome, linkOf, links, peer, up, wire,
                          acks, partial, sent, got>>
<1>1. UNCHANGED <<callOf, target, outcome, linkOf, links, peer, up, wire,
                  acks, partial, sent, got>>
  BY DEF PoolStep, callVars, linkVars
<1>2. CASE SendLock(t)
  <2>1. \A u \in Threads : pc[u] \notin InSend
    BY <1>2, ConnPoolAssumption DEF SendLock, Safe, OwnInv, LockHeld
  <2> QED BY <1>1, <1>2, <2>1 DEF SendLock, Goto, Safe, TypeInv, TypeOK
<1>3. CASE GetHit(t) \/ GetAged(t) \/ GetFree(t) \/ GetEvict(t)
  <2>1. /\ pc[t] = "get" /\ UNCHANGED <<dest, attempt, ops, ret>>
        /\ \E x \in {"connect", "confirm"} : pc' = [pc EXCEPT ![t] = x]
    BY <1>3 DEF GetHit, GetAged, GetFree, GetEvict, Goto
  <2>2. UNCHANGED cur \/ \E c : cur' = [cur EXCEPT ![t] = c]
    BY <1>3, Zenon DEF GetHit, GetAged, GetFree, GetEvict
  <2>3. \A u \in Threads : u # t => pc[u] \notin InSend
    BY <2>1, Alone DEF Safe, OwnInv, InSend
  <2> QED BY <1>1, <2>1, <2>2, <2>3 DEF Safe, TypeInv, TypeOK
<1>4. CASE ConnectFails(t)
  <2>1. \A u \in Threads : u # t => pc[u] \notin InSend
    BY <1>4, Alone DEF ConnectFails, Safe, OwnInv, InSend
  <2> QED BY <1>1, <1>4, <2>1 DEF ConnectFails, Goto, Safe, TypeInv, TypeOK
<1> QED BY <1>2, <1>3, <1>4 DEF PoolStep

\* A lookup only closes entries; a hit selects one that stays.
LEMMA PoolShrinks ==
    ASSUME Safe, NEW t \in Threads, PoolStep(t)
    PROVE  /\ \A c \in Conns : Pooled(c)' => Pooled(c) /\ conns'[c] = conns[c]
           /\ pc'[t] = "confirm" => cur'[t] \in Conns /\ Pooled(cur'[t])
<1>1. CASE SendLock(t) \/ GetFree(t) \/ ConnectFails(t)
  <2>1. UNCHANGED <<entries, conns>> /\ \E x \in {"get", "connect", "unlock"} :
          pc' = [pc EXCEPT ![t] = x]
    BY <1>1 DEF SendLock, GetFree, ConnectFails, Goto
  <2> QED BY <2>1 DEF Pooled, Used, Safe, TypeInv, TypeOK
<1>2. CASE GetHit(t)
  <2> DEFINE i == Min(Matches(dest[t]))
  <2>1. i \in Matches(dest[t])
    BY <1>2, FirstSlot DEF GetHit, Matches, Used
  <2>2. entries' = [entries EXCEPT ![i].last_used = NextTick]
        /\ cur' = [cur EXCEPT ![t] = entries[i].conn] /\ UNCHANGED conns
    BY <1>2 DEF GetHit
  <2> HIDE DEF i
  <2>3. \A j \in Slots : /\ entries'[j].used = entries[j].used
                         /\ entries'[j].conn = entries[j].conn
    BY <2>2 DEF Safe, TypeInv, TypeOK, Entry
  <2>4. Used' = Used /\ Used \subseteq Slots
    BY <2>3 DEF Used
  <2>5. i \in Used /\ cur'[t] = entries[i].conn
    BY <2>1, <2>2 DEF Matches, Safe, TypeInv, TypeOK
  <2>6. cur'[t] \in Conns /\ Pooled(cur'[t])
    BY <2>5, OwnersHoldConns DEF Pooled, Safe
  <2> QED BY <2>2, <2>3, <2>4, <2>6 DEF Pooled
<1>3. CASE GetAged(t)
  <2>1. Min(Matches(dest[t])) \in Used /\ CloseEntry(Min(Matches(dest[t])))
    BY <1>3, FirstSlot DEF GetAged, Matches, Used
  <2>2. pc'[t] # "confirm"
    BY <1>3 DEF GetAged, Goto, Safe, TypeInv, TypeOK
  <2> QED BY <2>1, <2>2, CloseShrinks
<1>4. CASE GetEvict(t)
  <2>1. LruSlot \in Used /\ CloseEntry(LruSlot)
    BY <1>4, LruSlotInSlots DEF GetEvict, Safe, TypeInv
  <2>2. pc'[t] # "confirm"
    BY <1>4 DEF GetEvict, Goto, Safe, TypeInv, TypeOK
  <2> QED BY <2>1, <2>2, CloseShrinks
<1> QED BY <1>1, <1>2, <1>3, <1>4 DEF PoolStep

\* Taking the mutex, looking a connection up and failing to open one keep the
\* invariant: a connection that is taken was quiet.
LEMMA PoolStepHop ==
    ASSUME Safe, NEW t \in Threads, PoolStep(t)
    PROVE  HopInv'
<1>0. /\ UNCHANGED <<dest, attempt, ops>>
      /\ \/ pc[t] = "checked" /\ pc'[t] = "get"
         \/ pc[t] = "get" /\ pc'[t] \in {"connect", "confirm"}
         \/ pc[t] = "connect" /\ pc'[t] = "unlock"
      /\ \A u \in Threads : u # t => /\ pc'[u] = pc[u] /\ cur'[u] = cur[u]
                                     /\ pc[u] \notin InSend
      /\ \A u \in Threads : ret'[u] = "NONE" => ret[u] = "NONE"
      /\ UNCHANGED <<callOf, target, outcome, linkOf, links, peer, up, wire,
                     acks, partial, sent, got>>
  BY PoolControl
<1>1. /\ \A c \in Conns : Pooled(c)' => Pooled(c) /\ conns'[c] = conns[c]
      /\ pc'[t] = "confirm" => cur'[t] \in Conns /\ Pooled(cur'[t])
  BY PoolShrinks
<1>2. \A c : ~InUse(c)
  BY <1>0 DEF InUse, InSend
<1>3. DeliveryTypeOK'
  BY <1>0 DEF Safe, HopInv, DeliveryTypeOK
<1>4. CallInv'
  BY <1>0, CallFrame DEF Sending, InSend
<1>5. AttemptInv' /\ OkInv'
  <2>1. \A u \in Threads : ret'[u] # "NONE"
    BY <1>0 DEF Safe, HopInv, AttemptInv, InSend
  <2> QED BY <1>0, <2>1 DEF Safe, HopInv, AttemptInv, OkInv
<1>6. FragInv'
  BY <1>0, FragFrame
<1>7. PooledInv'
  BY <1>0, <1>1, <1>2, PooledFrame
<1>8. CarriesInv'
  <2> SUFFICES ASSUME NEW u \in Threads, pc'[u] = "confirm"
               PROVE  Carries(u, linkOf[cur[u]], callOf[u])'
    BY DEF CarriesInv
  <2>1. u = t /\ pc[t] = "get"
    BY <1>0 DEF InSend
  <2>2. Quiet(linkOf[cur'[t]]) /\ linkOf[cur'[t]] \in Links
    BY <1>1, <1>2, <2>1 DEF Safe, HopInv, PooledInv
  <2>3. sent[t] = 0
    BY <2>1 DEF Safe, HopInv, AttemptInv
  <2> QED BY <1>0, <2>1, <2>2, <2>3 DEF Carries, Quiet
<1>9. CopyInv'
  <2>1. ASSUME NEW u \in Threads, pc'[u] # "idle"
        PROVE  pc[u] # "idle" /\ Tried(u)' \in Nat /\ Tried(u) <= Tried(u)'
    <3>1. CASE u # t
      <4>1. pc'[u] = pc[u] /\ Tried(u)' = Tried(u)
        BY <1>0, <3>1 DEF Tried
      <4> QED BY <2>1, <4>1, CountTypes
    <3>2. CASE u = t
      <4>1. attempt[t] \in 0..1 /\ sent[t] = 0 /\ Fragments # 0
        BY <1>0, DeliveryAssumption DEF Safe, TypeInv, TypeOK, AttemptBound, HopInv, AttemptInv
      <4> QED BY <1>0, <3>2, <4>1 DEF Tried
    <3> QED BY <3>1, <3>2
  <2> QED BY <1>0, <2>1, CopyFrame
<1> QED BY <1>3, <1>4, <1>5, <1>6, <1>7, <1>8, <1>9 DEF HopInv

-----------------------------------------------------------------------------
(* Opening a link *)

\* csp_connect() makes a link of its own for a connection object that nobody
\* had, so nothing of an earlier bundle is on it.
LEMMA OpenLinkHop ==
    ASSUME Safe, NEW t \in Threads, OpenLink(t)
    PROVE  HopInv'
<1> DEFINE m == links + 1
<1>1. /\ pc[t] = "connect" /\ pc' = [pc EXCEPT ![t] = "confirm"]
      /\ UNCHANGED <<dest, attempt, slot, ret, ops>>
  BY DEF OpenLink, ConnectOK, Goto
<1>2. PICK c \in Conns :
        /\ conns[c] = NULL
        /\ conns' = [conns EXCEPT ![c] = dest[t]]
        /\ entries' = [entries EXCEPT ![slot[t]] = Filled(dest[t], c)]
        /\ cur' = [cur EXCEPT ![t] = c]
  BY DEF OpenLink, ConnectOK
<1>3. cur'[t] = c
  BY <1>2 DEF Safe, TypeInv, TypeOK
<1>4. /\ links < MaxLinks /\ links' = m
      /\ linkOf' = [linkOf EXCEPT ![c] = m]
      /\ peer' = [peer EXCEPT ![m] = dest[t]]
      /\ up' = [up EXCEPT ![m] = TRUE]
      /\ UNCHANGED <<callOf, target, outcome, wire, acks, partial, sent, got>>
  BY <1>3 DEF OpenLink, callVars
<1>5. m \in Links /\ links \in Nat /\ m \in Nat
  BY <1>4, DeliveryAssumption DEF Safe, HopInv, DeliveryTypeOK, Links
<1> HIDE DEF m
<1>6. dest[t] \in Dests
  BY <1>1 DEF Safe, TypeInv, TypeOK, OwnInv, ArgsValid
<1>7. \A u \in Threads : u # t => /\ pc'[u] = pc[u] /\ cur'[u] = cur[u]
                                  /\ pc[u] \notin InSend
  BY <1>1, <1>2, Alone DEF Safe, OwnInv, InSend, TypeInv, TypeOK
<1>8. pc'[t] = "confirm" /\ sent[t] = 0
  BY <1>1 DEF Safe, TypeInv, TypeOK, HopInv, AttemptInv
<1>9. Quiet(m) /\ \A l \in Links : l <= links => l # m
  <2>1. m > links
    BY <1>5 DEF m
  <2> QED BY <1>5, <2>1 DEF Safe, HopInv, FragInv, Links
<1>10. DeliveryTypeOK'
  <2>1. linkOf' \in [Conns -> 0..MaxLinks] /\ links' \in 0..MaxLinks
    BY <1>4, <1>5 DEF Safe, HopInv, DeliveryTypeOK, Links
  <2>2. peer' \in [Links -> Dests \cup {NULL}] /\ up' \in [Links -> BOOLEAN]
    BY <1>4, <1>5, <1>6 DEF Safe, HopInv, DeliveryTypeOK
  <2> QED BY <1>4, <2>1, <2>2 DEF Safe, HopInv, DeliveryTypeOK
<1>11. CallInv'
  BY <1>1, <1>4, <1>7, <1>8, CallFrame DEF Sending, InSend
<1>12. AttemptInv' /\ OkInv'
  BY <1>1, <1>4, <1>7, <1>8 DEF Safe, HopInv, AttemptInv, OkInv
<1>13. FragInv'
  <2> SUFFICES ASSUME NEW l \in Links
               PROVE  /\ \A f \in Frag : OnLink(l, f)' =>
                           f.call <= ops' /\ target'[f.call] = peer'[l]
                      /\ \A i, j \in 1..Len(wire'[l]) : wire'[l][i] = wire'[l][j] => i = j
                      /\ l > links' => ~up'[l] /\ Quiet(l)'
                      /\ ~up'[l] => wire'[l] = <<>> /\ partial'[l] = <<>>
    BY DEF FragInv
  <2>1. \A f \in Frag : OnLink(l, f)' => OnLink(l, f) /\ l # m
    BY <1>4, <1>9 DEF OnLink, Quiet
  <2>2. l # m => peer'[l] = peer[l] /\ up'[l] = up[l]
    BY <1>4 DEF Safe, HopInv, DeliveryTypeOK
  <2>3. \A f \in Frag : OnLink(l, f)' => f.call <= ops' /\ target'[f.call] = peer'[l]
    BY <1>1, <1>4, <2>1, <2>2 DEF Safe, HopInv, FragInv
  <2>4. l > links' => ~up'[l] /\ Quiet(l)'
    <3>1. l > links' => l > links /\ l # m
      BY <1>4, <1>5 DEF m, Links
    <3> QED BY <1>4, <2>2, <3>1 DEF Safe, HopInv, FragInv, Quiet
  <2>5. \A i, j \in 1..Len(wire'[l]) : wire'[l][i] = wire'[l][j] => i = j
    BY <1>4 DEF Safe, HopInv, FragInv
  <2>6. ~up'[l] => wire'[l] = <<>> /\ partial'[l] = <<>>
    BY <1>4, <1>5, <2>2 DEF Safe, HopInv, FragInv, DeliveryTypeOK
  <2> QED BY <2>3, <2>4, <2>5, <2>6
<1>14. PooledInv'
  <2>1. \A x \in Conns : Pooled(x)' => x = c \/ (x # c /\ Pooled(x))
    <3>1. slot[t] \in Slots \ Used
      BY <1>1 DEF Safe, TypeInv, TypeOK, OwnInv, RoomToConnect, Used
    <3>2. /\ Used' = Used \cup {slot[t]} /\ entries'[slot[t]].conn = c
          /\ \A j \in Used : entries'[j] = entries[j]
      BY <1>2, <3>1 DEF Used, Filled, Safe, TypeInv, TypeOK
    <3> QED BY <3>2 DEF Pooled
  <2>2. linkOf'[c] = m /\ peer'[m] = dest[t] /\ conns'[c] = dest[t]
    BY <1>2, <1>4, <1>5 DEF Safe, HopInv, DeliveryTypeOK, TypeInv, TypeOK
  <2>3. InUse(c)'
    BY <1>3, <1>8 DEF InUse
  <2>4. \A x : ~InUse(x)
    BY <1>1, <1>7 DEF InUse, InSend
  <2>5. ASSUME NEW x \in Conns, x # c, Pooled(x)
        PROVE  /\ linkOf'[x] = linkOf[x] /\ linkOf[x] \in Links /\ linkOf[x] <= links
               /\ linkOf[x] # m
               /\ peer'[linkOf[x]] = peer[linkOf[x]] /\ conns'[x] = conns[x]
               /\ peer[linkOf[x]] = conns[x] /\ Quiet(linkOf[x])'
    <3>1. linkOf[x] \in Links /\ linkOf[x] <= links /\ peer[linkOf[x]] = conns[x]
          /\ Quiet(linkOf[x])
      BY <2>4, <2>5 DEF Safe, HopInv, PooledInv
    <3>2. linkOf[x] # m
      BY <1>9, <3>1
    <3>3. linkOf'[x] = linkOf[x] /\ peer'[linkOf[x]] = peer[linkOf[x]]
          /\ conns'[x] = conns[x]
      BY <1>2, <1>4, <2>5, <3>1, <3>2 DEF Safe, HopInv, DeliveryTypeOK, TypeInv, TypeOK
    <3>4. Quiet(linkOf[x])'
      BY <1>4, <3>1, <3>3 DEF Quiet
    <3> QED BY <3>1, <3>2, <3>3, <3>4
  <2>6. ASSUME NEW x \in Conns, Pooled(x)'
        PROVE  /\ linkOf'[x] \in Links /\ linkOf'[x] <= links'
               /\ peer'[linkOf'[x]] = conns'[x]
               /\ InUse(x)' \/ Quiet(linkOf[x])'
    <3>1. CASE x = c
      BY <1>4, <1>5, <2>2, <2>3, <3>1
    <3>2. CASE x # c
      <4>1. linkOf[x] <= links'
        BY <1>4, <1>5, <2>1, <2>5, <2>6, <3>2 DEF m, Links
      <4> QED BY <2>1, <2>5, <2>6, <3>2, <4>1
    <3> QED BY <3>1, <3>2
  <2>7. ASSUME NEW x \in Conns, NEW y \in Conns, Pooled(x)', Pooled(y)',
               linkOf'[x] = linkOf'[y]
        PROVE  x = y
    BY <2>1, <2>2, <2>5, <2>7 DEF Safe, HopInv, PooledInv
  <2> QED BY <2>6, <2>7 DEF PooledInv
<1>15. CarriesInv'
  <2> SUFFICES ASSUME NEW u \in Threads, pc'[u] = "confirm"
               PROVE  Carries(u, linkOf[cur[u]], callOf[u])'
    BY DEF CarriesInv
  <2>1. u = t
    BY <1>7 DEF InSend
  <2>2. linkOf'[cur'[t]] = m
    BY <1>3, <1>4, <1>5 DEF Safe, HopInv, DeliveryTypeOK
  <2>3. Quiet(linkOf[cur[u]])' /\ sent'[u] = 0
    BY <1>4, <1>8, <1>9, <2>1, <2>2 DEF Quiet
  <2> QED BY <2>3 DEF Carries, Quiet
<1>16. CopyInv'
  <2>1. ASSUME NEW u \in Threads, pc'[u] # "idle"
        PROVE  pc[u] # "idle" /\ Tried(u)' \in Nat /\ Tried(u) <= Tried(u)'
    <3>1. CASE u # t
      <4>1. pc'[u] = pc[u] /\ Tried(u)' = Tried(u)
        BY <1>1, <1>4, <1>7, <3>1 DEF Tried
      <4> QED BY <2>1, <4>1, CountTypes
    <3>2. CASE u = t
      <4>1. attempt[t] \in 0..1 /\ Fragments # 0
        BY <1>1, DeliveryAssumption DEF Safe, TypeInv, TypeOK, AttemptBound
      <4> QED BY <1>1, <1>4, <1>8, <3>2, <4>1 DEF Tried
    <3> QED BY <3>1, <3>2
  <2> QED BY <1>1, <1>4, <2>1, CopyFrame
<1> QED BY <1>10, <1>11, <1>12, <1>13, <1>14, <1>15, <1>16 DEF HopInv

-----------------------------------------------------------------------------
(* Sending and waiting *)

\* Handing a fragment to csp_send() keeps the invariant: the fragment follows
\* the ones of the same bundle, and the last one of a bundle counts against
\* the attempt.
LEMMA SfpSendHop ==
    ASSUME Safe, NEW t \in Threads, SfpSend(t)
    PROVE  HopInv'
<1>1. /\ pc[t] = "confirm" /\ sent[t] < Fragments
      /\ sent' = [sent EXCEPT ![t] = @ + 1]
      /\ UNCHANGED <<vars, callOf, target, outcome, linkOf, links, peer, up,
                     acks, partial, got>>
  BY DEF SfpSend, callVars
<1>2. UNCHANGED <<entries, conns, pc, dest, attempt, cur, ret, ops>>
  BY <1>1 DEF vars, poolVars, threadVars
<1>3. PICK l \in Links, k \in Calls : l = linkOf[cur[t]] /\ k = callOf[t]
  BY <1>1, SenderLink
<1>4. /\ cur[t] \in Conns /\ Pooled(cur[t]) /\ InUse(cur[t])
      /\ l <= links /\ peer[l] = dest[t] /\ dest[t] \in Dests
      /\ k <= ops /\ target[k] = dest[t]
      /\ \A u \in Threads : u # t => pc[u] \notin InSend
      /\ Carries(t, l, k)
  BY <1>1, <1>3, SenderLink
<1>5. sent[t] \in 0..Fragments /\ Fragments \in Nat /\ sent'[t] = sent[t] + 1
      /\ \A u \in Threads : u # t => sent'[u] = sent[u]
  BY <1>1, DeliveryAssumption DEF Safe, HopInv, DeliveryTypeOK
<1>6. PICK f \in Frag : f = [call |-> k, n |-> sent[t] + 1]
  <2>1. sent[t] + 1 \in 1..Fragments
    BY <1>1, <1>5
  <2> QED BY <2>1 DEF Frag
<1>6a. wire' = IF up[l] THEN [wire EXCEPT ![l] = Append(@, f)] ELSE wire
  <2>1. f = [call |-> callOf[t], n |-> sent'[t]]
    BY <1>3, <1>5, <1>6
  <2> QED BY <1>3, <2>1 DEF SfpSend
<1>7. wire[l] \in Seq(Frag) /\ wire \in [Links -> Seq(Frag)]
      /\ partial[l] \in Seq(Frag)
  BY DEF Safe, HopInv, DeliveryTypeOK
<1>8. \A x \in Links : x # l => wire'[x] = wire[x]
  BY <1>6a, <1>7
<1>9. ~up[l] => wire'[l] = <<>> /\ wire[l] = <<>> /\ partial[l] = <<>>
  BY <1>6a DEF Safe, HopInv, FragInv
<1>10. up[l] => /\ wire'[l] = Append(wire[l], f)
                /\ wire'[l] \in Seq(Frag) /\ Len(wire'[l]) = Len(wire[l]) + 1
                /\ \A i \in 1..Len(wire[l]) : wire'[l][i] = wire[l][i]
                /\ wire'[l][Len(wire[l]) + 1] = f
  <2>1. up[l] => wire'[l] = Append(wire[l], f)
    BY <1>6a, <1>7
  <2>2. /\ Append(wire[l], f) \in Seq(Frag)
        /\ Len(Append(wire[l], f)) = Len(wire[l]) + 1
        /\ \A i \in 1..Len(wire[l]) : Append(wire[l], f)[i] = wire[l][i]
        /\ Append(wire[l], f)[Len(wire[l]) + 1] = f
    BY <1>7, AppendFacts
  <2> QED BY <2>1, <2>2
<1>11. Len(wire[l]) \in Nat /\ Len(partial[l]) \in Nat
       /\ Len(partial[l]) + Len(wire[l]) <= sent[t]
  BY <1>4, <1>7 DEF Carries
<1>11a. \A i \in 1..Len(wire[l]) :
          wire[l][i] = [call |-> k, n |-> sent[t] - Len(wire[l]) + i]
  BY <1>4 DEF Carries
<1>11b. up[l] => Len(wire'[l]) = Len(wire[l]) + 1
  BY <1>10
<1>12. DeliveryTypeOK'
  <2>1. sent' \in [Threads -> 0..Fragments]
    BY <1>1, <1>5 DEF Safe, HopInv, DeliveryTypeOK
  <2>2. wire' \in [Links -> Seq(Frag)]
    BY <1>6a, <1>7, AppendFacts
  <2> QED BY <1>1, <2>1, <2>2 DEF Safe, HopInv, DeliveryTypeOK
<1>13. CallInv'
  BY <1>1, <1>2, CallFrame
<1>14. AttemptInv' /\ OkInv'
  BY <1>1, <1>2, <1>5 DEF Safe, HopInv, AttemptInv, OkInv
<1>15. FragInv'
  <2> SUFFICES ASSUME NEW x \in Links
               PROVE  /\ \A g \in Frag : OnLink(x, g)' =>
                           g.call <= ops' /\ target'[g.call] = peer'[x]
                      /\ \A i, j \in 1..Len(wire'[x]) : wire'[x][i] = wire'[x][j] => i = j
                      /\ x > links' => ~up'[x] /\ Quiet(x)'
                      /\ ~up'[x] => wire'[x] = <<>> /\ partial'[x] = <<>>
    BY DEF FragInv
  <2>1. CASE x # l
    <3>1. wire'[x] = wire[x] /\ \A g \in Frag : OnLink(x, g)' => OnLink(x, g)
      BY <1>1, <1>8, <2>1 DEF OnLink
    <3> QED BY <1>1, <1>2, <3>1 DEF Safe, HopInv, FragInv, Quiet
  <2>2. CASE x = l
    <3>1. \A g \in Frag : OnLink(l, g)' => OnLink(l, g) \/ g = f
      <4>1. CASE up[l]
        <5>1. \A i \in 1..Len(wire'[l]) : i \in 1..Len(wire[l]) \/ i = Len(wire[l]) + 1
          BY <1>10, <1>11, <4>1
        <5> SUFFICES ASSUME NEW g \in Frag, NEW i \in 1..Len(wire'[l]), wire'[l][i] = g
                     PROVE  OnLink(l, g) \/ g = f
          BY <1>1 DEF OnLink
        <5> QED BY <1>10, <4>1, <5>1 DEF OnLink
      <4>2. CASE ~up[l]
        <5>1. UNCHANGED <<wire, partial>>
          BY <1>1, <1>6a, <4>2
        <5> QED BY <5>1 DEF OnLink
      <4> QED BY <4>1, <4>2
    <3>2. \A g \in Frag : OnLink(l, g)' => g.call <= ops' /\ target'[g.call] = peer'[l]
      <4>1. f.call = k
        BY <1>6
      <4> QED BY <1>1, <1>2, <1>4, <3>1, <4>1 DEF Safe, HopInv, FragInv
    <3>3. \A i, j \in 1..Len(wire'[l]) : wire'[l][i] = wire'[l][j] => i = j
      <4>1. CASE up[l]
        <5>1. \A i \in 1..Len(wire'[l]) :
                wire'[l][i].n = sent[t] - Len(wire[l]) + i
          <6> TAKE i \in 1..Len(wire'[l])
          <6>1. i \in 1..Len(wire[l]) \/ i = Len(wire[l]) + 1
            BY <1>10, <1>11, <4>1
          <6>2. CASE i \in 1..Len(wire[l])
            <7>1. wire'[l][i] = wire[l][i]
              BY <1>10, <4>1, <6>2
            <7>2. wire[l][i] = [call |-> k, n |-> sent[t] - Len(wire[l]) + i]
              BY <1>11a, <6>2
            <7>3. wire'[l][i] = [call |-> k, n |-> sent[t] - Len(wire[l]) + i]
              BY <7>1, <7>2
            <7> QED BY <1>5, <1>11, <6>2, <7>3
          <6>3. CASE i = Len(wire[l]) + 1
            BY <1>5, <1>6, <1>10, <1>11, <4>1, <6>3
          <6> QED BY <6>1, <6>2, <6>3
        <5>2. Len(wire'[l]) \in Nat
          BY <1>10, <1>11, <4>1
        <5> SUFFICES ASSUME NEW i \in 1..Len(wire'[l]), NEW j \in 1..Len(wire'[l]),
                            wire'[l][i].n = wire'[l][j].n
                     PROVE  i = j
          OBVIOUS
        <5>3. sent[t] - Len(wire[l]) + i = sent[t] - Len(wire[l]) + j
          BY <5>1
        <5> QED BY <1>5, <1>11, <5>2, <5>3
      <4>2. CASE ~up[l]
        BY <1>9, <4>2
      <4> QED BY <4>1, <4>2
    <3>4. ~(l > links')
      BY <1>1, <1>4 DEF Links, Safe, HopInv, DeliveryTypeOK
    <3>5. ~up'[l] => wire'[l] = <<>> /\ partial'[l] = <<>>
      BY <1>1, <1>9
    <3> QED BY <2>2, <3>2, <3>3, <3>4, <3>5
  <2> QED BY <2>1, <2>2
<1>16. PooledInv'
  <2>1. \A c : (Pooled(c)' <=> Pooled(c)) /\ (InUse(c)' <=> InUse(c))
    BY <1>2 DEF Pooled, InUse, Used
  <2>2. \A c \in Conns : Pooled(c) /\ ~InUse(c) => linkOf[c] \in Links /\ linkOf[c] # l
    BY <1>3, <1>4 DEF Safe, HopInv, PooledInv
  <2>3. \A c \in Conns : Pooled(c) /\ ~InUse(c) => Quiet(linkOf[c])'
    BY <1>1, <1>8, <2>2 DEF Quiet, Safe, HopInv, PooledInv
  <2> QED BY <1>1, <1>2, <2>1, <2>3 DEF Safe, HopInv, PooledInv
<1>17. CarriesInv'
  <2> SUFFICES ASSUME NEW u \in Threads, pc'[u] = "confirm"
               PROVE  Carries(u, linkOf[cur[u]], callOf[u])'
    BY DEF CarriesInv
  <2>1. u = t /\ linkOf'[cur'[u]] = l /\ callOf'[u] = k
    BY <1>1, <1>2, <1>3, <1>4 DEF InSend
  <2>2. acks[l] = <<>>
    BY <1>1, <1>4, <1>5 DEF Carries
  <2>3. Len(partial'[l]) + Len(wire'[l]) <= sent'[t]
    <3>1. CASE up[l]
      <4>1. Len(partial'[l]) = Len(partial[l])
        BY <1>1
      <4>2. Len(wire'[l]) = Len(wire[l]) + 1
        BY <1>11b, <3>1
      <4>3. sent'[t] = sent[t] + 1 /\ sent[t] \in Nat
        BY <1>5
      <4>4. Len(partial[l]) + (Len(wire[l]) + 1) <= sent[t] + 1
        <5>1. ASSUME NEW a \in Nat, NEW b \in Nat, NEW c \in Nat, a + b <= c
              PROVE  a + (b + 1) <= c + 1
          BY <5>1
        <5>2. Len(partial[l]) + Len(wire[l]) <= sent[t]
          BY <1>11
        <5>3. Len(partial[l]) \in Nat /\ Len(wire[l]) \in Nat /\ sent[t] \in Nat
          BY <1>11, <4>3
        <5> HIDE <1>11
        <5> QED BY <5>1, <5>2, <5>3
      <4> QED BY <4>1, <4>2, <4>3, <4>4
    <3>2. CASE ~up[l]
      <4>1. Len(partial'[l]) = 0 /\ Len(wire'[l]) = 0
        BY <1>1, <1>9, <3>2
      <4> QED BY <1>5, <4>1
    <3> QED BY <3>1, <3>2
  <2>4. \A i \in 1..Len(wire'[l]) :
          wire'[l][i] = [call |-> k, n |-> sent'[t] - Len(wire'[l]) + i]
    <3>1. CASE up[l]
      <4> TAKE i \in 1..Len(wire'[l])
      <4>1. i \in 1..Len(wire[l]) \/ i = Len(wire[l]) + 1
        BY <1>10, <1>11, <3>1
      <4>2. sent'[t] - Len(wire'[l]) = sent[t] - Len(wire[l])
        BY <1>5, <1>11, <1>11b, <3>1
      <4>3. CASE i \in 1..Len(wire[l])
        <5>1. wire'[l][i] = wire[l][i]
          BY <1>10, <3>1, <4>3
        <5> QED BY <1>11a, <4>2, <4>3, <5>1
      <4>4. CASE i = Len(wire[l]) + 1
        <5>1. sent[t] - Len(wire[l]) + i = sent[t] + 1
          BY <1>5, <1>11, <4>4
        <5> QED BY <1>6, <1>10, <3>1, <4>2, <4>4, <5>1
      <4> QED BY <4>1, <4>3, <4>4
    <3>2. CASE ~up[l]
      BY <1>9, <3>2
    <3> QED BY <3>1, <3>2
  <2>5. \A i \in 1..Len(partial'[l]) : partial'[l][i] = [call |-> k, n |-> i]
    BY <1>1, <1>4 DEF Carries
  <2> QED BY <1>1, <2>1, <2>2, <2>3, <2>4, <2>5 DEF Carries
<1>18. CopyInv'
  <2>1. \A x \in Calls : x # k => Flying(x)' \subseteq Flying(x)
    <3> SUFFICES ASSUME NEW x \in Calls, x # k, NEW y \in Flying(x)'
                 PROVE  y \in Flying(x)
      OBVIOUS
    <3>1. PICK i \in 1..Len(wire'[y]) : wire'[y][i] = [call |-> x, n |-> Fragments]
      BY DEF Flying
    <3>2. y \in Links
      BY DEF Flying
    <3>3. CASE y # l
      BY <1>8, <3>1, <3>2, <3>3 DEF Flying
    <3>4. CASE y = l
      <4>1. up[l]
        BY <1>9, <3>1, <3>4
      <4>2. wire'[l][i] # f
        BY <1>6, <3>1, <3>4
      <4>3. i \in 1..Len(wire[l]) /\ wire[l][i] = [call |-> x, n |-> Fragments]
        BY <1>10, <1>11, <3>1, <3>4, <4>1, <4>2
      <4> QED BY <3>2, <3>4, <4>3 DEF Flying
    <3> QED BY <3>3, <3>4
  <2>2. Flying(k)' \subseteq IF sent'[t] = Fragments THEN Flying(k) \cup {l} ELSE Flying(k)
    <3> SUFFICES ASSUME NEW y \in Flying(k)'
                 PROVE  y \in Flying(k) \/ (y = l /\ sent'[t] = Fragments)
      OBVIOUS
    <3>1. PICK i \in 1..Len(wire'[y]) : wire'[y][i] = [call |-> k, n |-> Fragments]
      BY DEF Flying
    <3>2. y \in Links
      BY DEF Flying
    <3>3. CASE y # l
      BY <1>8, <3>1, <3>2, <3>3 DEF Flying
    <3>4. CASE y = l
      <4>1. up[l]
        BY <1>9, <3>1, <3>4
      <4>2. CASE i = Len(wire[l]) + 1
        <5>1. f.n = Fragments
          BY <1>10, <3>1, <3>4, <4>1, <4>2
        <5> QED BY <1>5, <1>6, <3>4, <5>1
      <4>3. CASE i # Len(wire[l]) + 1
        <5>1. i \in 1..Len(wire[l]) /\ wire[l][i] = [call |-> k, n |-> Fragments]
          BY <1>10, <1>11, <3>1, <3>4, <4>1, <4>3
        <5> QED BY <3>2, <3>4, <5>1 DEF Flying
      <4> QED BY <4>2, <4>3
    <3> QED BY <3>3, <3>4
  <2>3. ASSUME NEW x \in Calls, x <= ops, x # k
        PROVE  Copies(x)' <= Copies(x) /\ Copies(x)' \in Nat
    <3>1. Cardinality(Flying(x)') <= Cardinality(Flying(x))
          /\ Cardinality(Flying(x)') \in Nat /\ Cardinality(Flying(x)) \in Nat
      BY <2>1, <2>3, FlyingFinite, FS_Subset, FS_CardinalityType
    <3>2. got[x][target[x]] \in Nat
      BY <2>3, CountTypes
    <3> QED BY <1>1, <3>1, <3>2 DEF Copies
  <2>4. Tried(t) = attempt[t] /\ Tried(t)' = attempt[t] + (IF sent'[t] = Fragments THEN 1 ELSE 0)
        /\ attempt[t] \in 0..1
    <3>1. attempt[t] \in 0..1
      BY <1>1 DEF Safe, TypeInv, TypeOK, AttemptBound
    <3>2. sent[t] # Fragments
      BY <1>1, <1>5
    <3> QED BY <1>1, <1>2, <3>1, <3>2 DEF Tried
  <2>5. Copies(k)' <= Tried(t)' /\ Copies(k)' \in Nat
    <3>1. Copies(k) <= attempt[t]
      BY <1>1, <1>3, <2>4 DEF Safe, HopInv, CopyInv
    <3>2. got[k][target[k]] \in Nat /\ Copies(k)' = got[k][target[k]] + Cardinality(Flying(k)')
      BY <1>1, <1>4, CountTypes DEF Copies
    <3>3. IsFiniteSet(Flying(k)) /\ Cardinality(Flying(k)) \in Nat
      BY FlyingFinite
    <3>4. Cardinality(Flying(k)') \in Nat
      BY <2>2, <3>3, FS_Subset, FS_CardinalityType, FS_AddElement
    <3>5. CASE sent'[t] = Fragments
      <4>1. Cardinality(Flying(k)') <= Cardinality(Flying(k)) + 1
        BY <2>2, <3>3, <3>5, CountLinks
      <4> QED BY <2>4, <3>1, <3>2, <3>3, <3>4, <3>5, <4>1 DEF Copies
    <3>6. CASE sent'[t] # Fragments
      <4>1. Cardinality(Flying(k)') <= Cardinality(Flying(k))
        BY <2>2, <3>3, <3>6, CountLinks
      <4> QED BY <2>4, <3>1, <3>2, <3>3, <3>4, <3>6, <4>1 DEF Copies
    <3> QED BY <3>5, <3>6
  <2>6. \A x \in Calls : x <= ops' => Copies(x)' <= 2
    <3> SUFFICES ASSUME NEW x \in Calls, x <= ops PROVE Copies(x)' <= 2
      BY <1>2
    <3>1. CASE x = k
      BY <2>4, <2>5, <3>1
    <3>2. CASE x # k
      <4>1. Copies(x) <= 2 /\ Copies(x) \in Nat
        BY CountTypes DEF Safe, HopInv, CopyInv
      <4> QED BY <2>3, <3>2, <4>1
    <3> QED BY <3>1, <3>2
  <2>7. ASSUME NEW u \in Threads, pc'[u] # "idle"
        PROVE  Copies(callOf[u])' <= Tried(u)'
    <3>1. CASE u = t
      BY <1>1, <1>3, <2>5, <3>1
    <3>2. CASE u # t
      <4>1. callOf[u] \in Calls /\ callOf[u] <= ops /\ callOf[u] # k
        BY <1>1, <1>2, <1>3, <2>7, <3>2 DEF Safe, HopInv, CallInv
      <4>2. Copies(callOf[u]) <= Tried(u) /\ Tried(u) \in Nat /\ Copies(callOf[u]) \in Nat
        BY <1>2, <2>7, <4>1, CountTypes DEF Safe, HopInv, CopyInv
      <4>3. Tried(u)' = Tried(u)
        BY <1>2, <1>5, <3>2 DEF Tried
      <4> QED BY <1>1, <2>3, <4>1, <4>2, <4>3
    <3> QED BY <3>1, <3>2
  <2> QED BY <2>6, <2>7 DEF CopyInv
<1> QED BY <1>12, <1>13, <1>14, <1>15, <1>16, <1>17, <1>18 DEF HopInv

\* The entry cspcl_pool_invalidate_locked() closes is the sender's own.
LEMMA InvalidatesOwn ==
    ASSUME Safe, NEW t \in Threads, pc[t] = "confirm"
    PROVE  /\ Min(Invalidated(dest[t])) \in Used
           /\ entries[Min(Invalidated(dest[t]))].conn = cur[t]
<1>1. PICK i \in Invalidated(dest[t]) :
        entries[i].conn = cur[t] /\ \A j \in Invalidated(dest[t]) : i <= j
  BY DEF Safe, OwnInv, ConfirmsFirst
<1>2. /\ Min(Invalidated(dest[t])) \in Invalidated(dest[t])
      /\ \A y \in Invalidated(dest[t]) : Min(Invalidated(dest[t])) <= y
  BY <1>1, FirstSlot DEF Invalidated, Used
<1>3. Min(Invalidated(dest[t])) = i
  BY <1>1, <1>2 DEF Invalidated, Used, Slots
<1> QED BY <1>1, <1>3 DEF Invalidated

\* A failed attempt keeps the invariant: its connection leaves the pool with
\* whatever is still in flight on it, which no later call will read.
LEMMA FailHop ==
    ASSUME Safe, NEW t \in Threads, NEW r \in {"TIMEDOUT", "OTHER"},
           ConfirmFails(t, r), sent' = [sent EXCEPT ![t] = 0],
           UNCHANGED <<callVars, linkVars, got>>
    PROVE  HopInv'
<1>1. /\ pc[t] = "confirm" /\ ret' = [ret EXCEPT ![t] = r]
      /\ CloseEntry(Min(Invalidated(dest[t])))
      /\ attempt' = [attempt EXCEPT ![t] = @ + 1]
      /\ pc' = [pc EXCEPT ![t] = IF attempt[t] = 0 THEN "get" ELSE "unlock"]
      /\ UNCHANGED <<dest, cur, ops>>
  BY DEF ConfirmFails, Goto
<1>2. UNCHANGED <<callOf, target, outcome, linkOf, links, peer, up, wire,
                  acks, partial, got>>
  BY DEF callVars, linkVars
<1>3. /\ attempt[t] \in 0..1
      /\ attempt'[t] = attempt[t] + 1 /\ ret'[t] # "NONE" /\ sent'[t] = 0
      /\ pc'[t] = IF attempt[t] = 0 THEN "get" ELSE "unlock"
  <2>1. attempt[t] \in 0..1
    BY <1>1 DEF Safe, TypeInv, TypeOK, AttemptBound
  <2>2. pc'[t] = IF attempt[t] = 0 THEN "get" ELSE "unlock"
    BY <1>1 DEF Safe, TypeInv, TypeOK
  <2>3. attempt'[t] = attempt[t] + 1 /\ ret'[t] = r
    BY <1>1 DEF Safe, TypeInv, TypeOK
  <2>4. sent'[t] = 0
    BY DEF Safe, HopInv, DeliveryTypeOK
  <2> QED BY <2>1, <2>2, <2>3, <2>4
<1>4. \A u \in Threads : u # t => /\ pc'[u] = pc[u] /\ attempt'[u] = attempt[u]
                                  /\ ret'[u] = ret[u] /\ sent'[u] = sent[u]
                                  /\ pc[u] \notin InSend
  BY <1>1, SenderLink DEF Safe, TypeInv, TypeOK, HopInv, DeliveryTypeOK
<1>5. \A c \in Conns : Pooled(c)' => Pooled(c) /\ conns'[c] = conns[c] /\ c # cur[t]
  BY <1>1, InvalidatesOwn, CloseShrinks
<1>6. DeliveryTypeOK'
  <2>1. sent' \in [Threads -> 0..Fragments]
    BY DeliveryAssumption DEF Safe, HopInv, DeliveryTypeOK
  <2> QED BY <1>2, <2>1 DEF Safe, HopInv, DeliveryTypeOK
<1>7. CallInv'
  BY <1>1, <1>2, <1>3, <1>4, CallFrame DEF Sending, InSend
<1>8. AttemptInv' /\ OkInv'
  BY <1>2, <1>3, <1>4 DEF Safe, HopInv, AttemptInv, OkInv, InSend
<1>9. FragInv'
  BY <1>1, <1>2, FragFrame
<1>10. PooledInv'
  <2>1. \A c \in Conns : Pooled(c)' => ~InUse(c)
    BY <1>1, <1>4, <1>5 DEF InUse, InSend
  <2> QED BY <1>2, <1>5, <2>1, PooledFrame
<1>11. CarriesInv'
  BY <1>3, <1>4 DEF CarriesInv, InSend
<1>12. CopyInv'
  <2>1. ASSUME NEW u \in Threads, pc'[u] # "idle"
        PROVE  pc[u] # "idle" /\ Tried(u)' \in Nat /\ Tried(u) <= Tried(u)'
    <3>1. CASE u # t
      <4>1. pc'[u] = pc[u] /\ Tried(u)' = Tried(u)
        BY <1>4, <3>1 DEF Tried
      <4> QED BY <2>1, <4>1, CountTypes
    <3>2. CASE u = t
      BY <1>1, <1>3, <3>2 DEF Tried
    <3> QED BY <3>1, <3>2
  <2> QED BY <1>1, <1>2, <2>1, CopyFrame
<1> QED BY <1>6, <1>7, <1>8, <1>9, <1>10, <1>11, <1>12 DEF HopInv

\* Taking a packet for the ack keeps the invariant: the packet is the ack of
\* this bundle, the last one on the link.
LEMMA TakeAckHop ==
    ASSUME Safe, NEW t \in Threads, TakeAck(t)
    PROVE  HopInv'
<1>1. PICK l \in Links, k \in Calls : l = linkOf[cur[t]] /\ k = callOf[t]
  BY SenderLink DEF TakeAck, ConfirmOK
<1>2. /\ pc[t] = "confirm" /\ sent[t] = Fragments
      /\ acks[l] # <<>> /\ acks' = [acks EXCEPT ![l] = Tail(@)]
      /\ ret' = [ret EXCEPT ![t] = "NONE"]
      /\ pc' = [pc EXCEPT ![t] = "unlock"]
      /\ sent' = [sent EXCEPT ![t] = 0]
      /\ UNCHANGED <<entries, conns, dest, attempt, cur, ops>>
  BY <1>1 DEF TakeAck, ConfirmOK, Goto, poolVars
<1>3. UNCHANGED <<callOf, target, outcome, linkOf, links, peer, up, wire,
                  partial, got>>
  BY DEF TakeAck, callVars
<1>4. /\ pc'[t] = "unlock" /\ ret'[t] = "NONE" /\ sent'[t] = 0
      /\ \A u \in Threads : u # t => /\ pc'[u] = pc[u] /\ ret'[u] = ret[u]
                                     /\ sent'[u] = sent[u] /\ pc[u] \notin InSend
  BY <1>2, SenderLink DEF Safe, TypeInv, TypeOK, HopInv, DeliveryTypeOK
<1>5. /\ acks[l] = <<k>> /\ wire[l] = <<>> /\ partial[l] = <<>>
      /\ got[k][target[k]] > 0
  BY <1>1, <1>2, SenderLink DEF Carries
<1>6. Quiet(l)' /\ \A x \in Links : x # l => acks'[x] = acks[x]
  <2>1. acks'[l] = Tail(<<k>>)
    BY <1>2, <1>5 DEF Safe, HopInv, DeliveryTypeOK
  <2>2. acks'[l] = <<>>
    BY <2>1
  <2> QED BY <1>2, <1>3, <1>5, <2>2 DEF Quiet, Safe, HopInv, DeliveryTypeOK
<1>7. DeliveryTypeOK'
  <2>1. sent' \in [Threads -> 0..Fragments]
    BY <1>2, DeliveryAssumption DEF Safe, HopInv, DeliveryTypeOK
  <2>2. acks' \in [Links -> Seq(Calls)]
    BY <1>2, TailFacts DEF Safe, HopInv, DeliveryTypeOK
  <2> QED BY <1>3, <2>1, <2>2 DEF Safe, HopInv, DeliveryTypeOK
<1>8. CallInv'
  BY <1>2, <1>3, <1>4, CallFrame DEF Sending, InSend
<1>9. AttemptInv' /\ OkInv'
  BY <1>1, <1>3, <1>4, <1>5 DEF Safe, HopInv, AttemptInv, OkInv, InSend
<1>10. FragInv'
  <2>1. \A x \in Links : Quiet(x) => Quiet(x)'
    BY <1>3, <1>6 DEF Quiet
  <2> QED BY <1>2, <1>3, <2>1 DEF Safe, HopInv, FragInv, OnLink
<1>11. PooledInv'
  <2>1. \A c \in Conns : (Pooled(c)' => Pooled(c)) /\ conns'[c] = conns[c]
    BY <1>2 DEF Pooled, Used
  <2>2. \A c \in Conns : InUse(c) => c = cur[t]
    BY <1>2, <1>4 DEF InUse, InSend
  <2>3. cur[t] \in Conns /\ Pooled(cur[t]) /\ InUse(cur[t])
    BY <1>2, SenderLink
  <2>4. \A c \in Conns : Pooled(c) /\ ~InUse(c) => linkOf[c] \in Links /\ linkOf[c] # l
    BY <1>1, <2>3 DEF Safe, HopInv, PooledInv
  <2>5. \A c \in Conns : Pooled(c)' /\ InUse(c) => Quiet(linkOf[c])'
    BY <1>1, <1>3, <1>6, <2>2
  <2> QED BY <1>3, <1>6, <2>1, <2>4, <2>5, PooledFrame
<1>12. CarriesInv'
  BY <1>4 DEF CarriesInv, InSend
<1>13. CopyInv'
  <2>1. ASSUME NEW u \in Threads, pc'[u] # "idle"
        PROVE  pc[u] # "idle" /\ Tried(u)' \in Nat /\ Tried(u) <= Tried(u)'
    <3>1. CASE u # t
      <4>1. pc'[u] = pc[u] /\ Tried(u)' = Tried(u)
        BY <1>2, <1>4, <3>1 DEF Tried
      <4> QED BY <2>1, <4>1, CountTypes
    <3>2. CASE u = t
      <4>1. Tried(u)' = 2 /\ Tried(u) \in 0..2
        BY <1>4, <3>2, CountTypes DEF Tried
      <4> QED BY <1>2, <3>2, <4>1
    <3> QED BY <3>1, <3>2
  <2> QED BY <1>2, <1>3, <2>1, CopyFrame
<1> QED BY <1>7, <1>8, <1>9, <1>10, <1>11, <1>12, <1>13 DEF HopInv

-----------------------------------------------------------------------------
(* Entering and leaving a call *)

\* cspcl_send_bundle() returns: what it leaves in the pool is unchanged.
LEMMA EndSendHop ==
    ASSUME Safe, NEW t \in Threads, EndSend(t)
    PROVE  HopInv'
<1> DEFINE a == ErrorOf(ret[t])
<1>1. /\ pc[t] = "unlock" /\ UNCHANGED <<entries, conns, ops>> /\ Return(t, a)
      /\ outcome' = [outcome EXCEPT ![callOf[t]] = result'[t]]
      /\ callOf' = [callOf EXCEPT ![t] = 0]
      /\ UNCHANGED <<target, linkOf, links, peer, up, wire, acks, partial, sent, got>>
  BY DEF EndSend, SendUnlock, linkVars
<1>2. a \in Results /\ a # "none"
  BY DEF ErrorOf, Results
<1>3. callOf[t] \in Calls /\ callOf[t] <= ops
  BY <1>1 DEF Safe, HopInv, CallInv
<1> HIDE DEF a
<1>4. /\ pc'[t] = "idle" /\ ret'[t] # "NONE" /\ result'[t] = a
      /\ callOf'[t] = 0 /\ outcome'[callOf[t]] = a
      /\ \A k \in Calls : k # callOf[t] => outcome'[k] = outcome[k]
  BY <1>1, <1>3 DEF Return, Safe, TypeInv, TypeOK, HopInv, DeliveryTypeOK
<1>5. \A u \in Threads : u # t =>
        /\ pc'[u] = pc[u] /\ dest'[u] = dest[u] /\ attempt'[u] = attempt[u]
        /\ cur'[u] = cur[u] /\ ret'[u] = ret[u] /\ callOf'[u] = callOf[u]
        /\ pc[u] \notin InSend
  <2>1. \A u \in Threads : u # t => pc[u] \notin InSend
    BY <1>1, Alone DEF Safe, OwnInv, InSend
  <2> QED BY <1>1, <2>1 DEF Return, Safe, TypeInv, TypeOK, HopInv, DeliveryTypeOK
<1>6. DeliveryTypeOK'
  <2>1. callOf' \in [Threads -> 0..MaxOps]
    BY <1>1, ConnPoolAssumption DEF Safe, HopInv, DeliveryTypeOK
  <2>2. outcome' \in [Calls -> Results \cup {"busy"}]
    BY <1>1, <1>2, <1>4 DEF Safe, HopInv, DeliveryTypeOK
  <2> QED BY <1>1, <2>1, <2>2 DEF Safe, HopInv, DeliveryTypeOK
<1>7. CallInv'
  <2>1. \A k \in Calls :
          IF k > ops' THEN outcome'[k] = "none" /\ \A d \in Dests : got'[k][d] = 0
          ELSE outcome'[k] # "none" /\ target'[k] \in Dests
    <3> TAKE k \in Calls
    <3>1. CASE k = callOf[t]
      <4>1. ~(k > ops)
        BY <1>3, <3>1 DEF Safe, TypeInv, TypeOK, Calls
      <4> QED BY <1>1, <1>2, <1>4, <3>1, <4>1 DEF Safe, HopInv, CallInv
    <3>2. CASE k # callOf[t]
      BY <1>1, <1>4, <3>2 DEF Safe, HopInv, CallInv
    <3> QED BY <3>1, <3>2
  <2>2. \A u \in Threads : pc'[u] # "idle" =>
          /\ u # t /\ pc[u] # "idle" /\ callOf[u] # callOf[t]
    BY <1>1, <1>4, <1>5 DEF Safe, HopInv, CallInv
  <2>3. \A u \in Threads : pc'[u] # "idle" =>
          /\ pc'[u] \in Sending
          /\ callOf'[u] \in Calls /\ callOf'[u] <= ops'
          /\ outcome'[callOf'[u]] = "busy" /\ target'[callOf'[u]] = dest'[u]
    BY <1>1, <1>4, <1>5, <2>2 DEF Safe, HopInv, CallInv
  <2>4. \A u, v \in Threads :
          pc'[u] # "idle" /\ pc'[v] # "idle" /\ callOf'[u] = callOf'[v] => u = v
    BY <1>5, <2>2 DEF Safe, HopInv, CallInv
  <2> QED BY <2>1, <2>3, <2>4 DEF CallInv
<1>8. AttemptInv' /\ OkInv'
  BY <1>1, <1>4, <1>5 DEF Safe, HopInv, AttemptInv, OkInv, InSend
<1>9. FragInv'
  BY <1>1, FragFrame
<1>10. PooledInv'
  <2>1. \A c \in Conns : (Pooled(c)' => Pooled(c)) /\ conns'[c] = conns[c]
    BY <1>1 DEF Pooled, Used
  <2>2. \A c : ~InUse(c)
    BY <1>1, <1>5 DEF InUse, InSend
  <2> QED BY <1>1, <2>1, <2>2, PooledFrame
<1>11. CarriesInv'
  BY <1>4, <1>5 DEF CarriesInv, InSend
<1>12. CopyInv'
  <2>1. \A k : Flying(k)' = Flying(k)
    BY <1>1 DEF Flying
  <2>2. \A k : Copies(k)' = Copies(k)
    BY <1>1, <2>1 DEF Copies
  <2>3. \A u \in Threads : pc'[u] # "idle" =>
          pc[u] # "idle" /\ callOf'[u] = callOf[u] /\ Tried(u)' = Tried(u)
    BY <1>1, <1>4, <1>5 DEF Tried
  <2>4. \A u \in Threads : pc'[u] # "idle" => Copies(callOf[u])' <= Tried(u)'
    <3> TAKE u \in Threads
    <3> HAVE pc'[u] # "idle"
    <3>1. Copies(callOf[u])' = Copies(callOf[u])
      BY <1>1, <2>1, <2>3 DEF Copies
    <3> QED BY <2>3, <3>1 DEF Safe, HopInv, CopyInv
  <2> QED BY <1>1, <2>2, <2>4 DEF Safe, HopInv, CopyInv
<1> QED BY <1>6, <1>7, <1>8, <1>9, <1>10, <1>11, <1>12 DEF HopInv

\* A new call has a number of its own: nothing is in flight or kept for it.
LEMMA StartSendHop ==
    ASSUME Safe, NEW t \in Threads, NEW d \in Dests, StartSend(t, d)
    PROVE  HopInv'
<1>1. ops < MaxOps /\ ops \in Nat /\ pc[t] = "idle" /\ ops' = ops + 1
  BY DEF StartSend, SendCheck, Safe, TypeInv, TypeOK
<1>2. PICK m \in Calls : m = ops + 1
  BY <1>1, ConnPoolAssumption DEF Calls
<1>3. /\ callOf' = [callOf EXCEPT ![t] = m]
      /\ target' = [target EXCEPT ![m] = d]
      /\ \E a \in {"busy", "NOT_INITIALIZED"} :
           outcome' = [outcome EXCEPT ![m] = a] /\ (initialized => a = "busy")
      /\ UNCHANGED <<entries, conns, linkOf, links, peer, up, wire, acks,
                     partial, sent, got>>
  <2>1. ops' = m
    BY <1>1, <1>2
  <2>2. ~initialized => result'[t] = "NOT_INITIALIZED"
    BY DEF StartSend, SendCheck, Return, Safe, TypeInv, TypeOK
  <2> QED BY <2>1, <2>2 DEF StartSend, SendCheck, poolVars, linkVars
<1>4. \A u \in Threads : u # t =>
        /\ pc'[u] = pc[u] /\ dest'[u] = dest[u] /\ attempt'[u] = attempt[u]
        /\ cur'[u] = cur[u] /\ ret'[u] = ret[u] /\ callOf'[u] = callOf[u]
  BY <1>3 DEF StartSend, SendCheck, Return, Goto, Safe, TypeInv, TypeOK,
              HopInv, DeliveryTypeOK
<1>5. /\ callOf'[t] = m /\ ret'[t] # "NONE"
      /\ pc'[t] = "idle" \/ (initialized /\ pc'[t] = "checked" /\ dest'[t] = d)
  <2>1. callOf'[t] = m
    BY <1>3 DEF Safe, HopInv, DeliveryTypeOK
  <2>2. CASE initialized
    BY <1>1, <2>1, <2>2 DEF StartSend, SendCheck, Goto, Safe, TypeInv, TypeOK,
       HopInv, AttemptInv
  <2>3. CASE ~initialized
    BY <2>1, <2>3 DEF StartSend, SendCheck, Return, Safe, TypeInv, TypeOK
  <2> QED BY <2>2, <2>3
<1>6. target'[m] = d /\ \A k \in Calls : k # m => target'[k] = target[k]
                                                  /\ outcome'[k] = outcome[k]
  BY <1>3 DEF Safe, HopInv, DeliveryTypeOK
<1>7. outcome'[m] # "none" /\ (initialized => outcome'[m] = "busy")
  BY <1>3 DEF Safe, HopInv, DeliveryTypeOK
<1>8. \A u \in Threads : pc[u] # "idle" => callOf[u] \in Calls /\ callOf[u] <= ops
                                           /\ callOf[u] # m /\ callOf[u] <= ops'
  BY <1>1, <1>2 DEF Safe, HopInv, CallInv, Calls
<1>9. \A c : InUse(c)' <=> InUse(c)
  BY <1>1, <1>4, <1>5 DEF InUse
<1>10. DeliveryTypeOK'
  <2>1. callOf' \in [Threads -> 0..MaxOps]
    BY <1>3, ConnPoolAssumption DEF Calls, Safe, HopInv, DeliveryTypeOK
  <2>2. target' \in [Calls -> Dests \cup {NULL}]
    BY <1>3 DEF Safe, HopInv, DeliveryTypeOK
  <2>3. outcome' \in [Calls -> Results \cup {"busy"}]
    BY <1>3 DEF Results, Safe, HopInv, DeliveryTypeOK
  <2> QED BY <1>3, <2>1, <2>2, <2>3 DEF Safe, HopInv, DeliveryTypeOK
<1>11. CallInv'
  <2>1. \A k \in Calls :
          IF k > ops' THEN outcome'[k] = "none" /\ \A x \in Dests : got'[k][x] = 0
          ELSE outcome'[k] # "none" /\ target'[k] \in Dests
    <3> TAKE k \in Calls
    <3>1. CASE k = m
      BY <1>1, <1>2, <1>6, <1>7, <3>1
    <3>2. CASE k # m
      <4>1. k > ops' <=> k > ops
        BY <1>1, <1>2, <3>2 DEF Calls
      <4> QED BY <1>3, <1>6, <3>2, <4>1 DEF Safe, HopInv, CallInv
    <3> QED BY <3>1, <3>2
  <2>2. \A u \in Threads : pc'[u] # "idle" =>
          /\ pc'[u] \in Sending
          /\ callOf'[u] \in Calls /\ callOf'[u] <= ops'
          /\ outcome'[callOf'[u]] = "busy" /\ target'[callOf'[u]] = dest'[u]
    <3> TAKE u \in Threads
    <3> HAVE pc'[u] # "idle"
    <3>1. CASE u = t
      BY <1>1, <1>2, <1>5, <1>6, <1>7, <3>1 DEF Sending
    <3>2. CASE u # t
      BY <1>4, <1>6, <1>8, <3>2 DEF Safe, HopInv, CallInv
    <3> QED BY <3>1, <3>2
  <2>3. \A u, v \in Threads :
          pc'[u] # "idle" /\ pc'[v] # "idle" /\ callOf'[u] = callOf'[v] => u = v
    BY <1>4, <1>5, <1>8 DEF Safe, HopInv, CallInv
  <2> QED BY <2>1, <2>2, <2>3 DEF CallInv
<1>12. AttemptInv' /\ OkInv'
  <2>1. AttemptInv'
    BY <1>1, <1>3, <1>4, <1>5 DEF Safe, HopInv, AttemptInv
  <2>2. \A u \in Threads : pc'[u] = "unlock" => u # t /\ pc[u] = "unlock"
    BY <1>4, <1>5
  <2>3. OkInv'
    BY <1>3, <1>4, <1>6, <1>8, <2>2 DEF Safe, HopInv, OkInv
  <2> QED BY <2>1, <2>3
<1>13. FragInv'
  <2>1. ASSUME NEW l \in Links, NEW f \in Frag, OnLink(l, f)'
        PROVE  f.call <= ops' /\ target'[f.call] = peer'[l]
    <3>1. OnLink(l, f)
      BY <1>3, <2>1 DEF OnLink
    <3>2. f.call <= ops /\ target[f.call] = peer[l] /\ f.call \in Calls
      BY <3>1 DEF Safe, HopInv, FragInv, Frag
    <3>3. f.call <= ops' /\ f.call # m
      BY <1>1, <1>2, <3>2 DEF Calls
    <3> QED BY <1>3, <1>6, <3>2, <3>3
  <2> QED BY <1>3, <2>1 DEF Safe, HopInv, FragInv, Quiet
<1>14. PooledInv'
  <2>1. \A c : Pooled(c)' <=> Pooled(c)
    BY <1>3 DEF Pooled, Used
  <2> QED BY <1>3, <1>9, <2>1 DEF Safe, HopInv, PooledInv, Quiet
<1>15. CarriesInv'
  <2> SUFFICES ASSUME NEW u \in Threads, pc'[u] = "confirm"
               PROVE  Carries(u, linkOf[cur[u]], callOf[u])'
    BY DEF CarriesInv
  <2>1. u # t /\ pc[u] = "confirm"
    BY <1>4, <1>5
  <2>2. PICK l \in Links, k \in Calls : l = linkOf[cur[u]] /\ k = callOf[u]
    BY <2>1, SenderLink
  <2>3. callOf'[u] = k /\ linkOf'[cur'[u]] = l /\ target'[k] = target[k]
    BY <1>3, <1>4, <1>6, <1>8, <2>1, <2>2
  <2>4. Carries(u, l, k)
    BY <2>1, <2>2 DEF Safe, HopInv, CarriesInv
  <2>5. Carries(u, l, k)'
    <3>1. UNCHANGED <<wire, partial, acks, sent, got>>
      BY <1>3
    <3> QED BY <2>3, <2>4, <3>1 DEF Carries
  <2> QED BY <2>3, <2>5 DEF Carries
<1>16. CopyInv'
  <2>1. \A k : Flying(k)' = Flying(k)
    BY <1>3 DEF Flying
  <2>2. \A k \in Calls : k # m => Copies(k)' = Copies(k)
    BY <1>3, <1>6, <2>1 DEF Copies
  <2>3. Copies(m)' = 0
    <3>1. Flying(m) = {}
      <4> SUFFICES ASSUME NEW l \in Flying(m) PROVE FALSE
        OBVIOUS
      <4>1. PICK i \in 1..Len(wire[l]) : wire[l][i] = [call |-> m, n |-> Fragments]
        BY DEF Flying
      <4>2. l \in Links /\ [call |-> m, n |-> Fragments] \in Frag
        BY DeliveryAssumption DEF Flying, Frag
      <4>3. OnLink(l, [call |-> m, n |-> Fragments])
        BY <4>1 DEF OnLink
      <4>4. m <= ops
        BY <4>2, <4>3 DEF Safe, HopInv, FragInv
      <4> QED BY <1>1, <1>2, <4>4
    <3>2. got[m][d] = 0
      BY <1>1, <1>2 DEF Safe, HopInv, CallInv
    <3>3. Cardinality(Flying(m)') = 0
      BY <2>1, <3>1, FS_EmptySet
    <3>4. got'[m][target'[m]] = 0
      BY <1>3, <1>6, <3>2
    <3> QED BY <3>3, <3>4 DEF Copies
  <2>4. \A k \in Calls : k <= ops' => Copies(k)' <= 2
    <3> TAKE k \in Calls
    <3> HAVE k <= ops'
    <3>1. k = m \/ k <= ops
      BY <1>1, <1>2 DEF Calls
    <3> QED BY <2>2, <2>3, <3>1 DEF Safe, HopInv, CopyInv
  <2>5. ASSUME NEW u \in Threads, pc'[u] # "idle"
        PROVE  Copies(callOf[u])' <= Tried(u)'
    <3>1. CASE u = t
      <4>1. Tried(t)' = 0
        BY <1>5, <2>5, <3>1 DEF Tried
      <4> QED BY <1>5, <2>3, <3>1, <4>1
    <3>2. CASE u # t
      <4>1. Tried(u)' = Tried(u) /\ pc[u] # "idle"
        BY <1>3, <1>4, <2>5, <3>2 DEF Tried
      <4>2. Copies(callOf[u])' = Copies(callOf[u])
        BY <1>4, <1>8, <2>2, <3>2, <4>1
      <4> QED BY <4>1, <4>2 DEF Safe, HopInv, CopyInv
    <3> QED BY <3>1, <3>2
  <2> QED BY <2>4, <2>5 DEF CopyInv
<1> QED BY <1>10, <1>11, <1>12, <1>13, <1>14, <1>15, <1>16 DEF HopInv

\* Cleanup empties the pool, and a later cspcl_init() starts with an empty one.
LEMMA LifecycleHop ==
    ASSUME Safe, Lifecycle
    PROVE  HopInv'
<1>1. /\ UNCHANGED <<callOf, target, outcome, linkOf, links, peer, up, wire,
                     acks, partial, sent, got>>
      /\ UNCHANGED <<pc, dest, attempt, cur, ret, ops>>
  BY DEF Lifecycle, callVars, linkVars, Cleanup, Destroy, PoolInit, ClockAdvances,
         threadVars
<1>2. \A c \in Conns : Pooled(c)' => Pooled(c) /\ conns'[c] = conns[c]
  <2>1. CASE Cleanup \/ PoolInit
    <3>1. \A i \in Slots : ~entries'[i].used
      BY <2>1 DEF Cleanup, PoolInit, Free
    <3> QED BY <3>1 DEF Pooled, Used
  <2>2. CASE Destroy \/ ClockAdvances
    BY <2>2 DEF Destroy, ClockAdvances, poolVars, Pooled, Used
  <2> QED BY <2>1, <2>2 DEF Lifecycle
<1>3. DeliveryTypeOK'
  BY <1>1 DEF Safe, HopInv, DeliveryTypeOK
<1>4. CallInv'
  BY <1>1, CallFrame
<1>5. AttemptInv' /\ OkInv'
  BY <1>1 DEF Safe, HopInv, AttemptInv, OkInv
<1>6. FragInv'
  BY <1>1, FragFrame
<1>7. PooledInv'
  <2>1. \A c : InUse(c)' <=> InUse(c)
    BY <1>1 DEF InUse
  <2> QED BY <1>1, <1>2, <2>1, PooledFrame
<1>8. CarriesInv'
  BY <1>1 DEF Safe, HopInv, CarriesInv, Carries
<1>9. CopyInv'
  <2>1. \A u \in Threads : Tried(u)' = Tried(u)
    BY <1>1 DEF Tried
  <2> QED BY <1>1, <2>1, CountTypes, CopyFrame
<1> QED BY <1>3, <1>4, <1>5, <1>6, <1>7, <1>8, <1>9 DEF HopInv

-----------------------------------------------------------------------------
(* The receiving nodes *)

\* A step of the receiver of link l cannot disturb the senders' side, if a
\* quiet link stays quiet and the sender on l, if any, still finds on it what
\* it should.
LEMMA ReceiverFrame ==
    ASSUME Safe, NEW l \in Links,
           UNCHANGED <<vars, callOf, target, outcome, linkOf, links, peer, sent>>,
           \A x \in Links : x # l => /\ wire'[x] = wire[x] /\ acks'[x] = acks[x]
                                     /\ partial'[x] = partial[x],
           Quiet(l) => Quiet(l)',
           \A k \in Calls : k > ops => got'[k] = got[k],
           \A k \in Calls : k <= ops /\ got[k][target[k]] > 0 => got'[k][target[k]] > 0,
           \A t \in Threads, k \in Calls :
               /\ pc[t] = "confirm" /\ linkOf[cur[t]] = l /\ callOf[t] = k
               /\ Carries(t, l, k)
               => Carries(t, l, k)'
    PROVE  CallInv' /\ AttemptInv' /\ OkInv' /\ PooledInv' /\ CarriesInv'
<1>1. UNCHANGED <<entries, conns, pc, dest, attempt, cur, ret, ops>>
  BY DEF vars, poolVars, threadVars
<1>2. CallInv'
  BY <1>1, CallFrame
<1>3. AttemptInv'
  BY <1>1 DEF Safe, HopInv, AttemptInv
<1>4. OkInv'
  <2> SUFFICES ASSUME NEW t \in Threads, pc'[t] = "unlock", ret'[t] = "NONE"
               PROVE  got'[callOf'[t]][target'[callOf'[t]]] > 0
    BY DEF OkInv
  <2>1. callOf[t] \in Calls /\ callOf[t] <= ops
    BY <1>1 DEF Safe, HopInv, CallInv
  <2> QED BY <1>1, <2>1 DEF Safe, HopInv, OkInv
<1>5. PooledInv'
  <2>1. \A c : (Pooled(c)' <=> Pooled(c)) /\ (InUse(c)' <=> InUse(c))
    BY <1>1 DEF Pooled, InUse, Used
  <2>2. \A x \in Links : Quiet(x) => Quiet(x)'
    BY DEF Quiet
  <2> QED BY <1>1, <2>1, <2>2 DEF Safe, HopInv, PooledInv
<1>6. CarriesInv'
  <2> SUFFICES ASSUME NEW t \in Threads, pc'[t] = "confirm"
               PROVE  Carries(t, linkOf[cur[t]], callOf[t])'
    BY DEF CarriesInv
  <2>1. pc[t] = "confirm"
    BY <1>1
  <2>2. PICK x \in Links, k \in Calls : x = linkOf[cur[t]] /\ k = callOf[t]
    BY <2>1, SenderLink
  <2>3. Carries(t, x, k) /\ k <= ops
    BY <2>1, <2>2, SenderLink
  <2>4. Carries(t, x, k)'
    <3>1. CASE x = l
      BY <2>1, <2>2, <2>3, <3>1
    <3>2. CASE x # l
      <4>1. wire'[x] = wire[x] /\ acks'[x] = acks[x] /\ partial'[x] = partial[x]
        BY <3>2
      <4>2. got[k][target[k]] > 0 => got'[k][target[k]] > 0
        BY <2>3
      <4> QED BY <2>3, <4>1, <4>2 DEF Carries
    <3> QED BY <3>1, <3>2
  <2> QED BY <1>1, <2>2, <2>4
<1> QED BY <1>2, <1>3, <1>4, <1>5, <1>6

\* A receiver that only takes fragments off the wire adds no copy.
LEMMA NoMoreCopies ==
    ASSUME Safe, UNCHANGED <<vars, callOf, target, sent>>,
           \A k \in Calls : k <= ops => Copies(k)' <= Copies(k) /\ Copies(k)' \in Nat
    PROVE  CopyInv'
<1>1. UNCHANGED <<pc, attempt, ops>>
  BY DEF vars, threadVars
<1>2. \A u \in Threads : Tried(u)' = Tried(u)
  BY <1>1 DEF Tried
<1>3. ASSUME NEW k \in Calls, k <= ops' PROVE Copies(k)' <= 2
  <2>1. Copies(k) <= 2 /\ Copies(k) \in Nat /\ Copies(k)' <= Copies(k) /\ Copies(k)' \in Nat
    BY <1>1, <1>3, CountTypes DEF Safe, HopInv, CopyInv
  <2> QED BY <2>1
<1>4. ASSUME NEW u \in Threads, pc'[u] # "idle" PROVE Copies(callOf[u])' <= Tried(u)'
  <2>1. pc[u] # "idle"
    BY <1>1, <1>4
  <2>2. PICK k \in Calls : k = callOf[u] /\ k <= ops
    BY <2>1 DEF Safe, HopInv, CallInv
  <2>3. /\ Copies(k) <= Tried(u) /\ Copies(k) \in Nat /\ Tried(u) \in Nat
        /\ Copies(k)' <= Copies(k) /\ Copies(k)' \in Nat
    BY <2>1, <2>2, CountTypes DEF Safe, HopInv, CopyInv
  <2>4. Copies(k)' <= Tried(u)
    BY <2>3
  <2>5. callOf'[u] = k
    BY <2>2
  <2> QED BY <1>2, <2>4, <2>5
<1> QED BY <1>3, <1>4 DEF CopyInv

\* The copies still to come are no more when the wires only lose fragments.
LEMMA WiresShrink ==
    ASSUME Safe, UNCHANGED <<vars, callOf, target, sent, got>>,
           \A k \in Calls : Flying(k)' \subseteq Flying(k)
    PROVE  CopyInv'
<1>1. ASSUME NEW k \in Calls, k <= ops
      PROVE  Copies(k)' <= Copies(k) /\ Copies(k)' \in Nat
  <2>1. /\ Cardinality(Flying(k)') <= Cardinality(Flying(k))
        /\ Cardinality(Flying(k)') \in Nat /\ Cardinality(Flying(k)) \in Nat
    BY FlyingFinite, FS_Subset, FS_CardinalityType
  <2>2. got[k][target[k]] \in Nat
    BY <1>1, CountTypes
  <2> QED BY <2>1, <2>2 DEF Copies
<1> QED BY <1>1, NoMoreCopies

\* A receiver puts nothing new on its link.
LEMMA FragShrinks ==
    ASSUME Safe, NEW l \in Links, UNCHANGED <<vars, target, links, peer>>,
           \A x \in Links : x # l => /\ wire'[x] = wire[x] /\ acks'[x] = acks[x]
                                     /\ partial'[x] = partial[x] /\ up'[x] = up[x],
           \A f \in Frag : OnLink(l, f)' => OnLink(l, f),
           \A i, j \in 1..Len(wire'[l]) : wire'[l][i] = wire'[l][j] => i = j,
           Quiet(l) => Quiet(l)',
           up'[l] => up[l],
           ~up'[l] => wire'[l] = <<>> /\ partial'[l] = <<>>
    PROVE  FragInv'
<1>1. UNCHANGED ops
  BY DEF vars
<1> SUFFICES ASSUME NEW x \in Links
             PROVE  /\ \A g \in Frag : OnLink(x, g)' =>
                         g.call <= ops' /\ target'[g.call] = peer'[x]
                    /\ \A i, j \in 1..Len(wire'[x]) : wire'[x][i] = wire'[x][j] => i = j
                    /\ x > links' => ~up'[x] /\ Quiet(x)'
                    /\ ~up'[x] => wire'[x] = <<>> /\ partial'[x] = <<>>
  BY DEF FragInv
<1>2. CASE x = l
  BY <1>1, <1>2 DEF Safe, HopInv, FragInv
<1>3. CASE x # l
  <2>1. \A g \in Frag : OnLink(x, g)' => OnLink(x, g)
    BY <1>3 DEF OnLink
  <2>2. Quiet(x) => Quiet(x)'
    BY <1>3 DEF Quiet
  <2> QED BY <1>1, <1>3, <2>1, <2>2 DEF Safe, HopInv, FragInv
<1> QED BY <1>2, <1>3

\* Taking the first fragment off the wire.
LEMMA WireTail ==
    ASSUME Safe, NEW l \in Links, wire[l] # <<>>, wire' = [wire EXCEPT ![l] = Tail(@)]
    PROVE  /\ wire' \in [Links -> Seq(Frag)]
           /\ Head(wire[l]) = wire[l][1] /\ Head(wire[l]) \in Frag
           /\ Len(wire[l]) \in Nat \ {0} /\ Len(wire'[l]) = Len(wire[l]) - 1
           /\ \A i \in 1..Len(wire'[l]) :
                i + 1 \in 1..Len(wire[l]) /\ wire'[l][i] = wire[l][i + 1]
           /\ \A x \in Links : x # l => wire'[x] = wire[x]
           /\ \A i, j \in 1..Len(wire'[l]) : wire'[l][i] = wire'[l][j] => i = j
           /\ \A k : Flying(k)' \subseteq Flying(k)
<1>1. wire \in [Links -> Seq(Frag)] /\ wire[l] \in Seq(Frag)
  BY DEF Safe, HopInv, DeliveryTypeOK
<1>2. /\ Tail(wire[l]) \in Seq(Frag) /\ Head(wire[l]) \in Frag /\ Head(wire[l]) = wire[l][1]
      /\ Len(wire[l]) \in Nat \ {0} /\ Len(Tail(wire[l])) = Len(wire[l]) - 1
      /\ \A i \in 1..Len(Tail(wire[l])) : Tail(wire[l])[i] = wire[l][i + 1]
  BY <1>1, TailFacts
<1>3. wire'[l] = Tail(wire[l]) /\ wire' \in [Links -> Seq(Frag)]
      /\ \A x \in Links : x # l => wire'[x] = wire[x]
  BY <1>1, <1>2
<1>4. \A i \in 1..Len(wire'[l]) :
        i + 1 \in 1..Len(wire[l]) /\ wire'[l][i] = wire[l][i + 1]
  BY <1>2, <1>3
<1>5. \A i, j \in 1..Len(wire'[l]) : wire'[l][i] = wire'[l][j] => i = j
  <2> SUFFICES ASSUME NEW i \in 1..Len(wire'[l]), NEW j \in 1..Len(wire'[l]),
                      wire'[l][i] = wire'[l][j]
               PROVE  i = j
    OBVIOUS
  <2>1. wire[l][i + 1] = wire[l][j + 1]
    BY <1>4
  <2>2. i + 1 = j + 1
    BY <1>4, <2>1 DEF Safe, HopInv, FragInv
  <2> QED BY <2>2
<1>6. ASSUME NEW k, NEW x \in Flying(k)' PROVE x \in Flying(k)
  <2>1. x \in Links
    BY <1>6 DEF Flying
  <2>2. PICK i \in 1..Len(wire'[x]) : wire'[x][i] = [call |-> k, n |-> Fragments]
    BY <1>6 DEF Flying
  <2>3. CASE x = l
    BY <1>4, <2>1, <2>2, <2>3 DEF Flying
  <2>4. CASE x # l
    BY <1>3, <2>1, <2>2, <2>4 DEF Flying
  <2> QED BY <2>3, <2>4
<1> QED BY <1>2, <1>3, <1>4, <1>5, <1>6

\* Assembling a fragment moves it from the wire to the partial bundle.
LEMMA RecvFragmentHop ==
    ASSUME Safe, NEW l \in Links, RecvFragment(l)
    PROVE  HopInv'
<1>1. /\ up[l] /\ wire[l] # <<>> /\ Head(wire[l]).n = Len(partial[l]) + 1
      /\ partial' = [partial EXCEPT ![l] = Append(@, Head(wire[l]))]
      /\ wire' = [wire EXCEPT ![l] = Tail(@)]
      /\ UNCHANGED <<vars, callOf, target, outcome, linkOf, links, peer, up,
                     acks, sent, got>>
  BY DEF RecvFragment, Continues, callVars
<1>2. /\ wire' \in [Links -> Seq(Frag)]
      /\ Head(wire[l]) = wire[l][1] /\ Head(wire[l]) \in Frag
      /\ Len(wire[l]) \in Nat \ {0} /\ Len(wire'[l]) = Len(wire[l]) - 1
      /\ \A i \in 1..Len(wire'[l]) :
           i + 1 \in 1..Len(wire[l]) /\ wire'[l][i] = wire[l][i + 1]
      /\ \A x \in Links : x # l => wire'[x] = wire[x]
      /\ \A i, j \in 1..Len(wire'[l]) : wire'[l][i] = wire'[l][j] => i = j
      /\ \A k : Flying(k)' \subseteq Flying(k)
  BY <1>1, WireTail
<1>3. PICK h \in Frag : h = Head(wire[l])
  BY <1>2
<1>4. partial \in [Links -> Seq(Frag)] /\ partial[l] \in Seq(Frag) /\ Len(partial[l]) \in Nat
  BY DEF Safe, HopInv, DeliveryTypeOK
<1>5. /\ Append(partial[l], h) \in Seq(Frag)
      /\ Len(Append(partial[l], h)) = Len(partial[l]) + 1
      /\ \A i \in 1..Len(partial[l]) : Append(partial[l], h)[i] = partial[l][i]
      /\ Append(partial[l], h)[Len(partial[l]) + 1] = h
  BY <1>4, AppendFacts
<1>6. partial'[l] = Append(partial[l], h) /\ partial' \in [Links -> Seq(Frag)]
      /\ \A x \in Links : x # l => partial'[x] = partial[x]
  BY <1>1, <1>3, <1>4, <1>5
<1>7. DeliveryTypeOK'
  BY <1>1, <1>2, <1>6 DEF Safe, HopInv, DeliveryTypeOK
<1>8. \A x \in Links : x # l => /\ wire'[x] = wire[x] /\ acks'[x] = acks[x]
                                /\ partial'[x] = partial[x] /\ up'[x] = up[x]
  BY <1>1, <1>2, <1>6
<1>9. ~Quiet(l)
  BY <1>1 DEF Quiet
<1>10. FragInv'
  <2>1. ASSUME NEW f \in Frag, OnLink(l, f)' PROVE OnLink(l, f)
    <3>1. CASE \E i \in 1..Len(wire'[l]) : wire'[l][i] = f
      BY <1>2, <3>1 DEF OnLink
    <3>2. CASE \E i \in 1..Len(partial'[l]) : partial'[l][i] = f
      <4>1. PICK i \in 1..Len(partial'[l]) : partial'[l][i] = f
        BY <3>2
      <4>2. i \in 1..Len(partial[l]) \/ i = Len(partial[l]) + 1
        BY <1>4, <1>5, <1>6
      <4>3. CASE i \in 1..Len(partial[l])
        BY <1>5, <1>6, <4>1, <4>3 DEF OnLink
      <4>4. CASE i = Len(partial[l]) + 1
        <5>1. f = wire[l][1] /\ 1 \in 1..Len(wire[l])
          BY <1>2, <1>3, <1>5, <1>6, <4>1, <4>4
        <5> QED BY <5>1 DEF OnLink
      <4> QED BY <4>2, <4>3, <4>4
    <3> QED BY <2>1, <3>1, <3>2 DEF OnLink
  <2> QED BY <1>1, <1>2, <1>8, <1>9, <2>1, FragShrinks
<1>11. ASSUME NEW t \in Threads, NEW k \in Calls, pc[t] = "confirm",
              linkOf[cur[t]] = l, callOf[t] = k, Carries(t, l, k)
       PROVE  Carries(t, l, k)'
  <2>0. sent[t] \in 0..Fragments /\ sent'[t] = sent[t]
    BY <1>1 DEF Safe, HopInv, DeliveryTypeOK
  <2>1. acks'[l] = <<>>
    BY <1>1, <1>11 DEF Carries
  <2>2. h = [call |-> k, n |-> sent[t] - Len(wire[l]) + 1]
    BY <1>2, <1>3, <1>11 DEF Carries
  <2>3. h = [call |-> k, n |-> Len(partial[l]) + 1]
    <3>1. h.n = Len(partial[l]) + 1
      BY <1>1, <1>3
    <3>2. h.n = sent[t] - Len(wire[l]) + 1
      BY <1>2, <2>0, <2>2
    <3> QED BY <2>2, <3>1, <3>2
  <2>4. Len(partial'[l]) + Len(wire'[l]) <= sent'[t]
    <3>1. Len(partial[l]) + Len(wire[l]) <= sent[t]
      BY <1>11 DEF Carries
    <3>2. Len(partial'[l]) = Len(partial[l]) + 1 /\ Len(wire'[l]) = Len(wire[l]) - 1
      BY <1>2, <1>5, <1>6
    <3>3. Len(wire[l]) \in Nat /\ Len(partial[l]) \in Nat /\ sent[t] \in Nat
      BY <1>2, <1>4, <2>0
    <3>4. ASSUME NEW a \in Nat, NEW b \in Nat PROVE (a + 1) + (b - 1) = a + b
      OBVIOUS
    <3>5. Len(partial'[l]) + Len(wire'[l]) = Len(partial[l]) + Len(wire[l])
      BY <3>2, <3>3, <3>4
    <3> QED BY <2>0, <3>1, <3>5
  <2>5. ASSUME NEW i \in 1..Len(wire'[l])
        PROVE  wire'[l][i] = [call |-> k, n |-> sent'[t] - Len(wire'[l]) + i]
    <3>1. wire'[l][i] = wire[l][i + 1] /\ i + 1 \in 1..Len(wire[l])
      BY <1>2
    <3>2. wire[l][i + 1] = [call |-> k, n |-> sent[t] - Len(wire[l]) + (i + 1)]
      BY <1>11, <3>1 DEF Carries
    <3>3. sent[t] - Len(wire[l]) + (i + 1) = sent'[t] - Len(wire'[l]) + i
      <4>1. ASSUME NEW a \in Nat, NEW b \in Nat, NEW j \in Nat
            PROVE  a - b + (j + 1) = a - (b - 1) + j
        OBVIOUS
      <4>2. sent[t] \in Nat /\ Len(wire[l]) \in Nat /\ i \in Nat
        BY <1>2, <2>0
      <4>3. sent'[t] = sent[t] /\ Len(wire'[l]) = Len(wire[l]) - 1
        BY <1>2, <2>0
      <4> QED BY <4>1, <4>2, <4>3
    <3> QED BY <3>1, <3>2, <3>3
  <2>6. ASSUME NEW i \in 1..Len(partial'[l])
        PROVE  partial'[l][i] = [call |-> k, n |-> i]
    <3>1. i \in 1..Len(partial[l]) \/ i = Len(partial[l]) + 1
      BY <1>4, <1>5, <1>6
    <3>2. CASE i \in 1..Len(partial[l])
      BY <1>5, <1>6, <1>11, <3>2 DEF Carries
    <3>3. CASE i = Len(partial[l]) + 1
      BY <1>5, <1>6, <2>3, <3>3
    <3> QED BY <3>1, <3>2, <3>3
  <2> QED BY <2>1, <2>4, <2>5, <2>6 DEF Carries
<1>12. CallInv' /\ AttemptInv' /\ OkInv' /\ PooledInv' /\ CarriesInv'
  BY <1>1, <1>8, <1>9, <1>11, ReceiverFrame
<1>13. CopyInv'
  BY <1>1, <1>2, WiresShrink
<1> QED BY <1>7, <1>10, <1>12, <1>13 DEF HopInv

\* The receiver's timeout and the death of a link only drop fragments.
LEMMA DropHop ==
    ASSUME Safe, NEW l \in Links, RecvTimeout(l) \/ LinkDown(l)
    PROVE  HopInv'
<1>1. /\ partial' = [partial EXCEPT ![l] = <<>>]
      /\ wire' = wire \/ wire' = [wire EXCEPT ![l] = <<>>]
      /\ acks' = acks \/ acks' = [acks EXCEPT ![l] = <<>>]
      /\ UNCHANGED <<vars, callOf, target, outcome, linkOf, links, peer, sent, got>>
  BY DEF RecvTimeout, LinkDown, callVars
<1>2. /\ partial \in [Links -> Seq(Frag)] /\ wire \in [Links -> Seq(Frag)]
      /\ acks \in [Links -> Seq(Calls)] /\ up \in [Links -> BOOLEAN]
  BY DEF Safe, HopInv, DeliveryTypeOK
<1>3. /\ partial'[l] = <<>> /\ (wire'[l] = wire[l] \/ wire'[l] = <<>>)
      /\ acks'[l] = acks[l] \/ acks'[l] = <<>>
  BY <1>1, <1>2
<1>4. up' \in [Links -> BOOLEAN] /\ (up'[l] => up[l])
      /\ \A x \in Links : x # l => up'[x] = up[x]
  BY <1>2 DEF RecvTimeout, LinkDown
<1>5. \A x \in Links : x # l => /\ wire'[x] = wire[x] /\ acks'[x] = acks[x]
                                /\ partial'[x] = partial[x] /\ up'[x] = up[x]
  BY <1>1, <1>2, <1>4
<1>6. DeliveryTypeOK'
  <2>1. partial' \in [Links -> Seq(Frag)] /\ wire' \in [Links -> Seq(Frag)]
        /\ acks' \in [Links -> Seq(Calls)]
    <3>1. << >> \in Seq(Frag) /\ << >> \in Seq(Calls)
      OBVIOUS
    <3>2. partial' \in [Links -> Seq(Frag)]
      BY <1>1, <1>2, <3>1
    <3>3. wire' \in [Links -> Seq(Frag)]
      BY <1>1, <1>2, <3>1
    <3>4. acks' \in [Links -> Seq(Calls)]
      BY <1>1, <1>2, <3>1
    <3> QED BY <3>2, <3>3, <3>4
  <2> QED BY <1>1, <1>4, <2>1 DEF Safe, HopInv, DeliveryTypeOK
<1>7. Quiet(l) => Quiet(l)'
  BY <1>3 DEF Quiet
<1>8. FragInv'
  <2>1. \A f \in Frag : OnLink(l, f)' => OnLink(l, f)
    BY <1>3 DEF OnLink
  <2>2. \A i, j \in 1..Len(wire'[l]) : wire'[l][i] = wire'[l][j] => i = j
    BY <1>3 DEF Safe, HopInv, FragInv
  <2>3. ~up'[l] => wire'[l] = <<>> /\ partial'[l] = <<>>
    BY <1>1, <1>2, <1>3 DEF RecvTimeout, LinkDown
  <2> QED BY <1>1, <1>4, <1>5, <1>7, <2>1, <2>2, <2>3, FragShrinks
<1>9. ASSUME NEW t \in Threads, NEW k \in Calls, pc[t] = "confirm",
             linkOf[cur[t]] = l, callOf[t] = k, Carries(t, l, k)
      PROVE  Carries(t, l, k)'
  <2>1. UNCHANGED <<sent, got, target>>
    BY <1>1
  <2>2. sent[t] \in Nat /\ Len(wire[l]) \in Nat /\ Len(partial[l]) \in Nat
    BY <1>2, DeliveryAssumption DEF Safe, HopInv, DeliveryTypeOK
  <2>3. Len(partial'[l]) = 0 /\ (Len(wire'[l]) = Len(wire[l]) \/ Len(wire'[l]) = 0)
    BY <1>3
  <2>4. Len(partial'[l]) + Len(wire'[l]) <= sent'[t]
    <3>1. Len(partial[l]) + Len(wire[l]) <= sent[t]
      BY <1>9 DEF Carries
    <3>2. ASSUME NEW a \in Nat, NEW b \in Nat, NEW c \in Nat, a + b <= c
          PROVE  0 + b <= c /\ 0 + 0 <= c
      BY <3>2
    <3>3. 0 + Len(wire[l]) <= sent[t] /\ 0 + 0 <= sent[t]
      BY <2>2, <3>1, <3>2
    <3> QED BY <2>1, <2>3, <3>3
  <2>5. \A i \in 1..Len(wire'[l]) :
          wire'[l][i] = [call |-> k, n |-> sent'[t] - Len(wire'[l]) + i]
    <3>1. CASE wire'[l] = wire[l]
      <4>1. Len(wire'[l]) = Len(wire[l]) /\ sent'[t] = sent[t]
        BY <2>1, <3>1
      <4> QED BY <1>9, <3>1, <4>1 DEF Carries
    <3>2. CASE wire'[l] = <<>>
      BY <3>2
    <3> QED BY <1>3, <3>1, <3>2
  <2>6. acks'[l] # <<>> =>
          /\ acks'[l] = <<k>> /\ wire'[l] = <<>>
          /\ sent'[t] = Fragments /\ got'[k][target'[k]] > 0
    BY <1>3, <1>9, <2>1 DEF Carries
  <2>7. \A i \in 1..Len(partial'[l]) : partial'[l][i] = [call |-> k, n |-> i]
    BY <1>3
  <2> QED BY <1>3, <2>4, <2>5, <2>6, <2>7 DEF Carries
<1>10. CallInv' /\ AttemptInv' /\ OkInv' /\ PooledInv' /\ CarriesInv'
  BY <1>1, <1>5, <1>7, <1>9, ReceiverFrame
<1>11. CopyInv'
  <2>1. \A k \in Calls : Flying(k)' \subseteq Flying(k)
    <3> SUFFICES ASSUME NEW k \in Calls, NEW x \in Flying(k)' PROVE x \in Flying(k)
      OBVIOUS
    <3>1. x \in Links /\ (wire'[x] = wire[x] \/ wire'[x] = <<>>)
      BY <1>3, <1>5 DEF Flying
    <3> QED BY <3>1 DEF Flying
  <2> QED BY <1>1, <2>1, WiresShrink
<1> QED BY <1>6, <1>8, <1>10, <1>11 DEF HopInv

\* What the last fragment does to the bundles kept: it is the last fragment of
\* call q in flight on l, and at most one copy, of q, is kept at q's target.
LEMMA LastFragment ==
    ASSUME Safe, NEW l \in Links, RecvBundle(l)
    PROVE  \E q \in Calls :
             /\ Head(wire[l]) = [call |-> q, n |-> Fragments]
             /\ q <= ops /\ target[q] \in Dests
             /\ got' = got \/ got' = [got EXCEPT ![q][target[q]] = @ + 1]
             /\ (\A i \in 1..Len(partial[l]) : partial[l][i].call = q)
                  => got' = [got EXCEPT ![q][target[q]] = @ + 1]
             /\ l \in Flying(q) /\ Flying(q)' \subseteq Flying(q) \ {l}
<1>1. /\ wire[l] # <<>> /\ Head(wire[l]).n = Len(partial[l]) + 1
      /\ Len(partial[l]) + 1 = Fragments
      /\ wire' = [wire EXCEPT ![l] = Tail(@)]
  BY DEF RecvBundle, Continues
<1>2. /\ Head(wire[l]) = wire[l][1] /\ Head(wire[l]) \in Frag
      /\ Len(wire[l]) \in Nat \ {0}
      /\ \A i \in 1..Len(wire'[l]) :
           i + 1 \in 1..Len(wire[l]) /\ wire'[l][i] = wire[l][i + 1]
      /\ \A k : Flying(k)' \subseteq Flying(k)
  BY <1>1, WireTail
<1>3. PICK h \in Frag : h = Head(wire[l])
  BY <1>2
<1>4. PICK q \in Calls : q = h.call
  BY DEF Frag
<1>5. h = [call |-> q, n |-> Fragments]
  BY <1>1, <1>3, <1>4 DEF Frag
<1>6. OnLink(l, h) /\ 1 \in 1..Len(wire[l])
  BY <1>2, <1>3 DEF OnLink
<1>7. q <= ops /\ target[q] = peer[l]
  BY <1>4, <1>6 DEF Safe, HopInv, FragInv
<1>8. target[q] \in Dests
  BY <1>7, CountTypes
<1>9. l \in Flying(q)
  BY <1>2, <1>3, <1>5, <1>6 DEF Flying
<1>10. l \notin Flying(q)'
  <2> SUFFICES ASSUME l \in Flying(q)' PROVE FALSE
    OBVIOUS
  <2>1. PICK i \in 1..Len(wire'[l]) : wire'[l][i] = [call |-> q, n |-> Fragments]
    BY DEF Flying
  <2>2. i + 1 \in 1..Len(wire[l]) /\ wire[l][i + 1] = wire[l][1]
    BY <1>2, <1>3, <1>5, <2>1
  <2>3. i + 1 = 1
    BY <1>6, <2>2 DEF Safe, HopInv, FragInv
  <2> QED BY <2>3
<1>11. partial[l] \in Seq(Frag) /\ Len(partial[l]) \in Nat
  BY DEF Safe, HopInv, DeliveryTypeOK
<1>12. PICK frags \in Seq(Frag) : frags = Append(partial[l], h)
  BY <1>11, AppendFacts
<1>13. /\ \A i \in 1..Len(partial[l]) : frags[i] = partial[l][i]
       /\ frags[Fragments] = h
  BY <1>1, <1>11, <1>12, AppendFacts
<1>14. got' = IF \A n \in 1..Fragments : frags[n].call = frags[1].call
              THEN [got EXCEPT ![frags[1].call][peer[l]] = @ + 1] ELSE got
  BY <1>3, <1>12 DEF RecvBundle
<1>15. Fragments \in 1..Fragments /\ 1 \in 1..Fragments
  BY DeliveryAssumption
<1>16. CASE \A n \in 1..Fragments : frags[n].call = frags[1].call
  <2>1. frags[1].call = q
    BY <1>4, <1>13, <1>15, <1>16
  <2>2. got' = [got EXCEPT ![q][target[q]] = @ + 1]
    BY <1>7, <1>14, <1>16, <2>1
  <2> QED BY <1>2, <1>3, <1>5, <1>7, <1>8, <1>9, <1>10, <2>2
<1>17. CASE ~(\A n \in 1..Fragments : frags[n].call = frags[1].call)
  <2>1. got' = got
    BY <1>14, <1>17
  <2>2. ~(\A i \in 1..Len(partial[l]) : partial[l][i].call = q)
    <3> SUFFICES ASSUME \A i \in 1..Len(partial[l]) : partial[l][i].call = q
                 PROVE  FALSE
      OBVIOUS
    <3>1. \A n \in 1..Fragments : n \in 1..Len(partial[l]) \/ n = Fragments
      BY <1>1, <1>11
    <3>2. \A n \in 1..Fragments : frags[n].call = q
      BY <1>4, <1>13, <3>1
    <3> QED BY <1>15, <1>17, <3>2
  <2> QED BY <1>2, <1>3, <1>5, <1>7, <1>8, <1>9, <1>10, <2>1, <2>2
<1> QED BY <1>16, <1>17

\* Keeping a bundle: the copy kept was counted as one in flight, and the ack
\* that a sender may find on its link is the ack of its own bundle.
LEMMA RecvBundleHop ==
    ASSUME Safe, NEW l \in Links, RecvBundle(l)
    PROVE  HopInv'
<1>1. /\ up[l] /\ wire[l] # <<>>
      /\ Len(partial[l]) + 1 = Fragments
      /\ partial' = [partial EXCEPT ![l] = <<>>]
      /\ wire' = [wire EXCEPT ![l] = Tail(@)]
      /\ acks' = [acks EXCEPT ![l] = Append(@, Head(wire[l]).call)] \/ acks' = acks
      /\ UNCHANGED <<vars, callOf, target, outcome, linkOf, links, peer, up, sent>>
  BY DEF RecvBundle, callVars
<1>2. /\ wire' \in [Links -> Seq(Frag)]
      /\ Head(wire[l]) = wire[l][1] /\ Head(wire[l]) \in Frag
      /\ Len(wire[l]) \in Nat \ {0} /\ Len(wire'[l]) = Len(wire[l]) - 1
      /\ \A i \in 1..Len(wire'[l]) :
           i + 1 \in 1..Len(wire[l]) /\ wire'[l][i] = wire[l][i + 1]
      /\ \A x \in Links : x # l => wire'[x] = wire[x]
      /\ \A i, j \in 1..Len(wire'[l]) : wire'[l][i] = wire'[l][j] => i = j
      /\ \A k : Flying(k)' \subseteq Flying(k)
  BY <1>1, WireTail
<1>3. PICK q \in Calls :
             /\ Head(wire[l]) = [call |-> q, n |-> Fragments]
             /\ q <= ops /\ target[q] \in Dests
             /\ got' = got \/ got' = [got EXCEPT ![q][target[q]] = @ + 1]
             /\ (\A i \in 1..Len(partial[l]) : partial[l][i].call = q)
                  => got' = [got EXCEPT ![q][target[q]] = @ + 1]
             /\ l \in Flying(q) /\ Flying(q)' \subseteq Flying(q) \ {l}
  BY LastFragment
<1>4. /\ partial \in [Links -> Seq(Frag)] /\ acks \in [Links -> Seq(Calls)]
      /\ got \in [Calls -> [Dests -> Nat]]
  BY DEF Safe, HopInv, DeliveryTypeOK
<1>5. Append(acks[l], q) \in Seq(Calls)
  BY <1>4, AppendFacts
<1>6. /\ partial'[l] = <<>> /\ partial' \in [Links -> Seq(Frag)]
      /\ acks'[l] = Append(acks[l], q) \/ acks'[l] = acks[l]
      /\ acks' \in [Links -> Seq(Calls)]
  <2>1. Head(wire[l]).call = q
    BY <1>3
  <2>2. partial'[l] = <<>> /\ partial' \in [Links -> Seq(Frag)]
    BY <1>1, <1>4
  <2>3. acks' = [acks EXCEPT ![l] = Append(acks[l], q)] \/ acks' = acks
    BY <1>1, <2>1
  <2> QED BY <1>4, <1>5, <2>2, <2>3
<1>7. /\ got' \in [Calls -> [Dests -> Nat]]
      /\ \A k \in Calls : k # q => got'[k] = got[k]
      /\ got[q][target[q]] \in Nat
      /\ got'[q][target[q]] = got[q][target[q]] \/ got'[q][target[q]] = got[q][target[q]] + 1
      /\ (\A i \in 1..Len(partial[l]) : partial[l][i].call = q)
           => got'[q][target[q]] = got[q][target[q]] + 1
  <2>1. got[q] \in [Dests -> Nat] /\ got[q][target[q]] \in Nat
    BY <1>3, <1>4
  <2>2. CASE got' = got
    BY <1>3, <1>4, <2>1, <2>2
  <2>3. CASE got' = [got EXCEPT ![q][target[q]] = @ + 1]
    <3>1. got'[q] = [got[q] EXCEPT ![target[q]] = @ + 1]
      BY <1>4, <2>3
    <3>2. got'[q][target[q]] = got[q][target[q]] + 1 /\ got'[q] \in [Dests -> Nat]
      BY <1>3, <2>1, <3>1
    <3> QED BY <1>4, <2>1, <2>3, <3>2
  <2> QED BY <1>3, <2>2, <2>3
<1>8. DeliveryTypeOK'
  BY <1>1, <1>2, <1>6, <1>7 DEF Safe, HopInv, DeliveryTypeOK
<1>9. \A x \in Links : x # l => /\ wire'[x] = wire[x] /\ acks'[x] = acks[x]
                                /\ partial'[x] = partial[x] /\ up'[x] = up[x]
  BY <1>1, <1>2, <1>4
<1>10. ~Quiet(l)
  BY <1>1 DEF Quiet
<1>11. FragInv'
  <2>1. \A f \in Frag : OnLink(l, f)' => OnLink(l, f)
    <3> SUFFICES ASSUME NEW f \in Frag, OnLink(l, f)' PROVE OnLink(l, f)
      OBVIOUS
    <3>1. PICK i \in 1..Len(wire'[l]) : wire'[l][i] = f
      BY <1>6 DEF OnLink
    <3> QED BY <1>2, <3>1 DEF OnLink
  <2> QED BY <1>1, <1>2, <1>9, <1>10, <2>1, FragShrinks
<1>12. ASSUME NEW t \in Threads, NEW k \in Calls, pc[t] = "confirm",
              linkOf[cur[t]] = l, callOf[t] = k, Carries(t, l, k)
       PROVE  Carries(t, l, k)'
  <2>1. sent[t] \in Nat /\ sent[t] <= Fragments /\ sent'[t] = sent[t] /\ Fragments \in Nat
    BY <1>1, DeliveryAssumption DEF Safe, HopInv, DeliveryTypeOK
  <2>2. [call |-> q, n |-> Fragments] = [call |-> k, n |-> sent[t] - Len(wire[l]) + 1]
    <3>1. 1 \in 1..Len(wire[l])
      BY <1>2
    <3>2. wire[l][1] = [call |-> k, n |-> sent[t] - Len(wire[l]) + 1]
      BY <1>12, <3>1 DEF Carries
    <3> QED BY <1>2, <1>3, <3>2
  <2>3. q = k /\ Fragments = sent[t] - Len(wire[l]) + 1
    BY <1>2, <2>1, <2>2
  <2>4. Len(wire[l]) = 1 /\ sent[t] = Fragments
    <3>1. ASSUME NEW a \in Nat, NEW b \in Nat \ {0}, NEW c \in Nat, a <= c, c = a - b + 1
          PROVE  b = 1 /\ a = c
      BY <3>1
    <3> QED BY <1>2, <2>1, <2>3, <3>1
  <2>5. wire'[l] = <<>>
    BY <1>2, <2>4
  <2>6. acks[l] = <<>>
    BY <1>1, <1>12 DEF Carries
  <2>7. got'[k][target[k]] > 0
    <3>1. \A i \in 1..Len(partial[l]) : partial[l][i].call = q
      <4> TAKE i \in 1..Len(partial[l])
      <4>1. partial[l][i] = [call |-> k, n |-> i]
        BY <1>12 DEF Carries
      <4> QED BY <2>3, <4>1
    <3> QED BY <1>7, <2>3, <3>1
  <2>8. acks'[l] # <<>> => acks'[l] = <<k>>
    BY <1>6, <2>3, <2>6
  <2>9. Len(partial'[l]) = 0 /\ Len(wire'[l]) = 0
    BY <1>6, <2>5
  <2>10. Len(partial'[l]) + Len(wire'[l]) <= sent'[t]
    BY <2>1, <2>9
  <2>11. \A i \in 1..Len(wire'[l]) :
           wire'[l][i] = [call |-> k, n |-> sent'[t] - Len(wire'[l]) + i]
    BY <2>9
  <2>12. \A i \in 1..Len(partial'[l]) : partial'[l][i] = [call |-> k, n |-> i]
    BY <2>9
  <2>13. sent'[t] = Fragments /\ got'[k][target'[k]] > 0
    BY <1>1, <2>1, <2>4, <2>7
  <2> QED BY <1>6, <2>5, <2>8, <2>10, <2>11, <2>12, <2>13 DEF Carries
<1>13. CallInv' /\ AttemptInv' /\ OkInv' /\ PooledInv' /\ CarriesInv'
  <2>1. \A k \in Calls : k > ops => got'[k] = got[k]
    BY <1>3, <1>7 DEF Calls, Safe, TypeInv, TypeOK
  <2>2. \A k \in Calls : k <= ops /\ got[k][target[k]] > 0 => got'[k][target[k]] > 0
    BY <1>7
  <2> QED BY <1>1, <1>9, <1>10, <1>12, <2>1, <2>2, ReceiverFrame
<1>14. CopyInv'
  <2>1. ASSUME NEW k \in Calls, k <= ops
        PROVE  Copies(k)' <= Copies(k) /\ Copies(k)' \in Nat
    <3>1. /\ IsFiniteSet(Flying(k)) /\ Cardinality(Flying(k)) \in Nat
          /\ Cardinality(Flying(k)') \in Nat
      BY <1>2, FlyingFinite, FS_Subset, FS_CardinalityType
    <3>2. got[k][target[k]] \in Nat
      BY <2>1, CountTypes
    <3>3. CASE k = q
      <4>1. Cardinality(Flying(k)') + 1 <= Cardinality(Flying(k))
        BY <1>3, <3>1, <3>3, CountLinks
      <4>2. got'[k][target'[k]] \in Nat /\ got'[k][target'[k]] <= got[k][target[k]] + 1
        BY <1>1, <1>7, <3>3
      <4> QED BY <3>1, <3>2, <4>1, <4>2 DEF Copies
    <3>4. CASE k # q
      <4>1. Cardinality(Flying(k)') <= Cardinality(Flying(k))
        BY <1>2, <3>1, FS_Subset
      <4>2. got'[k][target'[k]] = got[k][target[k]]
        BY <1>1, <1>7, <3>4
      <4> QED BY <3>1, <3>2, <4>1, <4>2 DEF Copies
    <3> QED BY <3>3, <3>4
  <2> QED BY <1>1, <2>1, NoMoreCopies
<1> QED BY <1>8, <1>11, <1>13, <1>14 DEF HopInv

-----------------------------------------------------------------------------
(* The theorems *)

\* Every step of a hop keeps the invariant.
LEMMA HopStep ==
    ASSUME Safe, [DeliveryNext]_deliveryVars
    PROVE  HopInv'
<1>1. ASSUME NEW t \in Threads, SenderStep(t) PROVE HopInv'
  <2>1. CASE PoolStep(t) \/ OpenLink(t) \/ SfpSend(t)
    BY <2>1, PoolStepHop, OpenLinkHop, SfpSendHop
  <2>2. ASSUME NEW r \in {"TIMEDOUT", "OTHER"}, SfpFails(t, r) PROVE HopInv'
    BY <2>2, FailHop DEF SfpFails
  <2>3. CASE AckTimeout(t)
    BY <2>3, FailHop DEF AckTimeout
  <2>4. CASE TakeAck(t) \/ EndSend(t)
    BY <2>4, TakeAckHop, EndSendHop
  <2> QED BY <1>1, <2>1, <2>2, <2>3, <2>4 DEF SenderStep
<1>2. ASSUME NEW t \in Threads, NEW d \in Dests, StartSend(t, d) PROVE HopInv'
  BY <1>2, StartSendHop
<1>3. ASSUME NEW l \in Links, ReceiverStep(l) \/ LinkDies(l) PROVE HopInv'
  BY <1>3, RecvFragmentHop, RecvBundleHop, DropHop
     DEF ReceiverStep, LinkDies, RecvMismatch
<1>4. CASE Lifecycle
  BY <1>4, LifecycleHop
<1>5. CASE UNCHANGED deliveryVars
  <2>1. /\ UNCHANGED <<callOf, target, outcome, linkOf, links, peer, up, wire,
                       acks, partial, sent, got>>
        /\ UNCHANGED <<entries, conns, pc, dest, attempt, cur, ret, ops>>
    BY <1>5 DEF deliveryVars, callVars, linkVars, vars, poolVars, threadVars
  <2>2. DeliveryTypeOK' /\ AttemptInv' /\ OkInv'
    BY <2>1 DEF Safe, HopInv, DeliveryTypeOK, AttemptInv, OkInv
  <2>3. CallInv' /\ FragInv'
    BY <2>1, CallFrame, FragFrame
  <2>4. \A c : (Pooled(c)' <=> Pooled(c)) /\ (InUse(c)' <=> InUse(c))
    BY <2>1 DEF Pooled, InUse, Used
  <2>5. PooledInv'
    BY <2>1, <2>4, PooledFrame
  <2>6. CarriesInv'
    BY <2>1 DEF Safe, HopInv, CarriesInv, Carries
  <2>7. \A u \in Threads : Tried(u)' = Tried(u)
    BY <2>1 DEF Tried
  <2>8. CopyInv'
    BY <2>1, <2>7, CountTypes, CopyFrame
  <2> QED BY <2>2, <2>3, <2>5, <2>6, <2>8 DEF HopInv
<1> QED BY <1>1, <1>2, <1>3, <1>4, <1>5 DEF DeliveryNext

\* What is in the pool, on the links and at the receivers agrees at all times,
\* for any number of threads, calls, links and fragments.
THEOREM HopInvariant == DeliverySpec => []Safe
<1>1. DeliveryInit => HopInv
  BY HopInit
<1>2. TypeInv /\ OwnInv /\ HopInv /\ [DeliveryNext]_deliveryVars => HopInv'
  BY HopStep DEF Safe
<1>3. TypeInv /\ OwnInv /\ HopInv => Safe
  BY DEF Safe
<1> QED BY <1>1, <1>2, <1>3, HopPoolInvariant, PTL DEF DeliverySpec

\* A connection that cspcl_pool_get_or_create_locked() hands to a sender
\* carries neither an ack nor a fragment of an earlier bundle.
THEOREM ReuseIsClean == DeliverySpec => []CleanReuse
<1>1. Safe => CleanReuse
  <2> SUFFICES ASSUME Safe, NEW t \in Threads, pc[t] = "confirm", sent[t] = 0,
                      NEW l \in Links, l = linkOf[cur[t]]
               PROVE  acks[l] = <<>> /\ wire[l] = <<>> /\ partial[l] = <<>>
    BY SenderLink DEF CleanReuse
  <2>1. Carries(t, l, callOf[t])
    BY SenderLink
  <2>2. acks[l] = <<>>
    BY <2>1, DeliveryAssumption DEF Carries
  <2>3. wire[l] \in Seq(Frag) /\ partial[l] \in Seq(Frag)
    BY DEF Safe, HopInv, DeliveryTypeOK
  <2>4. Len(wire[l]) \in Nat /\ Len(partial[l]) \in Nat
    BY <2>3
  <2>5. Len(wire[l]) = 0 /\ Len(partial[l]) = 0
    <3>1. ASSUME NEW a \in Nat, NEW b \in Nat, a + b <= 0 PROVE a = 0 /\ b = 0
      BY <3>1
    <3>2. Len(partial[l]) + Len(wire[l]) <= sent[t]
      BY <2>1 DEF Carries
    <3>3. Len(partial[l]) + Len(wire[l]) <= 0
      BY <3>2
    <3> QED BY <2>4, <3>1, <3>3
  <2> QED BY <2>2, <2>3, <2>5
<1> QED BY <1>1, HopInvariant, PTL

\* A hop implements the service BundleService promises: a call is answered
\* once, OK only after the peer kept the bundle, and at most two copies of a
\* bundle are kept, also when the last attempt is reported as a failure.
THEOREM HopImplementsService == DeliverySpec => ImplementsService
<1>1. DeliveryInit => Service!ServiceInit
  BY DEF DeliveryInit, Service!ServiceInit
<1>2. Safe /\ [DeliveryNext]_deliveryVars => [Service!ServiceNext]_(Service!serviceVars)
  <2> SUFFICES ASSUME Safe, [DeliveryNext]_deliveryVars
               PROVE  Service!ServiceNext \/ UNCHANGED <<target, outcome, got>>
    BY DEF Service!serviceVars
  <2>1. ASSUME NEW t \in Threads, NEW d \in Dests, StartSend(t, d)
        PROVE  Service!ServiceNext
    <3>1. ops < MaxOps /\ ops \in Nat /\ ops' = ops + 1
      BY <2>1 DEF StartSend, SendCheck, Safe, TypeInv, TypeOK
    <3>2. PICK m \in Calls : m = ops'
      BY <3>1, ConnPoolAssumption DEF Calls
    <3>3. outcome[m] = "none"
      BY <3>1, <3>2 DEF Safe, HopInv, CallInv
    <3>4. ~initialized => result'[t] = "NOT_INITIALIZED"
      BY <2>1 DEF StartSend, SendCheck, Return, Safe, TypeInv, TypeOK
    <3>5. \E a \in {"busy", "NOT_INITIALIZED"} : Service!Submit(m, d, a)
      BY <2>1, <3>2, <3>3, <3>4 DEF StartSend, Service!Submit
    <3> QED BY <3>5 DEF Service!ServiceNext
  <2>2. ASSUME NEW t \in Threads, SenderStep(t), ~EndSend(t)
        PROVE  UNCHANGED <<target, outcome, got>>
    BY <2>2 DEF SenderStep, PoolStep, OpenLink, SfpSend, SfpFails, TakeAck,
                AckTimeout, callVars
  <2>3. ASSUME NEW t \in Threads, EndSend(t) PROVE Service!ServiceNext
    <3>1. pc[t] = "unlock" /\ result'[t] = ErrorOf(ret[t])
      BY <2>3 DEF EndSend, SendUnlock, Return, Safe, TypeInv, TypeOK
    <3>2. PICK k \in Calls : k = callOf[t] /\ outcome[k] = "busy"
      BY <3>1 DEF Safe, HopInv, CallInv
    <3>3. outcome' = [outcome EXCEPT ![k] = ErrorOf(ret[t])] /\ UNCHANGED <<target, got>>
      BY <2>3, <3>1, <3>2 DEF EndSend
    <3>4. CASE ret[t] = "NONE"
      <4>1. got[k][target[k]] > 0 /\ ErrorOf(ret[t]) = "OK"
        BY <3>1, <3>2, <3>4 DEF Safe, HopInv, OkInv, ErrorOf
      <4>2. Service!Succeed(k)
        BY <3>2, <3>3, <4>1 DEF Service!Succeed
      <4> QED BY <4>2 DEF Service!ServiceNext
    <3>5. CASE ret[t] # "NONE"
      <4>1. ErrorOf(ret[t]) \in Service!Errors
        BY <3>5 DEF ErrorOf, Service!Errors
      <4>2. Service!Fail(k, ErrorOf(ret[t]))
        BY <3>2, <3>3 DEF Service!Fail
      <4> QED BY <4>1, <4>2 DEF Service!ServiceNext
    <3> QED BY <3>4, <3>5
  <2>4. ASSUME NEW l \in Links, RecvBundle(l)
        PROVE  Service!ServiceNext \/ UNCHANGED <<target, outcome, got>>
    <3>1. PICK q \in Calls :
            /\ q <= ops /\ target[q] \in Dests
            /\ got' = got \/ got' = [got EXCEPT ![q][target[q]] = @ + 1]
            /\ l \in Flying(q)
      BY <2>4, LastFragment
    <3>2. UNCHANGED <<target, outcome>>
      BY <2>4 DEF RecvBundle, callVars
    <3>3. outcome[q] # "none"
      BY <3>1 DEF Safe, HopInv, CallInv, Calls, TypeInv, TypeOK
    <3>4. got[q][target[q]] < 2
      <4>1. Copies(q) <= 2 /\ got[q][target[q]] \in Nat
        BY <3>1, CountTypes DEF Safe, HopInv, CopyInv
      <4>2. IsFiniteSet(Flying(q)) /\ Cardinality(Flying(q)) \in Nat
        BY FlyingFinite
      <4>3. Cardinality({}) + 1 <= Cardinality(Flying(q))
        BY <3>1, <4>2, CountLinks
      <4>4. Cardinality(Flying(q)) >= 1
        BY <4>2, <4>3, FS_EmptySet
      <4> QED BY <4>1, <4>2, <4>4 DEF Copies
    <3>5. got' = [got EXCEPT ![q][target[q]] = @ + 1] => Service!Keep(q)
      BY <3>2, <3>3, <3>4 DEF Service!Keep
    <3> QED BY <3>1, <3>2, <3>5 DEF Service!ServiceNext
  <2>5. ASSUME NEW l \in Links, ReceiverStep(l) \/ LinkDies(l), ~RecvBundle(l)
        PROVE  UNCHANGED <<target, outcome, got>>
    BY <2>5 DEF ReceiverStep, RecvFragment, RecvTimeout, RecvMismatch, LinkDies,
                LinkDown, callVars
  <2>6. CASE Lifecycle \/ UNCHANGED deliveryVars
    BY <2>6 DEF Lifecycle, deliveryVars, callVars
  <2> QED BY <2>1, <2>2, <2>3, <2>4, <2>5, <2>6 DEF DeliveryNext
<1> QED BY <1>1, <1>2, HopInvariant, PTL
        DEF DeliverySpec, ImplementsService, Service!ServiceSpec

=============================================================================
