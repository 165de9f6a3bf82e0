------------------------------ MODULE Delivery ------------------------------
(***************************************************************************)
(* One hop of bundle delivery: the pool and senders of ConnPool, the CSP   *)
(* links their connections stand for, and the receiving nodes.             *)
(*                                                                         *)
(* A sender fragments a bundle over its connection (csp_sfp_send) and      *)
(* waits for one packet, any packet, on the same connection                *)
(* (cspcl_wait_ack).  A receiver reassembles the fragments, keeps the      *)
(* bundle and only then sends the one-byte ack, best effort.  The ack      *)
(* carries no identity: that it speaks of the right bundle rests on the    *)
(* way connections are reused and closed.                                  *)
(*                                                                         *)
(* libcsp is external.  Its RDP gives each connection an ordered link that *)
(* either delivers a prefix of what was sent or dies; connection objects   *)
(* are recycled but links are not.  A call of cspcl_send_bundle() is named *)
(* by its number, which also names its bundle.  Threads only send here:    *)
(* what cspcl_conn_pool_add() does to the table is checked in ConnPool.    *)
(***************************************************************************)
EXTENDS ConnPool, Sequences

CONSTANTS
    Fragments,   \* fragments of a bundle (CSPCL_MAX_PAYLOAD each)
    MaxLinks     \* bound: links opened in a behaviour

ASSUME DeliveryAssumption ==
    /\ Fragments \in Nat \ {0}
    /\ MaxLinks \in Nat
    /\ QuiescentCleanup   \* as in the Rust binding: Drop runs after the last use

VARIABLES
    callOf,      \* the call each thread is in, 0 outside a call
    sent,        \* fragments its current attempt has handed to csp_send()
    linkOf,      \* the link behind each connection object, 0 = none yet
    links,       \* links opened so far
    peer,        \* receiving node of each link
    up,          \* the receiving end is open
    wire,        \* fragments in flight, in order
    acks,        \* ack packets in flight back (named for the call acked)
    partial,     \* fragments csp_sfp_recv() has assembled so far
    target,      \* history: destination of each call
    outcome,     \* history: what each call returned
    got          \* history: copies of each call's bundle kept at each node

linkVars == <<linkOf, links, peer, up, wire, acks, partial>>
callVars == <<callOf, target, outcome>>
deliveryVars == <<vars, callVars, linkVars, sent, got>>

Calls == 1..MaxOps
Links == 1..MaxLinks
Frag == [call: Calls, n: 1..Fragments]

DeliveryTypeOK ==
    /\ callOf \in [Threads -> 0..MaxOps]
    /\ sent \in [Threads -> 0..Fragments]
    /\ linkOf \in [Conns -> 0..MaxLinks]
    /\ links \in 0..MaxLinks
    /\ peer \in [Links -> Dests \cup {NULL}]
    /\ up \in [Links -> BOOLEAN]
    /\ wire \in [Links -> Seq(Frag)]
    /\ acks \in [Links -> Seq(Calls)]
    /\ partial \in [Links -> Seq(Frag)]
    /\ target \in [Calls -> Dests \cup {NULL}]
    /\ outcome \in [Calls -> Results \cup {"busy"}]
    /\ got \in [Calls -> [Dests -> Nat]]

DeliveryInit ==
    /\ Init
    /\ callOf = [t \in Threads |-> 0]
    /\ sent = [t \in Threads |-> 0]
    /\ linkOf = [c \in Conns |-> 0]
    /\ links = 0
    /\ peer = [l \in Links |-> NULL]
    /\ up = [l \in Links |-> FALSE]
    /\ wire = [l \in Links |-> <<>>]
    /\ acks = [l \in Links |-> <<>>]
    /\ partial = [l \in Links |-> <<>>]
    /\ target = [k \in Calls |-> NULL]
    /\ outcome = [k \in Calls |-> "none"]
    /\ got = [k \in Calls |-> [d \in Dests |-> 0]]

-----------------------------------------------------------------------------
(* The sending node *)

StartSend(t, d) ==
    /\ SendCheck(t, d)
    /\ callOf' = [callOf EXCEPT ![t] = ops']
    /\ target' = [target EXCEPT ![ops'] = d]
    /\ outcome' = [outcome EXCEPT ![ops'] =
                     IF initialized THEN "busy" ELSE result'[t]]
    /\ UNCHANGED <<linkVars, sent, got>>

\* The steps that only concern the pool.
PoolStep(t) ==
    /\ \/ SendLock(t)
       \/ GetHit(t) \/ GetAged(t) \/ GetFree(t) \/ GetEvict(t)
       \/ ConnectFails(t)
    /\ UNCHANGED <<callVars, linkVars, sent, got>>

OpenLink(t) ==
    /\ links < MaxLinks
    /\ ConnectOK(t)
    /\ links' = links + 1
    /\ linkOf' = [linkOf EXCEPT ![cur'[t]] = links']
    /\ peer' = [peer EXCEPT ![links'] = dest[t]]
    /\ up' = [up EXCEPT ![links'] = TRUE]
    /\ UNCHANGED <<callVars, wire, acks, partial, sent, got>>

\* csp_sfp_send() hands the next fragment to the connection.  On a dead link
\* the fragment goes nowhere, which the sender does not notice.
SfpSend(t) ==
    /\ pc[t] = "confirm" /\ sent[t] < Fragments
    /\ sent' = [sent EXCEPT ![t] = @ + 1]
    /\ LET l == linkOf[cur[t]] IN
         wire' = IF up[l] THEN [wire EXCEPT ![l] =
                   Append(@, [call |-> callOf[t], n |-> sent'[t]])] ELSE wire
    /\ UNCHANGED <<vars, callVars, linkOf, links, peer, up, acks, partial,
                   got>>

\* csp_sfp_send() fails, possibly halfway through the bundle.
SfpFails(t, r) ==
    /\ sent[t] < Fragments
    /\ ConfirmFails(t, r)
    /\ sent' = [sent EXCEPT ![t] = 0]
    /\ UNCHANGED <<callVars, linkVars, got>>

\* cspcl_wait_ack(): csp_read() returns a packet, taken for the ack.
TakeAck(t) ==
    /\ sent[t] = Fragments
    /\ LET l == linkOf[cur[t]] IN
         /\ acks[l] # <<>>
         /\ acks' = [acks EXCEPT ![l] = Tail(@)]
    /\ ConfirmOK(t)
    /\ sent' = [sent EXCEPT ![t] = 0]
    /\ UNCHANGED <<callVars, linkOf, links, peer, up, wire, partial, got>>

\* cspcl_wait_ack(): nothing within CSPCL_ACK_TIMEOUT_MS.
AckTimeout(t) ==
    /\ sent[t] = Fragments
    /\ ConfirmFails(t, "TIMEDOUT")
    /\ sent' = [sent EXCEPT ![t] = 0]
    /\ UNCHANGED <<callVars, linkVars, got>>

EndSend(t) ==
    /\ SendUnlock(t)
    /\ outcome' = [outcome EXCEPT ![callOf[t]] = result'[t]]
    /\ callOf' = [callOf EXCEPT ![t] = 0]
    /\ UNCHANGED <<target, linkVars, sent, got>>

-----------------------------------------------------------------------------
(* The receiving nodes: cspcl_recv_from_conn_timeout() on each connection *)

\* csp_sfp_recv() accepts a fragment whose offset continues what it has.
Continues(l) == Head(wire[l]).n = Len(partial[l]) + 1

RecvFragment(l) ==
    /\ up[l] /\ wire[l] # <<>> /\ Continues(l)
    /\ Len(partial[l]) + 1 < Fragments
    /\ partial' = [partial EXCEPT ![l] = Append(@, Head(wire[l]))]
    /\ wire' = [wire EXCEPT ![l] = Tail(@)]
    /\ UNCHANGED <<vars, callVars, linkOf, links, peer, up, acks, sent, got>>

\* The last fragment: the bundle is kept, then acknowledged; the ack may fail
\* (no buffer, no window).  A mixture of two bundles counts as neither.
RecvBundle(l) ==
    /\ up[l] /\ wire[l] # <<>> /\ Continues(l)
    /\ Len(partial[l]) + 1 = Fragments
    /\ LET frags == Append(partial[l], Head(wire[l]))
           k == frags[1].call
       IN got' = IF \A n \in 1..Fragments : frags[n].call = k
                 THEN [got EXCEPT ![k][peer[l]] = @ + 1] ELSE got
    /\ partial' = [partial EXCEPT ![l] = <<>>]
    /\ wire' = [wire EXCEPT ![l] = Tail(@)]
    /\ \/ acks' = [acks EXCEPT ![l] = Append(@, Head(wire[l]).call)]
       \/ UNCHANGED acks
    /\ UNCHANGED <<vars, callVars, linkOf, links, peer, up, sent>>

\* csp_sfp_recv() times out between two fragments: what it had is freed, the
\* connection stays open.
RecvTimeout(l) ==
    /\ up[l] /\ partial[l] # <<>>
    /\ partial' = [partial EXCEPT ![l] = <<>>]
    /\ UNCHANGED <<vars, callVars, linkOf, links, peer, up, wire, acks, sent,
                   got>>

\* The receiving end of l goes away with everything in flight to it; acks
\* already on their way back may still arrive.
LinkDown(l) ==
    /\ up' = [up EXCEPT ![l] = FALSE]
    /\ wire' = [wire EXCEPT ![l] = <<>>]
    /\ partial' = [partial EXCEPT ![l] = <<>>]
    /\ acks' \in {acks, [acks EXCEPT ![l] = <<>>]}
    /\ UNCHANGED <<vars, callVars, linkOf, links, peer, sent, got>>

\* A fragment that does not continue the bundle: CSPCL_ERR_SFP, the receiver
\* closes the connection.
RecvMismatch(l) ==
    /\ up[l] /\ wire[l] # <<>> /\ ~Continues(l)
    /\ LinkDown(l)

\* The link dies at any time: RDP gives up, the receiver evicts or idles out
\* the connection, or the receiving node restarts.
LinkDies(l) == up[l] /\ LinkDown(l)

-----------------------------------------------------------------------------
SenderStep(t) ==
    \/ PoolStep(t) \/ OpenLink(t)
    \/ SfpSend(t) \/ (\E r \in {"TIMEDOUT", "OTHER"} : SfpFails(t, r))
    \/ TakeAck(t) \/ AckTimeout(t) \/ EndSend(t)

ReceiverStep(l) ==
    RecvFragment(l) \/ RecvBundle(l) \/ RecvTimeout(l) \/ RecvMismatch(l)

Lifecycle ==
    /\ Cleanup \/ Destroy \/ PoolInit \/ ClockAdvances
    /\ UNCHANGED <<callVars, linkVars, sent, got>>

DeliveryNext ==
    \/ \E t \in Threads : SenderStep(t) \/ (\E d \in Dests : StartSend(t, d))
    \/ \E l \in Links : ReceiverStep(l) \/ LinkDies(l)
    \/ Lifecycle

DeliverySpec == DeliveryInit /\ [][DeliveryNext]_deliveryVars

-----------------------------------------------------------------------------
(* Properties *)

Service == INSTANCE BundleService WITH Peers <- Dests, NoPeer <- NULL

\* A hop is an at-least-once service with honest answers: OK only after the
\* peer kept the bundle, at most two copies, answers final.
ImplementsService == Service!ServiceSpec

\* A connection taken from the pool carries nothing of an earlier bundle:
\* no ack to be read and no fragment to be reassembled on a live link.
CleanReuse ==
    \A t \in Threads :
        pc[t] = "confirm" /\ sent[t] = 0 =>
            LET l == linkOf[cur[t]] IN
              acks[l] = <<>> /\ wire[l] = <<>> /\ partial[l] = <<>>

=============================================================================
