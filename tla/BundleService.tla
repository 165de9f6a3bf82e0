---------------------------- MODULE BundleService ---------------------------
(***************************************************************************)
(* What a hop promises the bundle layer: every submitted bundle is         *)
(* answered at most once; OK is answered only once the peer has kept the   *)
(* bundle; an error says nothing about it, and a copy may still arrive     *)
(* after any answer.  A call makes at most two copies.                     *)
(***************************************************************************)
EXTENDS Naturals

CONSTANTS Calls, Peers, NoPeer

VARIABLES
    target,    \* destination of each call
    outcome,   \* "none", "busy" or the call's answer
    got        \* copies kept by each peer

serviceVars == <<target, outcome, got>>

Errors == {"NOT_INITIALIZED", "CONNECTION", "TIMEOUT", "CSP_SEND"}

ServiceInit ==
    /\ target = [k \in Calls |-> NoPeer]
    /\ outcome = [k \in Calls |-> "none"]
    /\ got = [k \in Calls |-> [p \in Peers |-> 0]]

Submit(k, p, a) ==
    /\ outcome[k] = "none"
    /\ target' = [target EXCEPT ![k] = p]
    /\ outcome' = [outcome EXCEPT ![k] = a]
    /\ UNCHANGED got

Keep(k) ==
    /\ outcome[k] # "none" /\ got[k][target[k]] < 2
    /\ got' = [got EXCEPT ![k][target[k]] = @ + 1]
    /\ UNCHANGED <<target, outcome>>

Succeed(k) ==
    /\ outcome[k] = "busy" /\ got[k][target[k]] > 0
    /\ outcome' = [outcome EXCEPT ![k] = "OK"]
    /\ UNCHANGED <<target, got>>

Fail(k, e) ==
    /\ outcome[k] = "busy"
    /\ outcome' = [outcome EXCEPT ![k] = e]
    /\ UNCHANGED <<target, got>>

ServiceNext ==
    \E k \in Calls :
        \/ \E p \in Peers : \E a \in {"busy", "NOT_INITIALIZED"} : Submit(k, p, a)
        \/ Keep(k) \/ Succeed(k)
        \/ \E e \in Errors : Fail(k, e)

ServiceSpec == ServiceInit /\ [][ServiceNext]_serviceVars

=============================================================================
