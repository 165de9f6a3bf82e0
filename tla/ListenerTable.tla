---------------------------- MODULE ListenerTable ---------------------------
(***************************************************************************)
(* The connection table of the Rust receiver (inbound.rs): one listener    *)
(* thread per inbound connection, the accept thread that adds them, and    *)
(* the order in which a listener gives up its connection, its reference to *)
(* the instance and its slot.                                              *)
(*                                                                         *)
(* Module Receiver models who receives what; here receiving is a switch of *)
(* the environment, and the bundles only matter as activity.  Activity     *)
(* timestamps are modelled by the order in which they were taken.          *)
(***************************************************************************)
EXTENDS Naturals, FiniteSets

CONSTANTS
    Listeners,   \* names for listener threads, recycled
    Keys,        \* (source address, source port) of a connection
    MaxConns,    \* MAX_INBOUND_CONNS
    ExtraConns,  \* MAX_EXTRA_INBOUND_CONNS
    NULL

ASSUME TableAssumption ==
    /\ MaxConns \in Nat \ {0} /\ ExtraConns \in Nat \ {0}
    /\ IsFiniteSet(Listeners)
    /\ Cardinality(Listeners) >= MaxConns + ExtraConns
    /\ NULL \notin Listeners /\ NULL \notin Keys

VARIABLES
    receiving,   \* a stream is open
    table,       \* ListenerTable.listeners
    running,     \* ListenerState.running
    evicted,     \* ListenerState.evicted
    key,         \* ListenerState.key
    recency,     \* the order of last_active_ms: 1 the least recent, 0 none
    lis,         \* where each listener thread is
    conn_open,   \* its CSP connection is open
    acc,         \* where the accept thread is
    new,         \* the connection the accept thread is handling
    app,         \* the application still holds the instance
    cleaned      \* cspcl_cleanup() has run

vars == <<receiving, table, running, evicted, key, recency, lis, conn_open,
          acc, new, app, cleaned>>

ListenerStates == {"none", "check", "reading", "close", "release", "finish"}
AcceptStates == {"none", "top", "accept", "register", "spawn", "supersede"}

TypeOK ==
    /\ receiving \in BOOLEAN
    /\ table \subseteq Listeners
    /\ running \in [Listeners -> BOOLEAN]
    /\ evicted \in [Listeners -> BOOLEAN]
    /\ key \in [Listeners -> Keys \cup {NULL}]
    /\ recency \in [Listeners -> 0..Cardinality(Listeners)]
    /\ \A l \in Listeners :   \* a timestamp for each running listener
         /\ running[l] <=> recency[l] # 0
         /\ \A x \in Listeners \ {l} : running[l] => recency[x] # recency[l]
    /\ lis \in [Listeners -> ListenerStates]
    /\ conn_open \in [Listeners -> BOOLEAN]
    /\ acc \in AcceptStates
    /\ new \in Listeners \cup {NULL}
    /\ app \in BOOLEAN
    /\ cleaned \in BOOLEAN

Init ==
    /\ receiving = FALSE
    /\ table = {}
    /\ running = [l \in Listeners |-> FALSE]
    /\ evicted = [l \in Listeners |-> FALSE]
    /\ key = [l \in Listeners |-> NULL]
    /\ recency = [l \in Listeners |-> 0]
    /\ lis = [l \in Listeners |-> "none"]
    /\ conn_open = [l \in Listeners |-> FALSE]
    /\ acc = "none"
    /\ new = NULL
    /\ app = TRUE
    /\ cleaned = FALSE

-----------------------------------------------------------------------------
(* ListenerTable *)

\* Mutant: evicted listeners are forgotten before they have closed.
Pruned_Evicted == {l \in table : running[l] /\ ~evicted[l]}

\* open(): forget the finished listeners.
Pruned == {l \in table : running[l]}

may_accept == Cardinality(Pruned) < MaxConns + ExtraConns

\* l has no timestamp; the order of the others stays.
Forgotten(l) ==
    [x \in Listeners |->
       IF x = l THEN 0
       ELSE IF recency[l] # 0 /\ recency[x] > recency[l] THEN recency[x] - 1
       ELSE recency[x]]

\* l is active now.
Touched(l) ==
    [Forgotten(l) EXCEPT ![l] = 1 + Cardinality({x \in Listeners : Forgotten(l)[x] # 0})]

\* The least recently active of a set of listeners.
LeastRecent(S) == CHOOSE x \in S : \A y \in S : recency[x] <= recency[y]

\* Listeners superseded by l because they have its key.
Stale(l) == {x \in Pruned : key[x] = key[l] /\ x # l}

\* Mutant: the newcomer itself is a candidate.
Candidates_All(l, gone) == {x \in Pruned : x \notin gone}

\* Mutant: nobody is evicted.
Candidates_None(l, gone) == {}

\* The candidates of evict_least_recent_except(l), given who is evicted.
Candidates(l, gone) == {x \in Pruned : x # l /\ x \notin gone}

\* kept() after the stale ones are marked.
Kept(gone) == {x \in Pruned : x \notin gone}

-----------------------------------------------------------------------------
(* The environment: streams open and close, the application lets go *)

StreamsChange ==
    /\ app
    /\ receiving' = ~receiving
    /\ acc' = IF ~receiving /\ acc = "none" THEN "top" ELSE acc
    /\ UNCHANGED <<table, running, evicted, key, recency, lis, conn_open, new,
                   app, cleaned>>

\* A stream holds the instance, so the last handle goes with the last stream.
DropApp ==
    /\ app
    /\ app' = FALSE
    /\ receiving' = FALSE
    /\ UNCHANGED <<table, running, evicted, key, recency, lis, conn_open, acc,
                   new, cleaned>>

\* Mutant: listeners do not keep the instance alive.
Held_NotByListeners == app \/ acc # "none"

\* The Arc's count: the application, the accept thread, each listener until
\* its OwnedConn is gone.
Held ==
    \/ app \/ acc # "none"
    \/ \E l \in Listeners : lis[l] \in {"check", "reading", "close", "release"}

DropInstance ==
    /\ ~Held /\ ~cleaned
    /\ cleaned' = TRUE
    /\ UNCHANGED <<receiving, table, running, evicted, key, recency, lis,
                   conn_open, acc, new, app>>

-----------------------------------------------------------------------------
(* accept_loop() and spawn_listener() *)

AcceptStop ==
    /\ acc = "top" /\ ~receiving
    /\ acc' = "none"
    /\ UNCHANGED <<receiving, table, running, evicted, key, recency, lis,
                   conn_open, new, app, cleaned>>

\* wait_for_slot(); without a slot the poll ends and the loop starts over.
WaitForSlot ==
    /\ acc = "top" /\ receiving
    /\ table' = Pruned
    /\ acc' = IF may_accept THEN "accept" ELSE "top"
    /\ UNCHANGED <<receiving, running, evicted, key, recency, lis, conn_open,
                   new, app, cleaned>>

\* poll_connection() times out, fails, or finds receiving off.
NoConnection ==
    /\ acc = "accept"
    /\ acc' = "top"
    /\ UNCHANGED <<receiving, table, running, evicted, key, recency, lis,
                   conn_open, new, app, cleaned>>

AcceptConnection(l, k) ==
    /\ acc = "accept" /\ lis[l] = "none" /\ l \notin table
    /\ acc' = "register"
    /\ new' = l
    /\ key' = [key EXCEPT ![l] = k]
    /\ conn_open' = [conn_open EXCEPT ![l] = TRUE]
    /\ UNCHANGED <<receiving, table, running, evicted, recency, lis, app,
                   cleaned>>

register ==
    /\ acc = "register"
    /\ table' = table \cup {new}
    /\ running' = [running EXCEPT ![new] = TRUE]
    /\ evicted' = [evicted EXCEPT ![new] = FALSE]
    /\ recency' = Touched(new)
    /\ acc' = "spawn"
    /\ UNCHANGED <<receiving, key, lis, conn_open, new, app, cleaned>>

SpawnListener ==
    /\ acc = "spawn"
    /\ lis' = [lis EXCEPT ![new] = "check"]
    /\ acc' = "supersede"
    /\ UNCHANGED <<receiving, table, running, evicted, key, recency, conn_open,
                   new, app, cleaned>>

\* RunningGuard: running = false.  Nothing reads the other fields of a
\* finished listener, so they return to their initial values.
Finished(l) ==
    /\ running' = [running EXCEPT ![l] = FALSE]
    /\ evicted' = [evicted EXCEPT ![l] = FALSE]
    /\ key' = [key EXCEPT ![l] = NULL]
    /\ recency' = Forgotten(l)

\* The closure is dropped with the task: connection closed, slot freed.
SpawnFails ==
    /\ acc = "spawn"
    /\ conn_open' = [conn_open EXCEPT ![new] = FALSE]
    /\ Finished(new)
    /\ acc' = "top"
    /\ new' = NULL
    /\ UNCHANGED <<receiving, table, lis, app, cleaned>>

supersede ==
    /\ acc = "supersede"
    /\ IF running[new]
       THEN LET gone == Stale(new) \cup {x \in Pruned : evicted[x]}
                victims == IF Cardinality(Kept(gone)) > MaxConns
                              /\ Candidates(new, gone) # {}
                           THEN {LeastRecent(Candidates(new, gone))} ELSE {}
            IN /\ evicted' = [x \in Listeners |->
                                evicted[x] \/ x \in Stale(new) \cup victims]
               /\ table' = Pruned
       ELSE UNCHANGED <<evicted, table>>
    /\ acc' = "top"
    /\ new' = NULL
    /\ UNCHANGED <<receiving, running, key, recency, lis, conn_open, app,
                   cleaned>>

-----------------------------------------------------------------------------
(* listen() *)

ListenerGoto(l, x) ==
    /\ lis' = [lis EXCEPT ![l] = x]
    /\ UNCHANGED <<receiving, table, running, evicted, key, recency, conn_open,
                   acc, new, app, cleaned>>

StartRead(l) ==
    /\ lis[l] = "check" /\ receiving /\ ~evicted[l]
    /\ ListenerGoto(l, "reading")

\* Mutant: a listener does not notice that receiving stopped.
ListenerStops_OnlyEvicted(l) ==
    /\ lis[l] = "check" /\ evicted[l]
    /\ ListenerGoto(l, "close")

\* Evicted, or receiving is off and the grace is over.
ListenerStops(l) ==
    /\ lis[l] = "check" /\ (evicted[l] \/ ~receiving)
    /\ ListenerGoto(l, "close")

ReadBundle(l) ==
    /\ lis[l] = "reading"
    /\ recency' = Touched(l)
    /\ lis' = [lis EXCEPT ![l] = "check"]
    /\ UNCHANGED <<receiving, table, running, evicted, key, conn_open, acc, new,
                   app, cleaned>>

ReadTimeout(l) == lis[l] = "reading" /\ ListenerGoto(l, "check")

\* Reset by the peer, idle for too long, or a receive error.
ReadEnds(l) == lis[l] = "reading" /\ ListenerGoto(l, "close")

\* ListenerTask drops its fields in order: connection, instance, slot.
CloseConn(l) ==
    /\ lis[l] = "close"
    /\ conn_open' = [conn_open EXCEPT ![l] = FALSE]
    /\ lis' = [lis EXCEPT ![l] = "release"]
    /\ UNCHANGED <<receiving, table, running, evicted, key, recency, acc, new,
                   app, cleaned>>

ReleaseInstance(l) == lis[l] = "release" /\ ListenerGoto(l, "finish")

Finish(l) ==
    /\ lis[l] = "finish"
    /\ Finished(l)
    /\ lis' = [lis EXCEPT ![l] = "none"]
    /\ UNCHANGED <<receiving, table, conn_open, acc, new, app, cleaned>>

-----------------------------------------------------------------------------
AcceptStep ==
    \/ AcceptStop \/ WaitForSlot \/ NoConnection
    \/ \E l \in Listeners : \E k \in Keys : AcceptConnection(l, k)
    \/ register \/ SpawnListener \/ SpawnFails \/ supersede

ListenerStep(l) ==
    \/ StartRead(l) \/ ListenerStops(l)
    \/ ReadBundle(l) \/ ReadTimeout(l) \/ ReadEnds(l)
    \/ CloseConn(l) \/ ReleaseInstance(l) \/ Finish(l)

Next ==
    \/ StreamsChange \/ DropApp \/ DropInstance
    \/ AcceptStep
    \/ \E l \in Listeners : ListenerStep(l)

Spec == Init /\ [][Next]_vars

\* Threads keep running: reads end by their timeout, accepts by the poll's.
FairSpec ==
    /\ Spec
    /\ WF_vars(AcceptStep)
    /\ \A l \in Listeners : WF_vars(ListenerStep(l))
    /\ WF_vars(DropInstance)

-----------------------------------------------------------------------------
(* Properties *)

Settled == acc \notin {"spawn", "supersede"}

\* libcsp's table is sized for MaxConns + ExtraConns connections, the ones being
\* closed and the one just accepted included: no more are open at once; every
\* open one is counted until it is closed; and between two accepts at most
\* MaxConns of them, from different peers, are not being closed.
OpenBound ==
    /\ Cardinality({l \in Listeners : conn_open[l]}) <= MaxConns + ExtraConns
    /\ \A l \in Listeners : conn_open[l] =>
         (l \in table /\ running[l]) \/ (acc = "register" /\ new = l)
    /\ Settled =>
         LET kept == {l \in table : running[l] /\ ~evicted[l]}
         IN /\ Cardinality(kept) <= MaxConns
            /\ \A l, x \in kept : key[l] = key[x] => l = x

\* The connection just accepted is never the one that is given up for it, even
\* when every other one was active since.
NewcomerKept ==
    [][\A l \in Listeners :
         acc = "supersede" /\ acc' = "top" /\ new = l /\ running[l]
           => ~evicted'[l]]_vars

\* cspcl_cleanup() runs after the last connection is closed and the last
\* thread is done with the instance.
CleanupLast ==
    cleaned => /\ acc = "none"
               /\ \A l \in Listeners : ~conn_open[l]

\* A full table always makes room: the accept thread gets to accept again.
AcceptsAgain == acc = "top" /\ receiving ~> acc = "accept" \/ ~receiving

\* Once the application lets go, the instance is cleaned up.
EventuallyCleaned == ~app ~> cleaned

=============================================================================
