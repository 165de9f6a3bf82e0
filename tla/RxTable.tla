------------------------------ MODULE RxTable -------------------------------
(***************************************************************************)
(* The receive side of the C library for callers without threads of their  *)
(* own: cspcl_recv_bundle() and its table of inbound connections           *)
(* (src/src/cspcl.c).  One call accepts at most one waiting connection,    *)
(* stores it in the table, and reads the table's connections in turn until *)
(* one yields a bundle.                                                    *)
(*                                                                         *)
(* Peers connect and send at any moment.  What waits on a connection is     *)
(* nothing, a bundle, or something a read refuses: packets csp_sfp_recv()   *)
(* cannot put together, or a bundle larger than the caller's buffer.        *)
(* Reopening the receive socket belongs to another component: it fails at   *)
(* most MaxFails times.  Return codes are left out: a call that returned is *)
(* "idle".  One caller at a time: the table has no lock.                    *)
(***************************************************************************)
EXTENDS Naturals, Sequences, FiniteSets, FiniteSetsExt

CONSTANTS
    TableSize,   \* CSPCL_RX_CONN_TABLE_SIZE
    Keys,        \* (source address, source port) of a connection
    Conns,       \* libcsp's connection objects
    NULL,
    TickMod,     \* range of the uint32_t rx_tick, a multiple of TableSize
    Backlog,     \* backlog of csp_listen()
    Timeouts,    \* values of timeout_ms the caller uses
    PollMs,      \* CSPCL_RX_ACCEPT_POLL_MS
    FloorMs,     \* the shortest read timeout
    DefaultMs,   \* CSPCL_CSP_TIMEOUT_MS
    RdpMs,       \* libcsp's RDP connection timeout
    MaxFrags,    \* bound: fragments of the largest bundle a peer sends
    MaxFails     \* bound: failures to reopen the receive socket

ASSUME RxAssumption ==
    /\ TableSize \in Nat \ {0}
    /\ NULL \notin Keys /\ NULL \notin Conns
    /\ TickMod \in Nat \ {0} /\ TickMod % TableSize = 0
    /\ Backlog \in Nat \ {0}
    /\ Timeouts \subseteq Nat
    /\ PollMs \in Nat \ {0} /\ FloorMs \in Nat \ {0} /\ DefaultMs \in Nat \ {0}
    /\ RdpMs \in Nat /\ MaxFrags \in Nat \ {0}
    /\ MaxFails \in Nat

VARIABLES
    rx_conns,        \* cspcl->rx_conns
    rx_tick,         \* cspcl->rx_tick
    initialized,     \* cspcl->initialized
    link,            \* libcsp: key of each open connection, NULL = closed
    backlog,         \* connections waiting in csp_accept()'s queue
    inbox,           \* what waits on each connection
    pc,              \* where the call is
    timeout,         \* its timeout_ms after the default is applied
    accept_timeout,
    read_timeout,
    start,           \* where its scan started
    pos,             \* how far it got
    spent,           \* the longest it may have waited in vain so far, in ms
    fails,           \* failures to reopen the socket so far
    since,           \* history: the connections active after each of the table's
    wrapped          \* history: rx_tick has wrapped since the init

tableVars == <<rx_conns, rx_tick>>
peerVars == <<link, backlog, inbox>>
callVars == <<pc, timeout, accept_timeout, read_timeout, start, pos, spent>>
histVars == <<since, wrapped>>
vars == <<tableVars, initialized, peerVars, callVars, fails, histVars>>

Slots == 0..(TableSize - 1)

RxEntry == [used: BOOLEAN, conn: Conns \cup {NULL}, key: Keys \cup {NULL},
            last_active: 0..(TickMod - 1)]

Free == [used |-> FALSE, conn |-> NULL, key |-> NULL, last_active |-> 0]

TypeOK ==
    /\ rx_conns \in [Slots -> RxEntry]
    /\ rx_tick \in 0..(TickMod - 1)
    /\ initialized \in BOOLEAN
    /\ link \in [Conns -> Keys \cup {NULL}]
    /\ backlog \in Seq(Conns)
    /\ inbox \in [Conns -> {"empty", "bundle", "broken"}]
    /\ pc \in {"idle", "accept", "read"}
    /\ timeout \in Nat /\ accept_timeout \in Nat /\ read_timeout \in Nat
    /\ start \in Slots /\ pos \in 0..TableSize
    /\ spent \in Nat
    /\ fails \in 0..MaxFails
    /\ since \in [Conns -> SUBSET Conns]
    /\ wrapped \in BOOLEAN

Init ==
    /\ rx_conns = [s \in Slots |-> Free]
    /\ rx_tick = 0
    /\ initialized = TRUE
    /\ link = [c \in Conns |-> NULL]
    /\ backlog = <<>>
    /\ inbox = [c \in Conns |-> "empty"]
    /\ pc = "idle"
    /\ timeout = 0 /\ accept_timeout = 0 /\ read_timeout = 0
    /\ start = 0 /\ pos = 0
    /\ spent = 0
    /\ fails = 0
    /\ since = [c \in Conns |-> {}]
    /\ wrapped = FALSE

-----------------------------------------------------------------------------
(* The table *)

UsedIn(t) == {s \in Slots : t[s].used}
Used == UsedIn(rx_conns)
WithKey(k) == {s \in Used : rx_conns[s].key = k}

NextTick == (rx_tick + 1) % TickMod

\* Mutant: the most recently active entry is evicted.
LeastActive_Most ==
    CHOOSE s \in Slots : \A x \in Slots :
        \/ rx_conns[s].last_active > rx_conns[x].last_active
        \/ rx_conns[s].last_active = rx_conns[x].last_active /\ s <= x

\* The entry the eviction scan ends on.
LeastActive ==
    CHOOSE s \in Slots : \A x \in Slots :
        \/ rx_conns[s].last_active < rx_conns[x].last_active
        \/ rx_conns[s].last_active = rx_conns[x].last_active /\ s <= x

\* The peer's own entry, else the first free one, else a victim.
SlotFor(k) ==
    IF WithKey(k) # {} THEN Min(WithKey(k))
    ELSE IF Used # Slots THEN Min(Slots \ Used)
    ELSE LeastActive

\* Mutant: what is replaced is not closed.
Closing_Nothing(s) == UNCHANGED <<link, inbox>>

\* csp_close() on the connection of entry s, if it is used.
Closing(s) ==
    LET c == rx_conns[s].conn IN
      IF rx_conns[s].used
      THEN /\ link' = [link EXCEPT ![c] = NULL]
           /\ inbox' = [inbox EXCEPT ![c] = "empty"]
      ELSE UNCHANGED <<link, inbox>>

InTable(c) == \E s \in Used : rx_conns[s].conn = c

\* History: the connections of active are active now, those of gone leave.
Since(active, gone) ==
    [c \in Conns |-> IF InTable(c) /\ c \notin active \cup gone
                     THEN (since[c] \ gone) \cup active ELSE {}]

Tick ==
    /\ rx_tick' = NextTick
    /\ wrapped' = (wrapped \/ NextTick = 0)

-----------------------------------------------------------------------------
(* cspcl_recv_bundle() *)

Smaller(a, b) == IF a < b THEN a ELSE b
Larger(a, b) == IF a < b THEN b ELSE a

\* With connections to read, accepting gets at most half of the time.
AcceptShare(ms) == IF Used = {} THEN ms ELSE Smaller(ms \div 2, PollMs)

\* Mutant: every connection gets all of the remaining time.
ReadShare_Undivided(n) == Larger((timeout - accept_timeout) \div 1, FloorMs)

\* The rest of the time, shared by n connections.
ReadShare(n) == Larger((timeout - accept_timeout) \div n, FloorMs)

\* libcsp raises the timeout of a read on an RDP connection to the connection's
\* (all inbound connections use RDP), and waits that long for each fragment.
ReadWait == Larger(read_timeout, RdpMs)

\* Mutant: the scan always starts at the first entry.
StartAt_First(tick) == 0

StartAt(tick) == tick % TableSize

Call(ms) ==
    /\ pc = "idle" /\ initialized
    /\ pc' = "accept"
    /\ timeout' = IF ms = 0 THEN DefaultMs ELSE ms
    /\ accept_timeout' = AcceptShare(timeout')
    /\ UNCHANGED <<tableVars, initialized, peerVars, read_timeout, start, pos,
                   spent, fails, histVars>>

\* A return; the call's locals are gone.
Return ==
    /\ pc' = "idle"
    /\ timeout' = 0 /\ accept_timeout' = 0 /\ read_timeout' = 0
    /\ start' = 0 /\ pos' = 0 /\ spent' = 0

\* n connections are to be read, from the entry that tick says.
BeginScan(n, tick) ==
    /\ pc' = "read"
    /\ read_timeout' = ReadShare(n)
    /\ start' = StartAt(tick)
    /\ pos' = 0
    /\ UNCHANGED <<timeout, accept_timeout>>

\* cspcl_accept_conn() returns a connection: cspcl_rx_table_store().
AcceptNew ==
    /\ pc = "accept" /\ backlog # <<>>
    /\ LET c == Head(backlog)
           s == SlotFor(link[c])
       IN /\ Closing(s)
          /\ rx_conns' = [rx_conns EXCEPT ![s] =
               [used |-> TRUE, conn |-> c, key |-> link[c],
                last_active |-> NextTick]]
          /\ since' = Since({c}, {rx_conns[s].conn})
    /\ Tick
    /\ backlog' = Tail(backlog)
    /\ BeginScan(Cardinality(UsedIn(rx_conns')), NextTick)
    /\ UNCHANGED <<initialized, spent, fails>>

\* csp_accept() times out; its timeout of 0 means the default.
AcceptTimeout ==
    /\ pc = "accept" /\ backlog = <<>>
    /\ \/ Used = {} /\ Return
       \/ /\ Used # {}
          /\ BeginScan(Cardinality(Used), rx_tick)
          /\ spent' = IF accept_timeout > 0 THEN accept_timeout ELSE DefaultMs
    /\ UNCHANGED <<tableVars, initialized, peerVars, fails, histVars>>

\* The receive socket was closed and cannot be opened again.
AcceptFails ==
    /\ pc = "accept" /\ fails < MaxFails
    /\ fails' = fails + 1
    /\ Return
    /\ UNCHANGED <<tableVars, initialized, peerVars, histVars>>

SlotAt(n) == (start + n) % TableSize

\* The steps of the scan that still find a connection; unused entries are
\* skipped.
Ahead == {n \in pos..(TableSize - 1) : rx_conns[SlotAt(n)].used}

\* A bundle: the entry is active, the call returns it.
ReadOK ==
    /\ pc = "read" /\ Ahead # {}
    /\ LET s == SlotAt(Min(Ahead))
           c == rx_conns[s].conn
       IN /\ inbox[c] = "bundle"
          /\ inbox' = [inbox EXCEPT ![c] = "empty"]
          /\ rx_conns' = [rx_conns EXCEPT ![s].last_active = NextTick]
          /\ since' = Since({c}, {})
    /\ Tick
    /\ Return
    /\ UNCHANGED <<initialized, link, backlog, fails>>

\* Nothing came in time, or a bundle stopped after n fragments, each of them as
\* late as it may be, and the next read gets its rest: the connection stays.
ReadTimeout ==
    /\ pc = "read" /\ Ahead # {}
    /\ LET c == rx_conns[SlotAt(Min(Ahead))].conn
       IN /\ inbox[c] = "empty"
          /\ \E n \in 0..(MaxFrags - 1) :
               /\ inbox' = IF n = 0 THEN inbox ELSE [inbox EXCEPT ![c] = "broken"]
               /\ spent' = spent + (n + 1) * ReadWait
    /\ pos' = Min(Ahead) + 1
    /\ UNCHANGED <<tableVars, initialized, link, backlog, pc, timeout,
                   accept_timeout, read_timeout, start, fails, histVars>>

\* Anything else, noticed after n fragments that were waited for: the connection
\* is closed and the scan goes on.
ReadError ==
    /\ pc = "read" /\ Ahead # {}
    /\ LET s == SlotAt(Min(Ahead)) IN
         /\ inbox[rx_conns[s].conn] = "broken"
         /\ Closing(s)
         /\ rx_conns' = [rx_conns EXCEPT ![s] = Free]
         /\ since' = Since({}, {rx_conns[s].conn})
    /\ \E n \in 0..MaxFrags : spent' = spent + n * ReadWait
    /\ pos' = Min(Ahead) + 1
    /\ UNCHANGED <<rx_tick, initialized, backlog, pc, timeout, accept_timeout,
                   read_timeout, start, fails, wrapped>>

ScanEnds ==
    /\ pc = "read" /\ Ahead = {}
    /\ Return
    /\ UNCHANGED <<tableVars, initialized, peerVars, fails, histVars>>

-----------------------------------------------------------------------------
(* cspcl_cleanup() and cspcl_init(), the table's part *)

Cleanup ==
    /\ pc = "idle" /\ initialized
    /\ initialized' = FALSE
    /\ link' = [c \in Conns |-> IF InTable(c) THEN NULL ELSE link[c]]
    /\ inbox' = [c \in Conns |-> IF InTable(c) THEN "empty" ELSE inbox[c]]
    /\ rx_conns' = [s \in Slots |-> Free]
    /\ since' = [c \in Conns |-> {}]
    /\ UNCHANGED <<rx_tick, backlog, callVars, fails, wrapped>>

\* The rest of the initialisation may fail, after the table is cleared.
Reinit ==
    /\ ~initialized
    /\ initialized' \in BOOLEAN
    /\ rx_conns' = [s \in Slots |-> Free]
    /\ rx_tick' = 0
    /\ wrapped' = FALSE
    /\ UNCHANGED <<peerVars, callVars, fails, since>>

-----------------------------------------------------------------------------
(* The peers *)

PeerConnects(k, c) ==
    /\ link[c] = NULL /\ Len(backlog) < Backlog
    /\ link' = [link EXCEPT ![c] = k]
    /\ backlog' = Append(backlog, c)
    /\ UNCHANGED <<tableVars, initialized, inbox, callVars, fails, histVars>>

PeerSends(c, x) ==
    /\ link[c] # NULL /\ inbox[c] = "empty"
    /\ inbox' = [inbox EXCEPT ![c] = x]
    /\ UNCHANGED <<tableVars, initialized, link, backlog, callVars, fails,
                   histVars>>

PeerStep ==
    \E c \in Conns : \/ \E k \in Keys : PeerConnects(k, c)
                     \/ \E x \in {"bundle", "broken"} : PeerSends(c, x)

-----------------------------------------------------------------------------
CallStep ==
    \/ AcceptNew \/ AcceptTimeout \/ AcceptFails
    \/ ReadOK \/ ReadTimeout \/ ReadError \/ ScanEnds

Next ==
    \/ \E ms \in Timeouts : Call(ms)
    \/ CallStep
    \/ Cleanup \/ Reinit
    \/ PeerStep

Spec == Init /\ [][Next]_vars

\* The caller receives in a loop and every C call ends by its timeout; peers
\* owe nothing.
FairSpec == Spec /\ WF_vars(CallStep \/ \E ms \in Timeouts : Call(ms))

-----------------------------------------------------------------------------
(* Properties *)

\* cspcl_rx_table_store(): every used entry holds its own open connection to
\* its own peer, no peer has two entries, and what waits to be accepted is in no
\* entry; and replacement, eviction, read errors and cleanup lose no connection:
\* every open one is in the table or waits to be accepted.
RxOwnsConns ==
    /\ \A s \in Used : /\ rx_conns[s].conn # NULL /\ rx_conns[s].key # NULL
                       /\ link[rx_conns[s].conn] = rx_conns[s].key
                       /\ \A n \in DOMAIN backlog : backlog[n] # rx_conns[s].conn
    /\ \A s, x \in Used :
         \/ s = x
         \/ /\ rx_conns[s].conn # rx_conns[x].conn
            /\ rx_conns[s].key # rx_conns[x].key
    /\ \A c \in Conns : link[c] # NULL =>
         InTable(c) \/ \E n \in DOMAIN backlog : backlog[n] = c

\* "Table full - evict least-recently-active entry": one is evicted only when
\* no entry is free, and then every other one was active after it (while the
\* counter has not wrapped).
EvictsIdlest ==
    [][\A s \in Used :
         /\ rx_conns'[s].used /\ rx_conns'[s].key # rx_conns[s].key
         /\ ~wrapped'
         => /\ Used = Slots
            /\ \A x \in Used \ {s} :
                 rx_conns[x].conn \in since[rx_conns[s].conn]]_vars

\* How long cspcl_recv_bundle() can wait in vain.  Its timeout is no bound: an
\* idle connection holds a read for libcsp's RDP timeout, a peer that sends slowly
\* for that long per fragment.  What the split of the remaining time guarantees is
\* that the shares add up: per fragment, the caller's timeout once in all (or the
\* default accept timeout, when half of a 1 ms timeout rounds to nothing) and the
\* least a read lasts for each entry.
WaitBound ==
    pc # "idle" =>
      spent <= MaxFrags * ((IF timeout = 1 THEN DefaultMs ELSE timeout)
                           + TableSize * Larger(RdpMs, FloorMs))

BundleWaits(c) == InTable(c) /\ inbox[c] = "bundle"

\* cspcl_recv_bundle() in a loop, once no new connections arrive: a bundle that
\* waits on a connection is read (or dropped by a cleanup), however busy the
\* other peers are.
ServedWhenQuiet ==
    <>[](backlog = <<>>) => \A c \in Conns : [](BundleWaits(c) => <>~BundleWaits(c))

\* "Round-robin start index keeps one busy peer from starving the others"
\* (comment in cspcl_recv_bundle()): a bundle that waits on a connection of the
\* table is read, or its connection closed, whatever the other peers do.
NoStarvation == \A c \in Conns : BundleWaits(c) ~> ~BundleWaits(c)

=============================================================================
