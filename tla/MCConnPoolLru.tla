---------------------------- MODULE MCConnPoolLru ---------------------------
(* The slot table with its ticks implements the recency order of LruPool. *)
EXTENDS MCConnPool, SequencesExt

\* The used entries by last_used; ties, which only a wrapped counter can
\* produce, by index.
ByRecency ==
    SetToSortSeq(Used, LAMBDA i, j :
        \/ entries[i].last_used < entries[j].last_used
        \/ entries[i].last_used = entries[j].last_used /\ i < j)

CacheOf ==
    [k \in DOMAIN ByRecency |->
       [peer |-> entries[ByRecency[k]].dest, link |-> entries[ByRecency[k]].conn]]

Lru == INSTANCE LruPool WITH
         Capacity <- PoolSize, Peers <- Dests, Links <- Conns,
         cache <- CacheOf,
         evictions <- stats["evictions"], invalidations <- stats["invalidations"]

\* Everything but what nothing reads: the answer of a thread's last call, the
\* birth of a connection, the counters LruPool does not count.
PoolView ==
    <<entries, tick, stats["evictions"], stats["invalidations"], initialized,
      lock, mutex, conns, pc, dest, attempt, slot, cur, ret, clock, ops>>

\* The pool behaves as the bounded recency list: what capacity pressure closes
\* is the connection that went unused longest.
ImplementsLru == Lru!LruSpec

=============================================================================
