------------------------------ MODULE LruPool -------------------------------
(***************************************************************************)
(* What the connection pool promises, without slots, ticks or threads: a   *)
(* bounded sequence of connections ordered from least to most recently     *)
(* used.  Capacity pressure removes the oldest one only; a connection that *)
(* failed or aged may leave from anywhere, and is counted separately.      *)
(***************************************************************************)
EXTENDS Naturals, Sequences, SequencesExt

CONSTANTS Capacity, Peers, Links

VARIABLES
    cache,         \* connections, least recently used first
    evictions,
    invalidations

lruVars == <<cache, evictions, invalidations>>

Item == [peer: Peers, link: Links]

LruInit == cache = <<>> /\ evictions = 0 /\ invalidations = 0

Reuse(k) ==
    /\ cache' = Append(RemoveAt(cache, k), cache[k])
    /\ UNCHANGED <<evictions, invalidations>>

Open(x) ==
    /\ Len(cache) < Capacity
    /\ \A k \in DOMAIN cache : cache[k].link # x.link
    /\ cache' = Append(cache, x)
    /\ UNCHANGED <<evictions, invalidations>>

EvictOldest ==
    /\ Len(cache) = Capacity
    /\ cache' = Tail(cache)
    /\ evictions' = evictions + 1
    /\ UNCHANGED invalidations

EvictAndOpen(x) ==
    /\ Len(cache) = Capacity
    /\ \A k \in DOMAIN cache : cache[k].link # x.link
    /\ cache' = Append(Tail(cache), x)
    /\ evictions' = evictions + 1
    /\ UNCHANGED invalidations

Drop(k) ==
    /\ cache' = RemoveAt(cache, k)
    /\ invalidations' = invalidations + 1
    /\ UNCHANGED evictions

Clear == cache' = <<>> /\ UNCHANGED <<evictions, invalidations>>

\* A new start forgets what a late user put in after Clear.
Reset == cache' = <<>> /\ evictions' = 0 /\ invalidations' = 0

LruNext ==
    \/ \E k \in DOMAIN cache : Reuse(k) \/ Drop(k)
    \/ \E x \in Item : Open(x) \/ EvictAndOpen(x)
    \/ EvictOldest \/ Clear \/ Reset

LruSpec == LruInit /\ [][LruNext]_lruVars

=============================================================================
