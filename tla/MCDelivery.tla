----------------------------- MODULE MCDelivery -----------------------------
(* Values of Delivery's constants for TLC. *)
EXTENDS Delivery, TLC

MCDests == {<<1, 10>>, <<2, 10>>}

ConnSymmetry == Permutations(Conns)

\* Everything except counters and histories that no guard of Delivery and
\* none of its properties reads (one entry needs no recency order), and born,
\* which connected_at determines when the clock moves in steps over a second.
DeliveryView ==
    <<[i \in Slots |-> <<entries[i].used, entries[i].dest, entries[i].conn,
                        entries[i].connected_at>>],
      initialized, lock, mutex, conns, pc, dest, attempt, slot, cur, ret, clock,
      ops, callVars, linkVars, sent, got>>

=============================================================================
