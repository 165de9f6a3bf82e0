----------------------------- MODULE MCRxTable ------------------------------
(* RxTable for TLC. *)
EXTENDS RxTable, TLC

\* The default, the shortest, and one whose shares are above the RDP timeout.
ThreeTimeouts == {0, 1, 30000}

\* The default only.
OneTimeout == {0}

\* Peers and connections are interchangeable.
RxSymmetry == Permutations(Keys) \cup Permutations(Conns)

=============================================================================
