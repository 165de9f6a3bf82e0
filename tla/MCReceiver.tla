----------------------------- MODULE MCReceiver -----------------------------
(* Symmetric constants of Receiver for TLC's safety runs. *)
EXTENDS Receiver, TLC

ReceiverSymmetry ==
    Permutations(Streams) \cup Permutations(Closers) \cup Permutations(Listeners)

\* What a stream leaves to others is what a filter of its items leaves.
ASSUME KeptFilters ==
    \A n \in 0..4 : \A q \in [1..n -> 0..2] : Kept(q) = SelectSeq(q, IsBundle)

=============================================================================
