--------------------------- MODULE MCListenerTable --------------------------
(* Symmetric constants of ListenerTable for TLC's safety run. *)
EXTENDS ListenerTable, TLC

TableSymmetry == Permutations(Listeners) \cup Permutations(Keys)

=============================================================================
