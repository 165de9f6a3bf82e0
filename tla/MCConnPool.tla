----------------------------- MODULE MCConnPool -----------------------------
(* Values of ConnPool's constants for TLC. *)
EXTENDS ConnPool

\* Two destinations of one node, which differ in the port only.
TwoDests == {<<1, 10>>, <<1, 11>>}

OneDest == {<<1, 10>>}

=============================================================================
