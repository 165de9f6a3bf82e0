------------------------------ MODULE MCRxLoop ------------------------------
(* Both receive loops, with enough failures to reach the longest pause.    *)
EXTENDS RxLoop

BothAdapters == {"hardy", "pico"}

=============================================================================
