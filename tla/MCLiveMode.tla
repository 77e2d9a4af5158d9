----------------------------- MODULE MCLiveMode -----------------------------
(* LiveMode for TLC: the constants are numbers, given in the configurations. *)
EXTENDS LiveMode
============================================================================
