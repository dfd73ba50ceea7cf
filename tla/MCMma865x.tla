----------------------------- MODULE MCMma865x -----------------------------
(* Model values and bounds for TLC: one or two sysfs writers; no delay_store, *)
(* or one below and one above POLL_INTERVAL_MAX.                              *)
EXTENDS Mma865x, TLC

CONSTANTS w1, w2

MCWriters   == {w1, w2}
OneWriter   == {w1}
AnyDelay    == {200, 2000}
NoDelay     == {}
Symmetry    == Permutations(MCWriters)
=============================================================================
