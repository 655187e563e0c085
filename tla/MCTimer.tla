------------------------------- MODULE MCTimer -------------------------------
(* Timer for TLC: the callers of its runs, and what its bounds must admit.  *)
EXTENDS Timer

CONSTANTS c1, c2

\* The most a time point can lie ahead: two FIXED_RATE intervals.
ASSUME MaxLead >= 1
=============================================================================
