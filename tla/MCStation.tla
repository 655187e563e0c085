------------------------------ MODULE MCStation ------------------------------
(* Station for TLC: values a cfg cannot spell. *)
EXTENDS Station

\* init_timer's repeat count for its LOOP timer.
Unlimited == {-1}
=============================================================================
