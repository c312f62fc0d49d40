------------------------------ MODULE MCTimer ------------------------------
(* Instances of Timer for TLC: a 4-bit system counter. *)
EXTENDS Timer

\* Periods of 2, 4 and 8 cycles: a call may pass several multiples.
MCMuxBits == {1, 2, 4}
=============================================================================
