----------------------------- MODULE MCOamSearch -----------------------------
(* The instance of OamSearch for TLC: four entries, at most three found. An *)
(* object shows on line 0 with y in 9 .. 16, or in 1 .. 16 when tall.       *)
EXTENDS OamSearch

MCYValues == {0, 8, 9, 16, 17}
=============================================================================
