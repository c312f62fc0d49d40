---------------------------- MODULE MCPpuTiming ----------------------------
(* Instances of PpuTiming for TLC: a screen of two lines and two lines of  *)
(* vertical blank, with CPU ticks as long as a mode.                       *)
EXTENDS PpuTiming

MCTickLens == {1, 2, 3}
=============================================================================
