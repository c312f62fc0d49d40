---------------------------- MODULE MCCpuControl ----------------------------
(* Instances of CpuControl for TLC. *)
EXTENDS CpuControl

\* One family for each effect on IME, HALT and the interrupt registers.
ControlOps == {"NOP", "EI", "DI", "HALT", "RETI", "STr"}

AllOps == Families
=============================================================================
