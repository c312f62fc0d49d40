----------------------------- MODULE MCCartridge -----------------------------
(* Instances of Cartridge for TLC: every type of cartridge, with no RAM, 2   *)
(* and 32 kB, and headers that are refused or cut off.                       *)
EXTENDS Cartridge

\* Whole headers of every type, also those refused, and one cut short.
MCImages == [sz : {256, 330, 32768}, type : 0 .. 35, romCode : {0, 7}, ramCode : {0, 1, 3, 5}]

\* One address of each register, MBC2's with bit 8 both ways.
MCRomAddrs == {0, 256, 8192, 8448, 12288, 16384, 24576}

\* The first byte of a bank and one half a bank on, beyond the smallest RAMs.
MCRamAddrs == {40960, 45056}
=============================================================================
