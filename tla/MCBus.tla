------------------------------- MODULE MCBus -------------------------------
EXTENDS Bus

\* 0x00 (fixed ROM, under the boot ROM), 0x40 (switched ROM), 0x80 (VRAM),
\* 0xc0 (RAM), 0xe0 (its echo).
MCPages == {0, 64, 128, 192, 224}

\* A bank register, VRAM, RAM through its echo, OAM, LCDC, DMA, boot ROM.
MCAddrs == {8192, 32927, 57503, 65024, 65183, 65344, 65350, 65360}

MCBootRom == [o \in Offsets |-> 2]

MCRom == [b \in 0 .. 1 |-> [o \in Offsets |-> b]]
=============================================================================
