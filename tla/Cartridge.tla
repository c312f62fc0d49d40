------------------------------ MODULE Cartridge ------------------------------
(***************************************************************************)
(* The cartridges (core/src/cart): the header's check, the factory, and    *)
(* the bank registers and RAM of the four controllers.  A behaviour is the *)
(* life of one cartridge object: an image that can be loaded, then calls   *)
(* of writeAddr.  readAddr changes nothing and is an operator.             *)
(***************************************************************************)
EXTENDS Integers

CONSTANTS Images,    \* what a file can hold: records [sz, type, romCode, ramCode]
          RomAddrs,  \* the ROM addresses, that is registers, the program writes
          RamAddrs,  \* the RAM addresses it writes and reads
          RegValues, \* the bytes it writes to registers
          RamValues  \* the bytes it writes to RAM

RAM_BASE == 40960
RAM_BANK_SZ == 8192
ROM_BANK_SZ == 16384
RamBanks == 0 .. 15

ASSUME RomAddrsAssumption == \A a \in RomAddrs : a \in Nat /\ a < 32768
ASSUME RamAddrsAssumption == RamAddrs \subseteq 40960 .. 49151
ASSUME RegValuesAssumption == RegValues \subseteq 0 .. 255
ASSUME RamValuesAssumption == RamValues \subseteq 0 .. 255
ASSUME ImagesAssumption ==
  Images \subseteq [sz : Nat, type : 0 .. 255, romCode : 0 .. 255, ramCode : 0 .. 255]

VARIABLES mCart,        \* the object's class and what the header fixed
          mCurRomBank, mCurRamBank, mMode,
          mRamEnabled,  \* mRamRtcEnabled in MBC3
          mRam,         \* offset -> byte; Unset is memory never written
          chosen,       \* history: the two parts of the ROM bank asked for
          lastWritten   \* history: RAM bank and address -> byte stored last

registers == <<mCurRomBank, mCurRamBank, mMode, mRamEnabled, chosen>>
memory == <<mRam, lastWritten>>
vars == <<mCart, registers, memory>>

Unset == -1

RamOffset_HalfBanks(addr, bank) == (addr - RAM_BASE) + bank * (RAM_BANK_SZ \div 2)
RamOffset(addr, bank) == (addr - RAM_BASE) + bank * RAM_BANK_SZ

Places == RamBanks \X RamAddrs
Cells == {RamOffset(p[2], p[1]) : p \in Places}

-----------------------------------------------------------------------------
(* Loading an image *)

Kbit == 128  \* bytes

RomSz(code) ==
  IF code \in 0 .. 8 THEN <<256, 512, 1024, 2048, 4096, 8192, 16384, 32768, 65536>>[code + 1] * Kbit
  ELSE IF code \in 82 .. 84 THEN <<9, 10, 16>>[code - 81] * 1024 * Kbit
  ELSE 256 * Kbit

RamSz(code) ==
  IF code \in 1 .. 4 THEN <<16, 64, 256, 1024>>[code] * Kbit ELSE 0

\* The check of the header; at 329 bytes the RAM code is whatever follows.
Validate(img) ==
  /\ img.sz >= 329
  /\ img.romCode \in (0 .. 6) \cup {82, 83, 84}
  /\ img.ramCode \in 0 .. 4
  /\ img.type \in {0, 1, 2, 3, 5, 6, 8, 9, 11, 12, 13, 32, 34} \cup (15 .. 19) \cup (25 .. 30)

\* The factory; types that pass the check but have no class load nothing.
Class(type) ==
  IF type \in {0, 8, 9} THEN "RomOnly"
  ELSE IF type \in {1, 2, 3} THEN "MBC1"
  ELSE IF type \in {5, 6} THEN "MBC2"
  ELSE IF type \in 15 .. 19 THEN "MBC3"
  ELSE IF type \in 26 .. 30 THEN "MBC5"
  ELSE "none"

\* What the constructors keep of an image; a header that is cut off counts
\* as zeros, and MBC2 replaces the RAM by its own.
Constructed(img) ==
  LET whole == img.sz >= 336
  IN [class |-> Class(img.type),
      type  |-> IF whole THEN img.type ELSE 0,
      romSz |-> RomSz(IF whole THEN img.romCode ELSE 0),
      ramSz |-> IF Class(img.type) = "MBC2" THEN 512
                ELSE RamSz(IF whole THEN img.ramCode ELSE 0)]

PowerUp ==
  /\ mCurRomBank = 1 /\ mCurRamBank = 0 /\ mMode = "mode2MRom8KRam"
  /\ mRamEnabled = FALSE
  /\ chosen = [low |-> 1, high |-> 0]
  /\ mRam = [c \in Cells |-> Unset]
  /\ lastWritten = [p \in Places |-> Unset]

LoadFromBuffer(img) ==
  Validate(img) /\ Class(img.type) # "none" /\ mCart = Constructed(img) /\ PowerUp

Init == \E img \in Images : LoadFromBuffer(img)

RomOnlyHasRam == mCart.type \in {8, 9}
MBC1HasRam == mCart.type \in {2, 3}
MBC3HasRam == mCart.type \in {16, 18, 19}
MBC5HasRam == mCart.type \in {26, 27, 29, 30}

HasRTC == mCart.type \in {15, 16}
-----------------------------------------------------------------------------
(* What a write can do *)

Gate(open) ==
  mRamEnabled' = open /\ UNCHANGED <<mCart, mCurRomBank, mCurRamBank, mMode, chosen, memory>>
SelectRom(bank, low, high) ==
  /\ mCurRomBank' = bank
  /\ chosen' = [low |-> low, high |-> high]
  /\ UNCHANGED <<mCart, mCurRamBank, mMode, mRamEnabled, memory>>
SelectRam(bank) ==
  mCurRamBank' = bank /\ UNCHANGED <<mCart, mCurRomBank, mMode, mRamEnabled, chosen, memory>>
SetMode(m) ==
  mMode' = m /\ UNCHANGED <<mCart, mCurRomBank, mCurRamBank, mRamEnabled, chosen, memory>>

\* A byte stored in the RAM, if the RAM reaches that far.
WriteRam(addr, bank, val) ==
  /\ IF RamOffset(addr, bank) < mCart.ramSz
       THEN /\ mRam' = [mRam EXCEPT ![RamOffset(addr, bank)] = val]
            /\ lastWritten' = [lastWritten EXCEPT ![<<bank, addr>>] = val]
       ELSE UNCHANGED memory
  /\ UNCHANGED <<mCart, registers>>

\* The 8 kB segment of an address, which the controllers decode.
Segment(addr) == addr \div 8192
Enables(val) == val % 16 = 10
OrOne(bank) == IF bank = 0 THEN 1 ELSE bank

RomOnlyWrite(addr, val) ==
  /\ mCart.class = "RomOnly"
  /\ IF RomOnlyHasRam /\ addr \in RamAddrs THEN WriteRam(addr, 0, val) ELSE UNCHANGED vars
-----------------------------------------------------------------------------
(* MBC1 *)

\* The lower five bits are never 0, the upper two are kept.
LowBits(val) == ((mCurRomBank \div 32) % 4) * 32 + OrOne(val % 32)

HighBits(val) == (mCurRomBank % 32) + (val % 4) * 32

MBC1Write(addr, val) ==
  /\ mCart.class = "MBC1"
  /\ \/ Segment(addr) = 0 /\ MBC1HasRam /\ Gate(Enables(val))
     \/ Segment(addr) = 1 /\ SelectRom(LowBits(val), val % 32, chosen.high)
     \/ /\ Segment(addr) = 2 /\ mMode = "mode2MRom8KRam"
        /\ SelectRom(HighBits(val), chosen.low, val % 4)
     \/ Segment(addr) = 2 /\ mMode = "mode512KRom32KRam" /\ SelectRam(val % 4)
     \/ Segment(addr) = 3 /\ SetMode(IF val % 2 = 1 THEN "mode512KRom32KRam" ELSE "mode2MRom8KRam")
     \/ Segment(addr) = 5 /\ WriteRam(addr, mCurRamBank, val)
-----------------------------------------------------------------------------
(* MBC2: address bit 8 tells the two registers apart, RAM is of half bytes *)

Bit8(addr) == (addr \div 256) % 2 = 1

MBC2Write(addr, val) ==
  /\ mCart.class = "MBC2"
  /\ \/ Segment(addr) = 0 /\ ~Bit8(addr) /\ Gate(Enables(val))
     \/ Segment(addr) = 1 /\ Bit8(addr) /\ SelectRom(OrOne(val % 16), val % 16, 0)
     \/ Segment(addr) = 5 /\ mRamEnabled /\ WriteRam(addr, 0, val % 16)
-----------------------------------------------------------------------------
(* MBC3: RAM banks from 8 on are the clock's registers, which do nothing *)

MBC3Write(addr, val) ==
  /\ mCart.class = "MBC3"
  /\ \/ Segment(addr) = 0 /\ MBC3HasRam /\ HasRTC /\ Gate(Enables(val))
     \/ Segment(addr) = 1 /\ SelectRom(OrOne(val % 128), val % 128, 0)
     \/ Segment(addr) = 2 /\ SelectRam(val % 32)
     \/ Segment(addr) = 5 /\ mCurRamBank < 8 /\ WriteRam(addr, mCurRamBank, val)
-----------------------------------------------------------------------------
(* MBC5: a nine-bit bank register in two parts, bank 0 allowed *)

TopBit_Clears(val) == (val % 2) * 256
TopBit(val) == (mCurRomBank % 256) + (val % 2) * 256

MBC5Write(addr, val) ==
  /\ mCart.class = "MBC5"
  /\ \/ Segment(addr) = 0 /\ MBC5HasRam /\ Gate(Enables(val))
     \/ /\ Segment(addr) = 1 /\ addr < 12288
        /\ SelectRom((mCurRomBank \div 256) * 256 + val, val, chosen.high)
     \/ /\ Segment(addr) = 1 /\ addr >= 12288
        /\ SelectRom(TopBit(val), chosen.low, val % 2)
     \/ Segment(addr) = 2 /\ SelectRam(val % 16)
     \/ Segment(addr) = 5 /\ mRamEnabled /\ WriteRam(addr, mCurRamBank, val)
-----------------------------------------------------------------------------
(* A write that no case of the switch takes changes nothing: it is a       *)
(* stuttering step.                                                        *)
WriteAddr(addr, val) ==
  \/ RomOnlyWrite(addr, val)
  \/ MBC1Write(addr, val)
  \/ MBC2Write(addr, val)
  \/ MBC3Write(addr, val)
  \/ MBC5Write(addr, val)

Next ==
  \/ \E addr \in RomAddrs, val \in RegValues : WriteAddr(addr, val)
  \/ \E addr \in RamAddrs, val \in RamValues : WriteAddr(addr, val)

Spec == Init /\ [][Next]_vars
-----------------------------------------------------------------------------
(* Reads.  The switched slot shows the bank at this offset of the ROM. *)

RomOffset(addr, bank) == (addr - ROM_BANK_SZ) + bank * ROM_BANK_SZ

\* The RAM bank a read comes from, and whether it comes from RAM: MBC3 and
\* MBC5 do not ask whether RAM is enabled.
ReadBank == IF mCart.class \in {"RomOnly", "MBC2"} THEN 0 ELSE mCurRamBank

RomOnlyReads == mCart.class = "RomOnly" /\ RomOnlyHasRam
MBC1Reads == mCart.class = "MBC1" /\ mRamEnabled
MBC2Reads == mCart.class = "MBC2" /\ mRamEnabled
MBC3Reads == mCart.class = "MBC3" /\ mCurRamBank < 8
MBC5Reads == mCart.class = "MBC5"
ReadsRam == RomOnlyReads \/ MBC1Reads \/ MBC2Reads \/ MBC3Reads \/ MBC5Reads

InRam(addr) == RamOffset(addr, ReadBank) < mCart.ramSz

\* MBC2 reads without asking how far its RAM reaches; behind it lies anything.
Behind(addr) == IF mCart.class = "MBC2" THEN 0 .. 255 ELSE {0}

\* What a read can return.  An offset the RAM does not have reads as 0.
ReadRam(addr) ==
  IF ~ReadsRam THEN {0}
  ELSE IF InRam(addr) THEN {mRam[RamOffset(addr, ReadBank)]} ELSE Behind(addr)
-----------------------------------------------------------------------------
(* Properties *)

(* The registers keep their widths, and the ROM has at least the two banks *)
(* that are read without a check.                                          *)
TypeOK ==
  /\ mCart \in [class : {"RomOnly", "MBC1", "MBC2", "MBC3", "MBC5"}, type : 0 .. 255,
                romSz : Nat, ramSz : Nat]
  /\ mCart.romSz >= 2 * ROM_BANK_SZ
  /\ mCurRomBank \in 0 .. 511 /\ mCurRamBank \in 0 .. 31
  /\ mMode \in {"mode2MRom8KRam", "mode512KRom32KRam"}
  /\ mRamEnabled \in BOOLEAN
  /\ chosen \in [low : 0 .. 255, high : 0 .. 3]
  /\ mRam \in [Cells -> 0 .. 255 \cup {Unset}]
  /\ lastWritten \in [Places -> 0 .. 255 \cup {Unset}]

(* The switched slot never shows the fixed bank 0 (cart_tests.cpp:115,     *)
(* "which should actually select bank 1"): not on MBC1, MBC2 and MBC3,     *)
(* and on MBC1 none of the banks 32, 64 and 96 either, in whatever order   *)
(* the two halves of the number and the mode were written.                 *)
SwitchedSlot ==
  /\ mCart.class \in {"MBC1", "MBC2", "MBC3"} => RomOffset(ROM_BANK_SZ, mCurRomBank) >= ROM_BANK_SZ
  /\ mCart.class = "MBC1" => mCurRomBank % 32 # 0

(* Writing one half of a bank number keeps the other: the bank shown is    *)
(* always the one made of the last values written to both halves.          *)
HalvesKept ==
  /\ mCart.class = "MBC1" => mCurRomBank = 32 * chosen.high + OrOne(chosen.low)
  /\ mCart.class \in {"MBC2", "MBC3"} => mCurRomBank = OrOne(chosen.low)
  /\ mCart.class = "MBC5" => mCurRomBank = 256 * chosen.high + chosen.low

(* What a program stored in a bank is what it reads there, whatever it     *)
(* stored in other banks in between: banks and addresses do not share      *)
(* memory.  Where a bank has no memory it reads 0, but for the addresses   *)
(* behind MBC2's 512 bytes, for which the code promises nothing.           *)
RamHolds ==
  \A addr \in RamAddrs :
    ReadsRam /\ (mCart.class = "MBC2" => InRam(addr)) =>
      ReadRam(addr) = {IF InRam(addr) THEN lastWritten[<<ReadBank, addr>>] ELSE 0}
=============================================================================
