-------------------------- MODULE Cartridge_proofs --------------------------
(* What the bank registers and the RAM of every controller keep, whatever   *)
(* the program writes.                                                      *)
EXTENDS Cartridge, TLAPS

(* The parts of the invariant: the cartridge, the bank registers, the      *)
(* memory.  The halves asked for have the widths of the class's registers, *)
(* which is what makes writing one keep the other.                         *)
Classes == {"RomOnly", "MBC1", "MBC2", "MBC3", "MBC5"}
Modes == {"mode2MRom8KRam", "mode512KRom32KRam"}
Halves == [low : 0 .. 255, high : 0 .. 3]
Values == 0 .. 255 \cup {Unset}

CartOK ==
  /\ mCart \in [class : Classes, type : 0 .. 255, romSz : Nat, ramSz : Nat]
  /\ mCart.romSz >= 2 * ROM_BANK_SZ

FitsClass(bank, low, high) ==
  /\ mCart.class = "RomOnly" => bank = 1
  /\ mCart.class = "MBC1" => low \in 0 .. 31 /\ high \in 0 .. 3 /\ bank = 32 * high + OrOne(low)
  /\ mCart.class \in {"MBC2", "MBC3"} => low \in 0 .. 127 /\ bank = OrOne(low)
  /\ mCart.class = "MBC5" => low \in 0 .. 255 /\ high \in 0 .. 1 /\ bank = 256 * high + low

RomOK ==
  /\ mCurRomBank \in 0 .. 511
  /\ chosen \in Halves
  /\ FitsClass(mCurRomBank, chosen.low, chosen.high)

RamOK ==
  /\ mCurRamBank \in 0 .. 31
  /\ mCart.class \in {"MBC1", "MBC5"} => mCurRamBank \in RamBanks

\* Every cell holds what was stored last in the one place that has it.
MemOK ==
  /\ mRam \in [Cells -> Values]
  /\ lastWritten \in [Places -> Values]
  /\ \A p \in Places : mRam[RamOffset(p[2], p[1])] = lastWritten[p]

Inv == CartOK /\ RomOK /\ RamOK /\ mMode \in Modes /\ mRamEnabled \in BOOLEAN /\ MemOK

(* No two places share a cell.                                             *)
LEMMA Apart ==
  ASSUME NEW a \in Int, NEW d \in Int, NEW B \in Int, NEW C \in Int,
         40960 <= a, a <= 49151, 40960 <= d, d <= 49151, B + 8192 <= C
  PROVE  (a - 40960) + B # (d - 40960) + C /\ (d - 40960) + C # (a - 40960) + B
OBVIOUS

LEMMA BankOrder ==
  ASSUME NEW b \in Int, NEW c \in Int, b < c
  PROVE  b * 8192 \in Int /\ c * 8192 \in Int /\ b * 8192 + 8192 <= c * 8192
OBVIOUS

LEMMA OffsetInjective ==
  \A p, q \in Places : RamOffset(p[2], p[1]) = RamOffset(q[2], q[1]) => p = q
<1> SUFFICES ASSUME NEW b \in RamBanks, NEW a \in RamAddrs, NEW c \in RamBanks, NEW d \in RamAddrs,
                    RamOffset(a, b) = RamOffset(d, c)
             PROVE  b = c /\ a = d
  BY DEF Places
<1>1. /\ a \in Int /\ 40960 <= a /\ a <= 49151
      /\ d \in Int /\ 40960 <= d /\ d <= 49151
      /\ b \in Int /\ c \in Int
  <2>1. RamAddrs \subseteq 40960 .. 49151
    BY RamAddrsAssumption
  <2>2. a \in 40960 .. 49151 /\ d \in 40960 .. 49151
    BY <2>1
  <2>3. b \in Int /\ c \in Int
    BY DEF RamBanks
  <2> QED
    BY <2>2, <2>3
<1>2. (a - 40960) + b * 8192 = (d - 40960) + c * 8192
  BY DEF RamOffset, RAM_BASE, RAM_BANK_SZ
<1>3. ~(b < c)
  <2> SUFFICES ASSUME b < c PROVE FALSE
    OBVIOUS
  <2>1. b * 8192 \in Int /\ c * 8192 \in Int /\ b * 8192 + 8192 <= c * 8192
    BY <1>1, BankOrder
  <2> QED
    BY <1>1, <1>2, <2>1, Apart
<1>5. ~(c < b)
  <2> SUFFICES ASSUME c < b PROVE FALSE
    OBVIOUS
  <2>1. b * 8192 \in Int /\ c * 8192 \in Int /\ c * 8192 + 8192 <= b * 8192
    BY <1>1, BankOrder
  <2> QED
    BY <1>1, <1>2, <2>1, Apart
<1>4. b = c
  BY <1>1, <1>3, <1>5
<1> QED
  BY <1>1, <1>2, <1>4

(* A number made of two halves comes apart into them.                      *)
LEMMA Halves5 ==
  \A n \in 0 .. 31, h \in 0 .. 3 :
    ((32 * h + n) \div 32) % 4 = h /\ (32 * h + n) % 32 = n
OBVIOUS

LEMMA Halves8 ==
  \A n \in 0 .. 255, h \in 0 .. 1 :
    (256 * h + n) \div 256 = h /\ (256 * h + n) % 256 = n
OBVIOUS

LEMMA OrOneRange ==
  \A n \in 0 .. 127 : OrOne(n) \in 1 .. 127 /\ (n < 32 => OrOne(n) < 32) /\ (n < 16 => OrOne(n) < 16)
BY DEF OrOne
-----------------------------------------------------------------------------
(* One lemma per effect of a write.                                        *)

LEMMA GateInv ==
  ASSUME Inv, NEW open \in BOOLEAN, Gate(open) PROVE Inv'
BY ZenonT(60) DEF Inv, Gate, memory, CartOK, RomOK, RamOK, MemOK, FitsClass

LEMMA SetModeInv ==
  ASSUME Inv, NEW m \in Modes, SetMode(m) PROVE Inv'
BY ZenonT(60) DEF Inv, SetMode, memory, CartOK, RomOK, RamOK, MemOK, FitsClass

LEMMA SelectRamInv ==
  ASSUME Inv, NEW bank \in 0 .. 31, SelectRam(bank),
         mCart.class \in {"MBC1", "MBC5"} => bank \in RamBanks
  PROVE  Inv'
BY ZenonT(60) DEF Inv, SelectRam, memory, CartOK, RomOK, RamOK, MemOK, FitsClass

LEMMA SelectRomInv ==
  ASSUME Inv, NEW bank \in 0 .. 511, NEW low \in 0 .. 255, NEW high \in 0 .. 3,
         SelectRom(bank, low, high), FitsClass(bank, low, high)
  PROVE  Inv'
<1>1. CartOK' /\ RamOK' /\ (mMode \in Modes)' /\ (mRamEnabled \in BOOLEAN)' /\ MemOK'
  BY Zenon DEF Inv, SelectRom, memory, CartOK, RamOK, MemOK
<1>2. mCurRomBank' = bank /\ chosen' = [low |-> low, high |-> high] /\ mCart' = mCart
  BY DEF SelectRom
<1>3. chosen' \in Halves /\ chosen'.low = low /\ chosen'.high = high
  BY <1>2 DEF Halves
<1>4. FitsClass(mCurRomBank, chosen.low, chosen.high)'
  BY <1>2, <1>3, ZenonT(60) DEF FitsClass
<1> QED
  BY <1>1, <1>2, <1>3, <1>4 DEF Inv, RomOK

(* A store changes one cell and the one place it belongs to.               *)
LEMMA WriteRamInv ==
  ASSUME Inv, NEW addr \in RamAddrs, NEW bank \in RamBanks, NEW val \in 0 .. 255,
         WriteRam(addr, bank, val)
  PROVE  Inv'
<1>1. UNCHANGED <<mCart, registers>>
  BY DEF WriteRam
<1>2. CartOK' /\ RomOK' /\ RamOK' /\ (mMode \in Modes)' /\ (mRamEnabled \in BOOLEAN)'
  BY <1>1, ZenonT(60) DEF Inv, registers, CartOK, RomOK, RamOK, FitsClass
<1>3. MemOK'
  <2>1. CASE UNCHANGED memory
    BY <2>1, Zenon DEF Inv, memory, MemOK
  <2>2. CASE /\ mRam' = [mRam EXCEPT ![RamOffset(addr, bank)] = val]
             /\ lastWritten' = [lastWritten EXCEPT ![<<bank, addr>>] = val]
    <3> DEFINE place == <<bank, addr>>
    <3>1. place \in Places /\ place[1] = bank /\ place[2] = addr
      BY DEF Places
    <3>2. RamOffset(addr, bank) \in Cells
      BY <3>1 DEF Cells
    <3>3. val \in Values
      BY DEF Values
    <3>4. mRam' \in [Cells -> Values] /\ lastWritten' \in [Places -> Values]
      BY <2>2, <3>1, <3>2, <3>3 DEF Inv, MemOK
    <3>5. ASSUME NEW p \in Places
          PROVE  mRam'[RamOffset(p[2], p[1])] = lastWritten'[p]
      <4>1. RamOffset(p[2], p[1]) \in Cells
        BY DEF Cells
      <4>2. CASE p = place
        BY <2>2, <3>1, <3>2, <4>2, Zenon DEF Inv, MemOK
      <4>3. CASE p # place
        <5>1. RamOffset(p[2], p[1]) # RamOffset(addr, bank)
          BY <3>1, <4>3, OffsetInjective, Zenon
        <5>2. mRam'[RamOffset(p[2], p[1])] = mRam[RamOffset(p[2], p[1])]
          BY <2>2, <4>1, <5>1, Zenon DEF Inv, MemOK
        <5>3. lastWritten'[p] = lastWritten[p]
          BY <2>2, <4>3, Zenon DEF Inv, MemOK
        <5> QED
          BY <5>2, <5>3 DEF Inv, MemOK
      <4> QED
        BY <4>2, <4>3
    <3> QED
      BY <3>4, <3>5, Zenon DEF MemOK
  <2> QED
    BY <2>1, <2>2, Zenon DEF WriteRam
<1> QED
  BY <1>2, <1>3 DEF Inv
-----------------------------------------------------------------------------
LEMMA Sizes ==
  ASSUME NEW code
  PROVE  RomSz(code) \in Nat /\ RomSz(code) >= 2 * ROM_BANK_SZ /\ RamSz(code) \in Nat
<1>1. RomSz(code) \in Nat /\ RomSz(code) >= 32768
  BY DEF RomSz, Kbit
<1>2. RamSz(code) \in Nat
  BY DEF RamSz, Kbit
<1> QED
  BY <1>1, <1>2 DEF ROM_BANK_SZ

LEMMA InitInv == Init => Inv
<1> SUFFICES ASSUME NEW img \in Images, LoadFromBuffer(img) PROVE Inv
  BY Zenon DEF Init
<1>1. CartOK
  <2>1. Class(img.type) \in Classes
    BY DEF LoadFromBuffer, Class, Classes
  <2>2. img.type \in 0 .. 255
    BY ImagesAssumption
  <2> DEFINE type == IF img.sz >= 336 THEN img.type ELSE 0
             romSz == RomSz(IF img.sz >= 336 THEN img.romCode ELSE 0)
             ramSz == IF Class(img.type) = "MBC2" THEN 512
                      ELSE RamSz(IF img.sz >= 336 THEN img.ramCode ELSE 0)
  <2>3. mCart = [class |-> Class(img.type), type |-> type, romSz |-> romSz, ramSz |-> ramSz]
    BY Zenon DEF LoadFromBuffer, Constructed
  <2>4. type \in 0 .. 255
    BY <2>2
  <2>5. romSz \in Nat /\ romSz >= 2 * ROM_BANK_SZ
    BY Sizes
  <2>6. ramSz \in Nat
    BY Sizes
  <2> HIDE DEF type, romSz, ramSz
  <2> QED
    BY <2>1, <2>3, <2>4, <2>5, <2>6 DEF CartOK
<1>2. PowerUp
  BY DEF LoadFromBuffer
<1>3. RomOK
  <2>1. mCurRomBank = 1 /\ chosen = [low |-> 1, high |-> 0]
    BY <1>2 DEF PowerUp
  <2> QED
    BY <2>1 DEF RomOK, FitsClass, Halves, OrOne
<1>4. RamOK /\ mMode \in Modes /\ mRamEnabled \in BOOLEAN
  <2>1. mCurRamBank = 0 /\ mMode = "mode2MRom8KRam" /\ mRamEnabled = FALSE
    BY <1>2, Zenon DEF PowerUp
  <2>2. 0 \in 0 .. 31 /\ 0 \in RamBanks
    BY DEF RamBanks
  <2> QED
    BY <2>1, <2>2, Zenon DEF RamOK, Modes
<1>5. MemOK
  <2>1. mRam = [c \in Cells |-> Unset] /\ lastWritten = [p \in Places |-> Unset]
    BY <1>2 DEF PowerUp
  <2>2. \A p \in Places : RamOffset(p[2], p[1]) \in Cells
    BY DEF Cells
  <2> QED
    BY <2>1, <2>2 DEF MemOK, Values
<1> QED
  BY <1>1, <1>3, <1>4, <1>5 DEF Inv

(* A byte's low bits.                                                      *)
LEMMA Masks ==
  ASSUME NEW val \in 0 .. 255
  PROVE  /\ val % 2 \in 0 .. 1 /\ val % 4 \in 0 .. 3 /\ val % 16 \in 0 .. 15
         /\ val % 32 \in 0 .. 31 /\ val % 128 \in 0 .. 127
BY SMTT(30)

LEMMA RomOnlyStep ==
  ASSUME Inv, NEW addr \in RomAddrs \cup RamAddrs, NEW val \in 0 .. 255, RomOnlyWrite(addr, val)
  PROVE  Inv'
<1>1. CASE RomOnlyHasRam /\ addr \in RamAddrs
  BY <1>1, WriteRamInv, SMTT(30) DEF RomOnlyWrite, RamBanks
<1>2. CASE UNCHANGED vars
  BY <1>2, ZenonT(60) DEF Inv, vars, registers, memory, CartOK, RomOK, RamOK, MemOK, FitsClass
<1> QED
  BY <1>1, <1>2, Zenon DEF RomOnlyWrite

(* Only addresses of RAM lie in segment 5.                                 *)
LEMMA RomSegment == \A a \in RomAddrs : Segment(a) # 5
BY RomAddrsAssumption DEF Segment

LEMMA RamSegment ==
  ASSUME NEW addr \in RomAddrs \cup RamAddrs, Segment(addr) = 5 PROVE addr \in RamAddrs
BY RomSegment

LEMMA MBC1Step ==
  ASSUME Inv, NEW addr \in RomAddrs \cup RamAddrs, NEW val \in 0 .. 255, MBC1Write(addr, val)
  PROVE  Inv'
<1>1. mCart.class = "MBC1" /\ mCart.class # "MBC5" /\ mCart.class # "RomOnly"
      /\ mCart.class \notin {"MBC2", "MBC3"}
  BY DEF MBC1Write
<1>2. /\ chosen.low \in 0 .. 31 /\ chosen.high \in 0 .. 3
      /\ mCurRomBank = 32 * chosen.high + OrOne(chosen.low)
  BY <1>1, Zenon DEF Inv, RomOK, FitsClass
<1>3. OrOne(chosen.low) \in 0 .. 31 /\ OrOne(val % 32) \in 0 .. 31
  BY <1>2, Masks DEF OrOne
<1>4. (mCurRomBank \div 32) % 4 = chosen.high /\ mCurRomBank % 32 = OrOne(chosen.low)
  BY <1>2, <1>3, Halves5
<1>5. CASE Gate(Enables(val))
  <2>1. Enables(val) \in BOOLEAN
    BY DEF Enables
  <2> QED
    BY <1>5, <2>1, GateInv, Zenon
<1>6. CASE SelectRom(LowBits(val), val % 32, chosen.high)
  <2>1. LowBits(val) = 32 * chosen.high + OrOne(val % 32)
    BY <1>2, <1>3, <1>4 DEF LowBits
  <2>2. LowBits(val) \in 0 .. 511 /\ val % 32 \in 0 .. 255
    BY <1>2, <1>3, <2>1, Masks
  <2>3. FitsClass(LowBits(val), val % 32, chosen.high)
    BY <1>1, <1>2, <2>1, Masks, Zenon DEF FitsClass
  <2> QED
    BY <1>2, <1>6, <2>2, <2>3, SelectRomInv, ZenonT(60)
<1>7. CASE SelectRom(HighBits(val), chosen.low, val % 4)
  <2>1. HighBits(val) = 32 * (val % 4) + OrOne(chosen.low)
    BY <1>3, <1>4, Masks DEF HighBits
  <2>2. HighBits(val) \in 0 .. 511 /\ chosen.low \in 0 .. 255
    BY <1>2, <1>3, <2>1, Masks
  <2>3. FitsClass(HighBits(val), chosen.low, val % 4)
    BY <1>1, <1>2, <2>1, Masks, Zenon DEF FitsClass
  <2> QED
    BY <1>7, <2>2, <2>3, Masks, SelectRomInv, Zenon
<1>8. CASE SelectRam(val % 4)
  <2>1. val % 4 \in 0 .. 31 /\ val % 4 \in RamBanks
    BY Masks DEF RamBanks
  <2> QED
    BY <1>8, <2>1, SelectRamInv, Zenon
<1>9. CASE SetMode(IF val % 2 = 1 THEN "mode512KRom32KRam" ELSE "mode2MRom8KRam")
  BY <1>9, SetModeInv, Zenon DEF Modes
<1>10. CASE Segment(addr) = 5 /\ WriteRam(addr, mCurRamBank, val)
  <2>1. mCurRamBank \in RamBanks
    BY <1>1 DEF Inv, RamOK
  <2> QED
    BY <1>10, <2>1, RamSegment, WriteRamInv, Zenon
<1> QED
  BY <1>5, <1>6, <1>7, <1>8, <1>9, <1>10, Zenon DEF MBC1Write

LEMMA MBC2Step ==
  ASSUME Inv, NEW addr \in RomAddrs \cup RamAddrs, NEW val \in 0 .. 255, MBC2Write(addr, val)
  PROVE  Inv'
<1>1. CASE Gate(Enables(val))
  <2>1. Enables(val) \in BOOLEAN
    BY DEF Enables
  <2> QED
    BY <1>1, <2>1, GateInv, Zenon
<1>2. CASE SelectRom(OrOne(val % 16), val % 16, 0)
  <2>1. val % 16 \in 0 .. 127 /\ val % 16 \in 0 .. 255
    BY Masks
  <2>2. OrOne(val % 16) \in 0 .. 511
    BY <2>1, OrOneRange
  <2>3. FitsClass(OrOne(val % 16), val % 16, 0)
    BY <2>1 DEF FitsClass, MBC2Write
  <2>4. 0 \in 0 .. 3
    OBVIOUS
  <2> QED
    BY <1>2, <2>1, <2>2, <2>3, <2>4, SelectRomInv, ZenonT(60)
<1>3. CASE Segment(addr) = 5 /\ WriteRam(addr, 0, val % 16)
  <2>1. val % 16 \in 0 .. 255 /\ 0 \in RamBanks
    BY Masks DEF RamBanks
  <2> QED
    BY <1>3, <2>1, RamSegment, WriteRamInv, Zenon
<1> QED
  BY <1>1, <1>2, <1>3, Zenon DEF MBC2Write

LEMMA MBC3Step ==
  ASSUME Inv, NEW addr \in RomAddrs \cup RamAddrs, NEW val \in 0 .. 255, MBC3Write(addr, val)
  PROVE  Inv'
<1>1. CASE Gate(Enables(val))
  <2>1. Enables(val) \in BOOLEAN
    BY DEF Enables
  <2> QED
    BY <1>1, <2>1, GateInv, Zenon
<1>2. CASE SelectRom(OrOne(val % 128), val % 128, 0)
  <2>1. val % 128 \in 0 .. 127 /\ val % 128 \in 0 .. 255
    BY Masks
  <2>2. OrOne(val % 128) \in 0 .. 511
    BY <2>1, OrOneRange
  <2>3. FitsClass(OrOne(val % 128), val % 128, 0)
    BY <2>1 DEF FitsClass, MBC3Write
  <2>4. 0 \in 0 .. 3
    OBVIOUS
  <2> QED
    BY <1>2, <2>1, <2>2, <2>3, <2>4, SelectRomInv, ZenonT(60)
<1>3. CASE SelectRam(val % 32)
  <2>1. mCart.class \notin {"MBC1", "MBC5"}
    BY DEF MBC3Write
  <2> QED
    BY <1>3, <2>1, Masks, SelectRamInv, Zenon
<1>4. CASE Segment(addr) = 5 /\ mCurRamBank < 8 /\ WriteRam(addr, mCurRamBank, val)
  <2>1. mCurRamBank \in RamBanks
    BY <1>4 DEF Inv, RamOK, RamBanks
  <2> QED
    BY <1>4, <2>1, RamSegment, WriteRamInv, Zenon
<1> QED
  BY <1>1, <1>2, <1>3, <1>4, Zenon DEF MBC3Write

LEMMA MBC5Step ==
  ASSUME Inv, NEW addr \in RomAddrs \cup RamAddrs, NEW val \in 0 .. 255, MBC5Write(addr, val)
  PROVE  Inv'
<1>1. /\ mCart.class = "MBC5" /\ mCart.class # "MBC1" /\ mCart.class # "RomOnly"
      /\ mCart.class \notin {"MBC2", "MBC3"}
  BY DEF MBC5Write
<1>2. /\ chosen.low \in 0 .. 255 /\ chosen.high \in 0 .. 1
      /\ mCurRomBank = 256 * chosen.high + chosen.low
  BY <1>1, Zenon DEF Inv, RomOK, FitsClass
<1>3. mCurRomBank \div 256 = chosen.high /\ mCurRomBank % 256 = chosen.low
  BY <1>2, Halves8
<1>4. CASE Gate(Enables(val))
  <2>1. Enables(val) \in BOOLEAN
    BY DEF Enables
  <2> QED
    BY <1>4, <2>1, GateInv, Zenon
<1>5. CASE SelectRom((mCurRomBank \div 256) * 256 + val, val, chosen.high)
  <2> DEFINE bank == (mCurRomBank \div 256) * 256 + val
  <2>1. bank = 256 * chosen.high + val
    BY <1>2, <1>3
  <2>2. bank \in 0 .. 511 /\ chosen.high \in 0 .. 3
    BY <1>2, <2>1, SMTT(30)
  <2> HIDE DEF bank
  <2>3. FitsClass(bank, val, chosen.high)
    BY <1>1, <1>2, <2>1, Zenon DEF FitsClass
  <2>4. SelectRom(bank, val, chosen.high)
    BY <1>5 DEF bank
  <2> QED
    BY <2>2, <2>3, <2>4, SelectRomInv, Zenon
<1>6. CASE SelectRom(TopBit(val), chosen.low, val % 2)
  <2>1. TopBit(val) = 256 * (val % 2) + chosen.low
    BY <1>2, <1>3, Masks DEF TopBit
  <2>2. TopBit(val) \in 0 .. 511 /\ val % 2 \in 0 .. 3
    BY <1>2, <2>1, Masks
  <2>3. FitsClass(TopBit(val), chosen.low, val % 2)
    BY <1>1, <1>2, <2>1, Masks, Zenon DEF FitsClass
  <2> QED
    BY <1>2, <1>6, <2>2, <2>3, SelectRomInv, Zenon
<1>7. CASE SelectRam(val % 16)
  <2>1. val % 16 \in 0 .. 31 /\ val % 16 \in RamBanks
    BY Masks DEF RamBanks
  <2> QED
    BY <1>7, <2>1, SelectRamInv, Zenon
<1>8. CASE Segment(addr) = 5 /\ WriteRam(addr, mCurRamBank, val)
  <2>1. mCurRamBank \in RamBanks
    BY <1>1 DEF Inv, RamOK
  <2> QED
    BY <1>8, <2>1, RamSegment, WriteRamInv, Zenon
<1> QED
  BY <1>4, <1>5, <1>6, <1>7, <1>8, SMT DEF MBC5Write

LEMMA NextInv == Inv /\ [Next]_vars => Inv'
<1> SUFFICES ASSUME Inv, [Next]_vars PROVE Inv'
  OBVIOUS
<1>1. CASE UNCHANGED vars
  BY <1>1, ZenonT(60) DEF Inv, vars, registers, memory, CartOK, RomOK, RamOK, MemOK, FitsClass
<1>2. CASE Next
  <2>1. PICK addr \in RomAddrs \cup RamAddrs, val \in RegValues \cup RamValues : WriteAddr(addr, val)
    BY <1>2, Zenon DEF Next
  <2>2. val \in 0 .. 255
    BY RegValuesAssumption, RamValuesAssumption
  <2> QED
    BY <2>1, <2>2, RomOnlyStep, MBC1Step, MBC2Step, MBC3Step, MBC5Step, ZenonT(60) DEF WriteAddr
<1> QED
  BY <1>1, <1>2

LEMMA Invariance == Spec => []Inv
BY InitInv, NextInv, PTL DEF Spec
-----------------------------------------------------------------------------
(* The registers keep their widths and the ROM has its two unchecked       *)
(* banks: what every access to the cartridge relies on.                    *)
THEOREM TypesHold == Spec => []TypeOK
<1>1. Inv => TypeOK
  BY DEF Inv, TypeOK, CartOK, RomOK, RamOK, MemOK, Classes, Modes, Halves, Values
<1> QED
  BY <1>1, Invariance, PTL

(* The bank shown is made of the last values written to both halves.       *)
THEOREM HalvesKeptHolds == Spec => []HalvesKept
<1>1. Inv => HalvesKept
  BY Zenon DEF Inv, RomOK, FitsClass, HalvesKept
<1> QED
  BY <1>1, Invariance, PTL

(* The switched slot shows neither bank 0 nor, on MBC1, 32, 64 or 96.      *)
THEOREM SwitchedSlotHolds == Spec => []SwitchedSlot
<1>1. ASSUME Inv PROVE SwitchedSlot
  <2>1. ASSUME mCart.class = "MBC1"
        PROVE  mCurRomBank >= 1 /\ mCurRomBank \in Int /\ mCurRomBank % 32 # 0
    <3>1. /\ chosen.low \in 0 .. 31 /\ chosen.high \in 0 .. 3
          /\ mCurRomBank = 32 * chosen.high + OrOne(chosen.low)
      BY <1>1, <2>1, Zenon DEF Inv, RomOK, FitsClass
    <3>2. OrOne(chosen.low) \in 1 .. 31
      BY <3>1 DEF OrOne
    <3>3. mCurRomBank % 32 = OrOne(chosen.low)
      BY <3>1, <3>2, Halves5
    <3> QED
      BY <3>1, <3>2, <3>3
  <2>2. ASSUME mCart.class \in {"MBC2", "MBC3"} PROVE mCurRomBank >= 1 /\ mCurRomBank \in Int
    <3>1. chosen.low \in 0 .. 127 /\ mCurRomBank = OrOne(chosen.low)
      BY <1>1, <2>2, Zenon DEF Inv, RomOK, FitsClass
    <3> QED
      BY <3>1 DEF OrOne
  <2> QED
    BY <2>1, <2>2 DEF SwitchedSlot, RomOffset, ROM_BANK_SZ
<1> QED
  BY <1>1, Invariance, PTL

(* What is read in a bank is what was stored there last, for every size of *)
(* RAM, every controller and every order of writes and bank switches.      *)
THEOREM RamIsHeld == Spec => []RamHolds
<1>1. ASSUME Inv PROVE RamHolds
  <2> SUFFICES ASSUME NEW addr \in RamAddrs, ReadsRam, mCart.class = "MBC2" => InRam(addr)
               PROVE  ReadRam(addr) = {IF InRam(addr) THEN lastWritten[<<ReadBank, addr>>] ELSE 0}
    BY Zenon DEF RamHolds
  <2>1. ReadBank \in RamBanks
    BY <1>1 DEF Inv, CartOK, Classes, RamOK, RamBanks,
        ReadBank, ReadsRam, RomOnlyReads, MBC1Reads, MBC2Reads, MBC3Reads, MBC5Reads
  <2>2. <<ReadBank, addr>> \in Places
    BY <2>1 DEF Places
  <2>3. mRam[RamOffset(addr, ReadBank)] = lastWritten[<<ReadBank, addr>>]
    <3> DEFINE p == <<ReadBank, addr>>
    <3>1. mRam[RamOffset(p[2], p[1])] = lastWritten[p]
      BY <1>1, <2>2, Zenon DEF Inv, MemOK
    <3>2. p[1] = ReadBank /\ p[2] = addr
      OBVIOUS
    <3> QED
      BY <3>1, <3>2, Zenon
  <2>4. CASE InRam(addr)
    BY <2>3, <2>4, Zenon DEF ReadRam
  <2>5. CASE ~InRam(addr)
    BY <2>5, Zenon DEF ReadRam, Behind
  <2> QED
    BY <2>4, <2>5
<1> QED
  BY <1>1, Invariance, PTL
=============================================================================
