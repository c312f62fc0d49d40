-------------------------------- MODULE Bus --------------------------------
(***************************************************************************)
(* The machine around the CPU (core/src/boldboy.cpp): the memory map, the  *)
(* cartridge it shows, what the PPU's modes keep the program from, and the *)
(* OAM DMA.  One round of Boldboy::tick is the accesses of Cpu::tick, then *)
(* the tick of the I/O devices, then that of the PPU; at is the place the  *)
(* round has reached.  What a cartridge, a timer or the PPU does with an   *)
(* access is in their own modules.                                         *)
(***************************************************************************)
EXTENDS Integers

CONSTANTS Delay,    \* cycles from the write of DMA to the copy, 162*4
          OamTime,  \* OAM is blocked when no more than these are left, 160*4
          TickLens, \* what Cpu::tick can return
          Offsets,  \* the bytes of OAM, 0 .. 159
          Pages,    \* the values written to DMA
          Addrs,    \* the addresses the program writes
          Values,   \* the bytes it writes there
          Rom,      \* bank -> offset -> byte
          BootRom   \* offset -> byte

Word == 0 .. 65535
Byte == 0 .. 255
Banks == DOMAIN Rom

ASSUME DelayAssumption == Delay \in Nat /\ OamTime \in Nat /\ OamTime < Delay
ASSUME TickLensAssumption == TickLens \subseteq Nat \ {0}
ASSUME OffsetsAssumption == Offsets \subseteq 0 .. 159
ASSUME PagesAssumption == Pages \subseteq Byte
ASSUME AddrsAssumption == Addrs \subseteq Word
ASSUME ValuesAssumption == Values \subseteq Byte
ASSUME RomAssumption == 0 \in Banks /\ \A b \in Banks : Rom[b] \in [Offsets -> Byte]
ASSUME BootRomAssumption == BootRom \in [Offsets -> Byte]

VARIABLES at, cycles,
          mCart,          \* Boldboy's cartridge: "none" or "live"
          mapped,         \* that of the memory map: also "freed"
          dmaCart,        \* that of the DMA
          bank,           \* the ROM bank a live cartridge shows
          mBootromEnabled,
          MODE, mEnabled, mVRAM, mOAM, mOAMDMAInProgress,  \* of the PPU
          mRam,           \* internal RAM
          mActive, mRestarted, mStart, mCycles,            \* of the DMA
          undefined,      \* a deleted cartridge or a null pointer was used
          age,            \* history: cycles since the DMA became active
          intruded        \* history: OAM bytes the program wrote in modes 2 and 3

round == <<at, cycles>>
carts == <<mCart, mapped, dmaCart, bank>>
screen == <<MODE, mEnabled>>
dma == <<mActive, mRestarted, mStart, mCycles, mOAMDMAInProgress, age>>
oam == <<mOAM, intruded>>
vars == <<round, carts, mBootromEnabled, screen, mVRAM, oam, mRam, dma, undefined>>

PageOf(a) == a \div 256
OffsetOf(a) == a % 256

In(first, last) == {a \in Word : PageOf(a) \in Pages \cap first .. last /\ OffsetOf(a) \in Offsets}
VramAddrs == In(128, 159)
RamAddrs == In(192, 223)

\* Memory is not initialised; 0 stands for what it held.
Init ==
  /\ at = "cpu" /\ cycles = 0
  /\ mCart = "none" /\ mapped = "none" /\ dmaCart = "none" /\ bank \in Banks
  /\ mBootromEnabled \in BOOLEAN
  /\ MODE = 2 /\ mEnabled = FALSE
  /\ mVRAM = [a \in VramAddrs |-> 0] /\ mOAM = [o \in Offsets |-> 0]
  /\ mRam = [a \in RamAddrs |-> 0]
  /\ mActive = FALSE /\ mRestarted = FALSE /\ mStart = 0 /\ mCycles \in 0 .. Delay
  /\ mOAMDMAInProgress = FALSE
  /\ undefined = FALSE /\ age = 0 /\ intruded = {}
-----------------------------------------------------------------------------
(* Where an access goes *)

\* IoController::findHandler; "serial" may be absent.
Device(a) ==
  IF a \in {65281, 65282} THEN "serial"
  ELSE IF a \in {65295, 65535} THEN "ic"
  ELSE IF a \in 65284 .. 65287 THEN "timer"
  ELSE IF a = 65350 THEN "dma"
  ELSE IF a \in 65344 .. 65355 THEN "ppu"
  ELSE IF a = 65280 THEN "joypad" ELSE "nothing"

Upper(a) ==
  IF PageOf(a) = 254 THEN "oam"
  ELSE IF PageOf(a) < 254 THEN "echo"
  ELSE IF a \in 65408 .. 65534 THEN "hram" ELSE Device(a)

Route(a) ==
  LET regions == <<"cart", "cart", "cart", "cart", "vram", "cart", "ram">>
  IN IF a = 65360 THEN "bootrom"
     ELSE IF a < 57344 THEN regions[(a \div 8192) + 1] ELSE Upper(a)

\* TO_ECHOED_ADDR_SPACE
Echoed(a) == a - 8192
-----------------------------------------------------------------------------
(* What a read returns *)

IsActive_NotOnRestart == mActive /\ mCycles <= OamTime
IsActive == mActive /\ (mCycles <= OamTime \/ mRestarted)

CartRead(cart, a) ==
  IF cart = "none" THEN 0
  ELSE IF a < 32768 THEN Rom[IF a < 16384 THEN 0 ELSE bank][OffsetOf(a)] ELSE 255

VramRead(a) == IF MODE # 3 /\ a \in VramAddrs THEN mVRAM[a] ELSE 255
RamRead(a) == IF a \in RamAddrs THEN mRam[a] ELSE 255

\* The boot ROM lies over the first page until it is switched off.
Overlaid(a) == mBootromEnabled /\ a < 256

\* Mmu::readAddr, for the addresses DMA can copy from.
CpuRead(a) ==
  LET r == Route(a)
  IN IF Overlaid(a) THEN BootRom[OffsetOf(a)]
     ELSE IF r = "cart" THEN CartRead(mapped, a)
     ELSE IF r = "vram" THEN VramRead(a)
     ELSE IF r = "ram" THEN RamRead(a)
     ELSE IF r = "echo" THEN RamRead(Echoed(a)) ELSE 255

DmaFromCart(page) == page < 128

DmaRead(a) ==
  IF DmaFromCart(mStart) THEN CartRead(dmaCart, a)
  ELSE IF mStart < 160 THEN VramRead(a) ELSE RamRead(a)
-----------------------------------------------------------------------------
(* Accesses of the CPU *)

Cpu == at = "cpu" /\ ~undefined

\* Instructions are fetched from the cartridge: every call reads it sooner or
\* later, and a deleted one is used.
UseDeleted ==
  /\ Cpu /\ mapped = "freed"
  /\ undefined' = TRUE
  /\ UNCHANGED <<round, carts, mBootromEnabled, screen, mVRAM, oam, mRam, dma>>

WriteBootrom(a) ==
  /\ Route(a) = "bootrom" /\ mBootromEnabled' = FALSE
  /\ UNCHANGED <<carts, screen, mVRAM, oam, mRam, dma>>

\* A register of the cartridge may switch the bank; see Cartridge.
WriteCart(a) ==
  /\ Route(a) = "cart"
  /\ IF mapped = "live" /\ a < 32768 THEN bank' \in Banks ELSE bank' = bank
  /\ UNCHANGED <<mCart, mapped, dmaCart, mBootromEnabled, screen, mVRAM, oam, mRam, dma>>

WriteVram(a, v) ==
  /\ Route(a) = "vram" /\ a \in VramAddrs
  /\ mVRAM' = IF ~mEnabled \/ MODE # 3 THEN [mVRAM EXCEPT ![a] = v] ELSE mVRAM
  /\ UNCHANGED <<carts, mBootromEnabled, screen, oam, mRam, dma>>

WriteRam(a, v) ==
  /\ \E c \in RamAddrs :
       /\ \/ Route(a) = "ram" /\ c = a
          \/ Route(a) = "echo" /\ c = Echoed(a)
       /\ mRam' = [mRam EXCEPT ![c] = v]
  /\ UNCHANGED <<carts, mBootromEnabled, screen, mVRAM, oam, dma>>

Drawing == mEnabled /\ MODE \in {2, 3}

WriteOam(a, v) ==
  /\ Route(a) = "oam" /\ OffsetOf(a) \in Offsets
  /\ IF ~Drawing \/ mOAMDMAInProgress
       THEN /\ mOAM' = [mOAM EXCEPT ![OffsetOf(a)] = v]
            /\ intruded' = IF Drawing THEN intruded \cup {OffsetOf(a)} ELSE intruded
       ELSE UNCHANGED oam
  /\ UNCHANGED <<carts, mBootromEnabled, screen, mVRAM, mRam, dma>>

\* A write of LCDC.  Switching the LCD off leaves the PPU in mode 2.
WriteLcdc(a, on) ==
  /\ a = 65344 /\ Device(a) = "ppu"
  /\ mEnabled' = on
  /\ MODE' = IF mEnabled /\ ~on THEN 2 ELSE MODE
  /\ UNCHANGED <<carts, mBootromEnabled, mVRAM, oam, mRam, dma>>

\* OAMDMA::writeAddr
WriteDma(a, page) ==
  /\ Device(a) = "dma"
  /\ mRestarted' = (mRestarted \/ mActive)
  /\ mActive' = TRUE /\ mOAMDMAInProgress' = TRUE
  /\ mStart' = page /\ mCycles' = Delay
  /\ age' = IF mActive THEN age ELSE 0
  /\ UNCHANGED <<carts, mBootromEnabled, screen, mVRAM, oam, mRam>>

Write ==
  /\ Cpu
  /\ \E a \in Addrs :
       \/ WriteBootrom(a) \/ WriteCart(a)
       \/ \E v \in Values : WriteVram(a, v) \/ WriteRam(a, v) \/ WriteOam(a, v)
       \/ \E on \in BOOLEAN : WriteLcdc(a, on)
       \/ \E page \in Pages : WriteDma(a, page)
  /\ UNCHANGED <<round, undefined>>

CpuDone ==
  /\ Cpu
  /\ at' = "io" /\ cycles' \in TickLens
  /\ UNCHANGED <<carts, mBootromEnabled, screen, mVRAM, oam, mRam, dma, undefined>>
-----------------------------------------------------------------------------
(* The other devices *)

CopiedOffsets_NotTheLast == Offsets \ {159}
CopiedOffsets == Offsets

\* stopOAMDMA
InProgressAfter_Kept == mOAMDMAInProgress
InProgressAfter == FALSE

Remaining_Stuck == mCycles
Remaining == mCycles - cycles

Later(n) == IF n < Delay THEN n ELSE Delay

DmaWaits ==
  /\ at = "io" /\ ~undefined
  /\ mActive => cycles < mCycles
  /\ mCycles' = IF mActive THEN Remaining ELSE mCycles
  /\ age' = IF mActive THEN Later(age + cycles) ELSE age
  /\ at' = "ppu"
  /\ UNCHANGED <<cycles, carts, mBootromEnabled, screen, mVRAM, oam, mRam, mActive, mRestarted,
                 mStart, mOAMDMAInProgress, undefined>>

\* The copy, all of it at the end of the delay.
DmaCopies ==
  /\ at = "io" /\ ~undefined
  /\ mActive /\ cycles >= mCycles
  /\ DmaFromCart(mStart) => dmaCart = "live"
  /\ mOAM' = [o \in Offsets |->
                 IF o \in CopiedOffsets THEN DmaRead((256 * mStart) + o) ELSE mOAM[o]]
  /\ intruded' = intruded \ CopiedOffsets
  /\ mCycles' = 0 /\ mActive' = FALSE /\ mRestarted' = FALSE /\ age' = 0
  /\ mOAMDMAInProgress' = InProgressAfter
  /\ at' = "ppu"
  /\ UNCHANGED <<cycles, carts, mBootromEnabled, screen, mVRAM, mRam, mStart, undefined>>

\* The copy from a cartridge that was deleted or never loaded.
DmaUsesDeleted ==
  /\ at = "io" /\ ~undefined
  /\ mActive /\ cycles >= mCycles
  /\ DmaFromCart(mStart) /\ dmaCart # "live"
  /\ undefined' = TRUE
  /\ UNCHANGED <<round, carts, mBootromEnabled, screen, mVRAM, oam, mRam, dma>>

\* A call may end a mode; PpuTiming says when.
Following(m) == IF m = 2 THEN {3} ELSE IF m = 3 THEN {0} ELSE IF m = 0 THEN {1, 2} ELSE {2}

PpuTick ==
  /\ at = "ppu" /\ ~undefined
  /\ MODE' \in IF mEnabled THEN {MODE} \cup Following(MODE) ELSE {MODE}
  /\ at' = "cpu" /\ cycles' = 0
  /\ UNCHANGED <<carts, mBootromEnabled, mEnabled, mVRAM, oam, mRam, dma, undefined>>
-----------------------------------------------------------------------------
(* Boldboy::loadCart, between two rounds.  The old cartridge is deleted    *)
(* first; a load that fails leaves the memory map and the DMA with it.     *)

Deleted(cart) == IF mCart = "live" THEN "freed" ELSE cart

DmaCartAfter_NotSet == Deleted(dmaCart)
DmaCartAfter == "live"

LoadCart ==
  /\ Cpu
  /\ mCart' = "live" /\ mapped' = "live" /\ dmaCart' = DmaCartAfter /\ bank' \in Banks
  /\ UNCHANGED <<round, mBootromEnabled, screen, mVRAM, oam, mRam, dma, undefined>>

LoadFails ==
  /\ Cpu
  /\ mCart' = "none" /\ mapped' = Deleted(mapped) /\ dmaCart' = Deleted(dmaCart)
  /\ UNCHANGED <<round, bank, mBootromEnabled, screen, mVRAM, oam, mRam, dma, undefined>>
-----------------------------------------------------------------------------
Round == CpuDone \/ DmaWaits \/ DmaCopies \/ DmaUsesDeleted \/ PpuTick
Next == UseDeleted \/ Write \/ LoadCart \/ LoadFails \/ Round

\* Boldboy::run and waitForFrame call tick in a loop, and a call of Cpu::tick
\* makes finitely many accesses.
Spec == Init /\ [][Next]_vars /\ WF_vars(Round)
-----------------------------------------------------------------------------
(* Correctness *)

TypeOK ==
  /\ at \in {"cpu", "io", "ppu"} /\ cycles \in Nat
  /\ mCart \in {"none", "live"}
  /\ mapped \in {"none", "live", "freed"} /\ dmaCart \in {"none", "live", "freed"}
  /\ bank \in Banks /\ mBootromEnabled \in BOOLEAN
  /\ MODE \in 0 .. 3 /\ mEnabled \in BOOLEAN
  /\ mVRAM \in [VramAddrs -> Byte] /\ mOAM \in [Offsets -> Byte] /\ mRam \in [RamAddrs -> Byte]
  /\ mActive \in BOOLEAN /\ mRestarted \in BOOLEAN /\ mOAMDMAInProgress \in BOOLEAN
  /\ mStart \in Byte /\ mCycles \in 0 .. Delay
  /\ undefined \in BOOLEAN /\ age \in 0 .. Delay /\ intruded \subseteq Offsets

\* As long as the last load succeeded, memory map and DMA have the cartridge
\* that was loaded and neither ever reaches a deleted one or none at all: no
\* order of loads, failed loads and transfers in flight leads there.
SafeWithCart == mCart = "live" => mapped = "live" /\ dmaCart = "live" /\ ~undefined

\* From the cycle on which the first transfer begins to the end of the last
\* one OAM cannot be read, through every restart; before it, and once the
\* DMA is idle, it can.
OamBlocked ==
  /\ mActive /\ age >= Delay - OamTime => IsActive
  /\ IsActive => mActive /\ (mRestarted \/ age >= Delay - OamTime)

\* What the program writes to OAM while the PPU is drawing from it never
\* outlives the DMA under whose cover it was accepted.
IntrusionsOverwritten == intruded # {} => mActive

\* The DMA copies what the program would have read at the same moment, mode 3
\* and the bank shown included, although it finds the memory by itself.
\* Cartridge RAM and the pages from 0xe0 on it does not find at all, and
\* the boot ROM it does not see.
DmaReadsAsCpu ==
  [][DmaCopies /\ (mStart < 160 \/ mStart \in 192 .. 223) /\ ~Overlaid(256 * mStart) =>
       \A o \in Offsets : mOAM'[o] = CpuRead((256 * mStart) + o)]_vars

\* A transfer comes to its end, unless the program restarts it for ever or
\* the machine has run into a cartridge that is not there.
Restart == mActive /\ \E a \in Addrs, page \in Pages : WriteDma(a, page)
DmaEnds == []<>(~mActive \/ undefined) \/ []<><<Restart>>_vars
=============================================================================
