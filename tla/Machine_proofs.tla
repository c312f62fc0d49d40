--------------------------- MODULE Machine_proofs ---------------------------
(* What the memory map, the DMA and the PPU's blocking guarantee for every *)
(* memory, every delay and every sequence of accesses, loads and ticks,    *)
(* and, in the second part, what the front end that drives the machine     *)
(* guarantees of the keys.                                                 *)
EXTENDS Bus, FrontEnd, TLAPS

(* The parts of the invariant.  Both pointers to the cartridge always      *)
(* agree, the PPU's copy of the DMA's state follows it, and a transfer     *)
(* that was not restarted has waited for what is missing of its delay.     *)
CartsAgree == mapped = dmaCart

DmaFollowed ==
  /\ mOAMDMAInProgress = mActive
  /\ mRestarted => mActive
  /\ mActive /\ ~mRestarted => age = Delay - mCycles

IInv == TypeOK /\ CartsAgree /\ SafeWithCart /\ DmaFollowed /\ IntrusionsOverwritten

(* The memories take bytes only. *)
LEMMA MemoryTyped ==
  ASSUME NEW D, NEW f \in [D -> Byte], NEW a \in D, NEW v \in Byte
  PROVE  [f EXCEPT ![a] = v] \in [D -> Byte]
  OBVIOUS

\* The address a transfer from page p reads at offset o.
Source(p, o) == (256 * p) + o

(* Its offset. *)
LEMMA SourceOffset ==
  ASSUME NEW p \in 0 .. 255, NEW o \in 0 .. 159
  PROVE  OffsetOf(Source(p, o)) = o
  BY DEF Source, OffsetOf

(* The regions an address is routed to below the upper ones. *)
LEMMA CartRoute ==
  ASSUME NEW p \in 0 .. 127, NEW o \in 0 .. 159
  PROVE  Route(Source(p, o)) = "cart"
<1> DEFINE a == Source(p, o)
           k == a \div 8192
           regions == <<"cart", "cart", "cart", "cart", "vram", "cart", "ram">>
<1>1. a # 65360 /\ a < 57344
  BY DEF Source
<1>2. Route(a) = regions[k + 1]
  BY <1>1 DEF Route
<1>3. k = 0 \/ k = 1 \/ k = 2 \/ k = 3
  BY DEF Source
<1> HIDE DEF k
<1>4. regions[k + 1] = "cart"
  BY <1>3
<1> QED BY <1>2, <1>4

LEMMA VramRoute ==
  ASSUME NEW p \in 128 .. 159, NEW o \in 0 .. 159
  PROVE  Route(Source(p, o)) = "vram"
<1> DEFINE a == Source(p, o)
           k == a \div 8192
           regions == <<"cart", "cart", "cart", "cart", "vram", "cart", "ram">>
<1>1. a # 65360 /\ a < 57344
  BY DEF Source
<1>2. Route(a) = regions[k + 1]
  BY <1>1 DEF Route
<1>3. k = 4
  BY DEF Source
<1> HIDE DEF k
<1>4. regions[k + 1] = "vram"
  BY <1>3
<1> QED BY <1>2, <1>4

LEMMA RamRoute ==
  ASSUME NEW p \in 192 .. 223, NEW o \in 0 .. 159
  PROVE  Route(Source(p, o)) = "ram"
<1> DEFINE a == Source(p, o)
           k == a \div 8192
           regions == <<"cart", "cart", "cart", "cart", "vram", "cart", "ram">>
<1>1. a # 65360 /\ a < 57344
  BY DEF Source
<1>2. Route(a) = regions[k + 1]
  BY <1>1 DEF Route
<1>3. k = 6
  BY DEF Source
<1> HIDE DEF k
<1>4. regions[k + 1] = "ram"
  BY <1>3
<1> QED BY <1>2, <1>4

(* What the DMA reads is a byte. *)
LEMMA DmaReadByte ==
  ASSUME TypeOK, NEW o \in Offsets
  PROVE  DmaRead(Source(mStart, o)) \in Byte
<1> DEFINE a == Source(mStart, o)
<1>1. mStart \in 0 .. 255 /\ o \in 0 .. 159
  BY OffsetsAssumption DEF TypeOK, Byte
<1>2. OffsetOf(a) = o
  BY <1>1, SMTT(30) DEF Source, OffsetOf
<1> HIDE DEF a
<1>3. 0 \in Byte /\ 255 \in Byte
  BY DEF Byte
<1>4. CartRead(dmaCart, a) \in Byte
  <2>1. \A b \in Banks : Rom[b][o] \in Byte
    BY RomAssumption
  <2>2. (IF a < 16384 THEN 0 ELSE bank) \in Banks
    BY RomAssumption DEF TypeOK
  <2> QED BY <2>1, <2>2, <1>2, <1>3 DEF CartRead
<1>5. VramRead(a) \in Byte /\ RamRead(a) \in Byte
  BY <1>3 DEF VramRead, RamRead, TypeOK
<1> QED BY <1>4, <1>5 DEF DmaRead, a
-----------------------------------------------------------------------------
(* The invariant *)

THEOREM InitIInv == Init => IInv
<1> SUFFICES ASSUME Init PROVE IInv
  OBVIOUS
<1>1. 0 \in Byte
  BY DEF Byte
<1>2. TypeOK
  <2>1. /\ mVRAM \in [VramAddrs -> Byte] /\ mOAM \in [Offsets -> Byte] /\ mRam \in [RamAddrs -> Byte]
        /\ mStart \in Byte
    BY <1>1 DEF Init
  <2>2. cycles \in Nat /\ MODE \in 0 .. 3 /\ mCycles \in 0 .. Delay /\ age \in 0 .. Delay
    BY DelayAssumption DEF Init
  <2>3. /\ at = "cpu" /\ mCart = "none" /\ mapped = "none" /\ dmaCart = "none" /\ bank \in Banks
        /\ mBootromEnabled \in BOOLEAN /\ mEnabled = FALSE /\ mActive = FALSE
        /\ mRestarted = FALSE /\ mOAMDMAInProgress = FALSE /\ undefined = FALSE /\ intruded = {}
    BY DEF Init
  <2> QED BY <2>1, <2>2, <2>3 DEF TypeOK
<1>3. CartsAgree /\ SafeWithCart /\ DmaFollowed /\ IntrusionsOverwritten
  BY DEF Init, CartsAgree, SafeWithCart, DmaFollowed, IntrusionsOverwritten
<1> QED BY <1>2, <1>3 DEF IInv

(* One access of the CPU. *)
LEMMA WritesKeep ==
  ASSUME IInv, Write
  PROVE  IInv'
<1> USE DEF IInv
<1>1. UNCHANGED round /\ UNCHANGED undefined
  BY DEF Write
<1>2. PICK a \in Addrs :
        \/ WriteBootrom(a) \/ WriteCart(a)
        \/ \E v \in Values : WriteVram(a, v) \/ WriteRam(a, v) \/ WriteOam(a, v)
        \/ \E on \in BOOLEAN : WriteLcdc(a, on)
        \/ \E page \in Pages : WriteDma(a, page)
  BY DEF Write
<1>3. CASE WriteBootrom(a)
  <2>1. TypeOK'
    BY <1>1, <1>3, ZenonT(60) DEF TypeOK, WriteBootrom, round, carts, screen, oam, dma
  <2> QED BY <1>1, <1>3, <2>1
    DEF WriteBootrom, carts, oam, dma, CartsAgree, SafeWithCart, DmaFollowed, IntrusionsOverwritten
<1>4. CASE WriteCart(a)
  <2>1. TypeOK'
    BY <1>1, <1>4 DEF TypeOK, WriteCart, round, screen, oam, dma
  <2> QED BY <1>1, <1>4, <2>1
    DEF WriteCart, oam, dma, CartsAgree, SafeWithCart, DmaFollowed, IntrusionsOverwritten
<1>5. ASSUME NEW v \in Values, WriteVram(a, v) PROVE IInv'
  <2>1. v \in Byte
    BY ValuesAssumption
  <2>2. mVRAM' \in [VramAddrs -> Byte]
    BY <1>5, <2>1, MemoryTyped DEF TypeOK, WriteVram
  <2>3. TypeOK'
    BY <1>1, <1>5, <2>2 DEF TypeOK, WriteVram, round, carts, screen, oam, dma
  <2> QED BY <1>1, <1>5, <2>3
    DEF WriteVram, carts, oam, dma, CartsAgree, SafeWithCart, DmaFollowed, IntrusionsOverwritten
<1>6. ASSUME NEW v \in Values, WriteRam(a, v) PROVE IInv'
  <2>1. v \in Byte
    BY ValuesAssumption
  <2>2. mRam' \in [RamAddrs -> Byte]
    BY <1>6, <2>1, MemoryTyped DEF TypeOK, WriteRam
  <2>3. TypeOK'
    BY <1>1, <1>6, <2>2 DEF TypeOK, WriteRam, round, carts, screen, oam, dma
  <2> QED BY <1>1, <1>6, <2>3
    DEF WriteRam, carts, oam, dma, CartsAgree, SafeWithCart, DmaFollowed, IntrusionsOverwritten
<1>7. ASSUME NEW v \in Values, WriteOam(a, v) PROVE IInv'
  <2>1. v \in Byte /\ OffsetOf(a) \in Offsets
    BY ValuesAssumption, <1>7 DEF WriteOam
  <2>2. mOAM' \in [Offsets -> Byte] /\ intruded' \subseteq Offsets
    BY <1>7, <2>1, MemoryTyped DEF TypeOK, WriteOam, oam
  <2>3. TypeOK'
    BY <1>1, <1>7, <2>2 DEF TypeOK, WriteOam, round, carts, screen, dma
  <2>4. IntrusionsOverwritten'
    BY <1>7 DEF WriteOam, oam, dma, DmaFollowed, IntrusionsOverwritten
  <2> QED BY <1>1, <1>7, <2>3, <2>4 DEF WriteOam, carts, dma, CartsAgree, SafeWithCart, DmaFollowed
<1>8. ASSUME NEW on \in BOOLEAN, WriteLcdc(a, on) PROVE IInv'
  <2>1. TypeOK'
    BY <1>1, <1>8 DEF TypeOK, WriteLcdc, round, carts, oam, dma
  <2> QED BY <1>1, <1>8, <2>1
    DEF WriteLcdc, carts, oam, dma, CartsAgree, SafeWithCart, DmaFollowed, IntrusionsOverwritten
<1>9. ASSUME NEW page \in Pages, WriteDma(a, page) PROVE IInv'
  <2>1. page \in Byte /\ Delay \in 0 .. Delay /\ 0 \in 0 .. Delay
    BY PagesAssumption, DelayAssumption
  <2>2. TypeOK'
    BY <1>1, <1>9, <2>1 DEF TypeOK, WriteDma, round, carts, screen, oam
  <2>3. DmaFollowed'
    <3>1. mOAMDMAInProgress' = mActive' /\ (mRestarted' => mActive')
      BY <1>9 DEF WriteDma
    <3>2. mActive' /\ ~mRestarted' => age' = 0 /\ mCycles' = Delay
      BY <1>9 DEF WriteDma
    <3>3. 0 = Delay - Delay
      BY DelayAssumption
    <3> QED BY <3>1, <3>2, <3>3 DEF DmaFollowed
  <2> QED BY <1>1, <1>9, <2>2, <2>3
    DEF WriteDma, carts, oam, CartsAgree, SafeWithCart, IntrusionsOverwritten
<1> QED BY <1>2, <1>3, <1>4, <1>5, <1>6, <1>7, <1>8, <1>9

(* A tick of the DMA that only counts. *)
LEMMA WaitKeeps ==
  ASSUME IInv, DmaWaits
  PROVE  IInv'
<1> USE DEF IInv
<1>1. mCycles' \in 0 .. Delay /\ age' \in 0 .. Delay
  BY DelayAssumption DEF TypeOK, DmaWaits, Remaining, Later
<1>2. TypeOK'
  BY <1>1 DEF TypeOK, DmaWaits, carts, screen, oam
<1>3. mActive /\ ~mRestarted => age' = Delay - mCycles'
  <2> SUFFICES ASSUME mActive, ~mRestarted PROVE age' = Delay - mCycles'
    OBVIOUS
  <2>1. age = Delay - mCycles /\ mCycles \in 0 .. Delay /\ cycles \in Nat /\ cycles < mCycles
    BY DEF DmaWaits, DmaFollowed, TypeOK
  <2>2. mCycles' = mCycles - cycles /\ age' = Later(age + cycles)
    BY DEF DmaWaits, Remaining
  <2> QED BY <2>1, <2>2, DelayAssumption DEF Later
<1>4. DmaFollowed'
  BY <1>3 DEF DmaWaits, DmaFollowed
<1> QED BY <1>2, <1>4 DEF DmaWaits, carts, oam, CartsAgree, SafeWithCart, IntrusionsOverwritten

(* The tick that copies. *)
LEMMA CopyKeeps ==
  ASSUME IInv, DmaCopies
  PROVE  IInv'
<1> USE DEF IInv
<1>1. \A o \in Offsets : DmaRead(Source(mStart, o)) \in Byte
  BY DmaReadByte
<1>2. mOAM' \in [Offsets -> Byte]
  BY <1>1 DEF DmaCopies, CopiedOffsets, Source
<1>3. intruded' = {}
  BY DEF DmaCopies, CopiedOffsets, TypeOK
<1>4. 0 \in 0 .. Delay
  BY DelayAssumption
<1>5. TypeOK'
  BY <1>2, <1>3, <1>4 DEF TypeOK, DmaCopies, InProgressAfter, carts, screen
<1> QED BY <1>3, <1>5
  DEF DmaCopies, InProgressAfter, carts, CartsAgree, SafeWithCart, DmaFollowed, IntrusionsOverwritten

(* Loads, the uses of a cartridge that is gone, and the other ticks. *)
LEMMA OthersKeep ==
  ASSUME IInv, UseDeleted \/ LoadCart \/ LoadFails \/ CpuDone \/ DmaUsesDeleted \/ PpuTick
  PROVE  IInv'
<1> USE DEF IInv
<1>1. CASE UseDeleted
  <2>1. TypeOK'
    BY <1>1 DEF TypeOK, UseDeleted, round, carts, screen, oam, dma
  <2> QED BY <1>1, <2>1
    DEF UseDeleted, carts, oam, dma, CartsAgree, SafeWithCart, DmaFollowed, IntrusionsOverwritten
<1>2. CASE LoadCart
  <2>1. TypeOK'
    BY <1>2 DEF TypeOK, LoadCart, DmaCartAfter, round, screen, oam, dma
  <2> QED BY <1>2, <2>1
    DEF LoadCart, DmaCartAfter, Cpu, oam, dma, CartsAgree, SafeWithCart, DmaFollowed,
        IntrusionsOverwritten
<1>3. CASE LoadFails
  <2>1. TypeOK'
    BY <1>3 DEF TypeOK, LoadFails, Deleted, round, screen, oam, dma
  <2> QED BY <1>3, <2>1
    DEF LoadFails, Deleted, oam, dma, CartsAgree, SafeWithCart, DmaFollowed, IntrusionsOverwritten
<1>4. CASE CpuDone
  <2>1. cycles' \in Nat
    BY <1>4, TickLensAssumption DEF CpuDone
  <2>2. TypeOK'
    BY <1>4, <2>1 DEF TypeOK, CpuDone, carts, screen, oam, dma
  <2> QED BY <1>4, <2>2
    DEF CpuDone, carts, oam, dma, CartsAgree, SafeWithCart, DmaFollowed, IntrusionsOverwritten
<1>5. CASE DmaUsesDeleted
  <2>1. TypeOK'
    BY <1>5 DEF TypeOK, DmaUsesDeleted, round, carts, screen, oam, dma
  <2> QED BY <1>5, <2>1
    DEF DmaUsesDeleted, carts, oam, dma, CartsAgree, SafeWithCart, DmaFollowed, IntrusionsOverwritten
<1>6. CASE PpuTick
  <2>1. MODE' \in 0 .. 3
    BY <1>6 DEF TypeOK, PpuTick, Following
  <2>2. TypeOK'
    BY <1>6, <2>1 DEF TypeOK, PpuTick, carts, oam, dma
  <2> QED BY <1>6, <2>2
    DEF PpuTick, carts, oam, dma, CartsAgree, SafeWithCart, DmaFollowed, IntrusionsOverwritten
<1> QED BY <1>1, <1>2, <1>3, <1>4, <1>5, <1>6

LEMMA StutterKeeps ==
  ASSUME IInv, UNCHANGED vars
  PROVE  IInv'
<1>1. TypeOK'
  BY DEF IInv, TypeOK, vars, round, carts, screen, oam, dma
<1> QED BY <1>1
  DEF IInv, vars, carts, oam, dma, CartsAgree, SafeWithCart, DmaFollowed, IntrusionsOverwritten

(* Types, the cartridge pointers, the DMA's bookkeeping and what the       *)
(* program wrote to OAM under its cover stay in order together.            *)
THEOREM Invariance == Spec => []IInv
<1>1. IInv /\ [Next]_vars => IInv'
  BY WritesKeep, WaitKeeps, CopyKeeps, OthersKeep, StutterKeeps DEF Next, Round
<1> QED BY <1>1, InitIInv, PTL DEF Spec

(* Boldboy::loadCart: after a load that succeeded neither the memory map   *)
(* nor the DMA ever uses a deleted cartridge.                              *)
THEOREM SafeWithCartHolds == Spec => []SafeWithCart
<1>1. IInv => SafeWithCart
  BY DEF IInv
<1> QED BY <1>1, Invariance, PTL

(* OAMDMA::isActive: OAM stays blocked through every restart, and only     *)
(* while a transfer is under way.                                          *)
THEOREM OamBlockedHolds == Spec => []OamBlocked
<1>1. IInv => OamBlocked
  BY DelayAssumption DEF IInv, TypeOK, DmaFollowed, OamBlocked, IsActive
<1> QED BY <1>1, Invariance, PTL

(* Ppu::writeAddr: a byte written to OAM while the PPU draws from it is    *)
(* overwritten by the DMA that let it pass.                                *)
THEOREM IntrusionsOverwrittenHolds == Spec => []IntrusionsOverwritten
<1>1. IInv => IntrusionsOverwritten
  BY DEF IInv
<1> QED BY <1>1, Invariance, PTL

(* OAMDMA::tick: the copy is what the program would have read through the  *)
(* memory map at that moment, for every ROM, memory, bank and mode.        *)
THEOREM DmaReadsAsCpuHolds == Spec => DmaReadsAsCpu
<1> DEFINE Read == DmaCopies /\ (mStart < 160 \/ mStart \in 192 .. 223)
                      /\ ~Overlaid(256 * mStart) =>
                     \A o \in Offsets : mOAM'[o] = CpuRead((256 * mStart) + o)
<1>1. IInv => Read
  <2> SUFFICES ASSUME IInv, DmaCopies, mStart < 160 \/ mStart \in 192 .. 223,
                      ~Overlaid(256 * mStart), NEW o \in Offsets
               PROVE  mOAM'[o] = CpuRead((256 * mStart) + o)
    OBVIOUS
  <2> DEFINE a == Source(mStart, o)
  <2>1. mStart \in 0 .. 255 /\ o \in 0 .. 159
    BY OffsetsAssumption DEF IInv, TypeOK, Byte
  <2>2. mOAM'[o] = DmaRead(a)
    BY DEF DmaCopies, CopiedOffsets, Source
  <2>3. dmaCart = mapped
    BY DEF IInv, CartsAgree
  <2>0. ~Overlaid(a)
    BY <2>1 DEF Overlaid, Source
  <2>4. CASE mStart \in 0 .. 127
    <3>1. Route(a) = "cart"
      BY <2>1, <2>4, CartRoute
    <3>2. DmaRead(a) = CartRead(dmaCart, a)
      BY <2>4 DEF DmaRead, DmaFromCart
    <3>3. CpuRead(a) = CartRead(mapped, a)
      BY <2>0, <3>1 DEF CpuRead
    <3> QED BY <2>2, <2>3, <3>2, <3>3 DEF Source
  <2>5. CASE mStart \in 128 .. 159
    <3>1. Route(a) = "vram"
      BY <2>1, <2>5, VramRoute
    <3>2. DmaRead(a) = VramRead(a)
      BY <2>5 DEF DmaRead, DmaFromCart
    <3>3. CpuRead(a) = VramRead(a)
      BY <2>0, <3>1 DEF CpuRead
    <3> QED BY <2>2, <3>2, <3>3 DEF Source
  <2>6. CASE mStart \in 192 .. 223
    <3>1. Route(a) = "ram"
      BY <2>1, <2>6, RamRoute
    <3>2. DmaRead(a) = RamRead(a)
      BY <2>6 DEF DmaRead, DmaFromCart
    <3>3. CpuRead(a) = RamRead(a)
      BY <2>0, <3>1 DEF CpuRead
    <3> QED BY <2>2, <3>2, <3>3 DEF Source
  <2>7. mStart \in 0 .. 127 \/ mStart \in 128 .. 159 \/ mStart \in 192 .. 223
    BY <2>1
  <2> QED BY <2>4, <2>5, <2>6, <2>7
<1>2. IInv /\ [Next]_vars => [Read]_vars
  BY <1>1
<1> QED BY <1>2, Invariance, PTL DEF Spec, DmaReadsAsCpu
-----------------------------------------------------------------------------
(* The front end                                                           *)

(* An event for the worker thread: of a button, or a frame asked for.      *)
KeyName == Button \cup {"timer", "F"}
Event == [to : Nat, call : {"draw", "key"}, key : KeyName, pressed : BOOLEAN]

(* Event e is one of button k for worker w.                                *)
Meant(e, w, k) == e.call = "key" /\ e.to = w /\ e.key = k

(* Where the events of q that are of button k for worker w stand.          *)
Meeting(q, w, k) == {i \in DOMAIN q : Meant(q[i], w, k)}

(* Whether button k of worker w will be down once the events of q are      *)
(* served, when it is now if down holds.                                   *)
Down(q, w, k, down) ==
  IF Meeting(q, w, k) = {} THEN down
  ELSE \E i \in Meeting(q, w, k) : q[i].pressed /\ \A j \in Meeting(q, w, k) : j <= i

(* Events posted behind those of q stand behind them.                      *)
LEMMA ConcatMeeting ==
  ASSUME NEW q \in Seq(Event), NEW r \in Seq(Event), NEW w, NEW k
  PROVE  Meeting(q \o r, w, k) = Meeting(q, w, k) \cup {Len(q) + j : j \in Meeting(r, w, k)}
<1> DEFINE s == q \o r
           m == Len(q)
           n == Len(r)
<1>1. /\ m \in Nat /\ n \in Nat /\ DOMAIN q = 1 .. m /\ DOMAIN r = 1 .. n /\ DOMAIN s = 1 .. m + n
      /\ \A i \in 1 .. m : s[i] = q[i]
      /\ \A j \in 1 .. n : s[m + j] = r[j]
  OBVIOUS
<1> HIDE DEF s, m, n
<1>2. ASSUME NEW i \in Meeting(s, w, k)
      PROVE  i \in Meeting(q, w, k) \/ \E j \in Meeting(r, w, k) : i = m + j
  <2>1. i \in 1 .. m + n /\ Meant(s[i], w, k)
    BY <1>1 DEF Meeting
  <2>2. CASE i <= m
    <3>1. i \in 1 .. m
      BY <1>1, <2>1, <2>2
    <3> QED
      BY <1>1, <2>1, <3>1 DEF Meeting
  <2>3. CASE ~(i <= m)
    <3> DEFINE j == i - m
    <3>1. j \in 1 .. n /\ i = m + j
      BY <1>1, <2>1, <2>3
    <3> HIDE DEF j
    <3>2. s[i] = r[j]
      BY <1>1, <3>1
    <3>3. j \in Meeting(r, w, k)
      BY <1>1, <2>1, <3>1, <3>2 DEF Meeting
    <3> QED
      BY <3>1, <3>3
  <2> QED
    BY <2>2, <2>3
<1>3. ASSUME NEW i \in Meeting(q, w, k) PROVE i \in Meeting(s, w, k)
  <2>1. i \in 1 .. m /\ Meant(q[i], w, k)
    BY <1>1 DEF Meeting
  <2>2. i \in 1 .. m + n /\ s[i] = q[i]
    BY <1>1, <2>1
  <2> QED
    BY <1>1, <2>1, <2>2 DEF Meeting
<1>4. ASSUME NEW j \in Meeting(r, w, k) PROVE m + j \in Meeting(s, w, k)
  <2>1. j \in 1 .. n /\ Meant(r[j], w, k)
    BY <1>1 DEF Meeting
  <2>2. m + j \in 1 .. m + n /\ s[m + j] = r[j]
    BY <1>1, <2>1
  <2> QED
    BY <1>1, <2>1, <2>2 DEF Meeting
<1> QED
  BY <1>2, <1>3, <1>4 DEF s, m

(* Events posted behind the others decide, or leave the button alone.      *)
LEMMA ConcatDown ==
  ASSUME NEW q \in Seq(Event), NEW r \in Seq(Event), NEW w, NEW k, NEW down
  PROVE  /\ Meeting(r, w, k) = {} => Down(q \o r, w, k, down) = Down(q, w, k, down)
         /\ \A j \in DOMAIN r : Meeting(r, w, k) = {j} => Down(q \o r, w, k, down) = r[j].pressed
<1> DEFINE s == q \o r
           m == Len(q)
           M == Meeting(s, w, k)
           P == Meeting(q, w, k)
           R == Meeting(r, w, k)
<1>1. /\ m \in Nat /\ DOMAIN q = 1 .. m /\ Len(r) \in Nat /\ DOMAIN r = 1 .. Len(r)
      /\ \A i \in 1 .. m : s[i] = q[i]
      /\ \A j \in DOMAIN r : s[m + j] = r[j]
      /\ \A j \in DOMAIN r : r[j].pressed \in BOOLEAN
  <2>1. /\ m \in Nat /\ DOMAIN q = 1 .. m /\ Len(r) \in Nat /\ DOMAIN r = 1 .. Len(r)
        /\ \A i \in 1 .. m : s[i] = q[i]
        /\ \A j \in DOMAIN r : s[m + j] = r[j]
    OBVIOUS
  <2>2. \A j \in DOMAIN r : r[j] \in Event
    OBVIOUS
  <2> HIDE DEF s, m
  <2> QED
    BY <2>1, <2>2 DEF Event
<1>2. M = P \cup {m + j : j \in R}
  BY ConcatMeeting
<1>3. P \subseteq 1 .. m
  BY <1>1 DEF Meeting
<1>4. Down(s, w, k, down) = IF M = {} THEN down ELSE \E i \in M : s[i].pressed /\ \A j \in M : j <= i
  BY DEF Down
<1>5. Down(q, w, k, down) = IF P = {} THEN down ELSE \E i \in P : q[i].pressed /\ \A j \in P : j <= i
  BY DEF Down
<1> HIDE DEF s, m, M, P, R
<1>6. CASE R = {}
  <2>1. M = P
    BY <1>2, <1>6
  <2>2. (\E i \in M : s[i].pressed /\ \A j \in M : j <= i) = (\E i \in P : q[i].pressed /\ \A j \in P : j <= i)
    BY <1>1, <1>3, <2>1
  <2> DEFINE a == \E i \in M : s[i].pressed /\ \A j \in M : j <= i
             b == \E i \in P : q[i].pressed /\ \A j \in P : j <= i
  <2>4. a = b /\ Down(s, w, k, down) = (IF M = {} THEN down ELSE a)
        /\ Down(q, w, k, down) = (IF P = {} THEN down ELSE b)
    BY <1>4, <1>5, <2>2, Zenon
  <2> HIDE DEF a, b
  <2>3. Down(s, w, k, down) = Down(q, w, k, down)
    <3>1. CASE P = {}
      BY <2>1, <2>4, <3>1
    <3>2. CASE P # {}
      BY <2>1, <2>4, <3>2
    <3> QED
      BY <3>1, <3>2
  <2> QED
    BY <1>6, <2>3 DEF s, R
<1>7. ASSUME NEW j \in DOMAIN r, R = {j} PROVE Down(s, w, k, down) = r[j].pressed
  <2> DEFINE l == m + j
  <2>1. M = P \cup {l}
    BY <1>2, <1>7
  <2>2. s[l] = r[j] /\ l \in Nat /\ \A i \in P : i \in Nat /\ i < l
    BY <1>1, <1>3
  <2> HIDE DEF l
  <2>3. (\E i \in M : s[i].pressed /\ \A h \in M : h <= i) = s[l].pressed
    <3>1. ASSUME NEW i \in M, s[i].pressed, \A h \in M : h <= i PROVE s[l].pressed
      <4>1. l <= i /\ (i = l \/ i \in P)
        BY <2>1, <3>1
      <4>2. i = l
        BY <2>2, <4>1
      <4> QED
        BY <3>1, <4>2
    <3>2. ASSUME s[l].pressed PROVE \E i \in M : s[i].pressed /\ \A h \in M : h <= i
      <4>1. l \in M /\ \A h \in M : h <= l
        BY <2>1, <2>2
      <4> QED
        BY <3>2, <4>1
    <3>3. s[l].pressed \in BOOLEAN
      BY <1>1, <2>2
    <3> QED
      BY <3>1, <3>2, <3>3
  <2> QED
    BY <1>4, <2>1, <2>2, <2>3
<1> QED
  BY <1>6, <1>7 DEF s, R

(* The event served first decides, unless a later one does.                *)
LEMMA TailDown ==
  ASSUME NEW q \in Seq(Event), q # <<>>, NEW w, NEW k, NEW down \in BOOLEAN
  PROVE  Down(q, w, k, down)
           = Down(Tail(q), w, k, IF Meant(Head(q), w, k) THEN Head(q).pressed ELSE down)
<1> DEFINE t == Tail(q)
           n == Len(q)
           M == Meeting(q, w, k)
           T == Meeting(t, w, k)
           h == Meant(Head(q), w, k)
           d == IF h THEN Head(q).pressed ELSE down
<1>1. /\ n \in Nat \ {0} /\ DOMAIN q = 1 .. n /\ DOMAIN t = 1 .. n - 1
      /\ \A i \in 1 .. n - 1 : t[i] = q[i + 1]
      /\ Head(q) = q[1]
  OBVIOUS
<1>2. Head(q).pressed \in BOOLEAN
  <2>1. Head(q) \in Event
    OBVIOUS
  <2> QED
    BY <2>1 DEF Event
<1> HIDE DEF t, n
<1>3. \A i \in Nat : i \in T <=> i + 1 \in M /\ i >= 1
  BY <1>1 DEF Meeting
<1>4. M \subseteq Nat /\ T \subseteq Nat /\ (\A i \in M : i >= 1) /\ (1 \in M <=> h)
  BY <1>1 DEF Meeting
<1>5. \A i \in T : t[i] = q[i + 1]
  BY <1>1 DEF Meeting
<1>6. Down(q, w, k, down) = IF M = {} THEN down ELSE \E i \in M : q[i].pressed /\ \A j \in M : j <= i
  BY DEF Down
<1>7. Down(t, w, k, d) = IF T = {} THEN d ELSE \E i \in T : t[i].pressed /\ \A j \in T : j <= i
  BY DEF Down
<1> HIDE DEF M, T, h
<1>8. CASE T = {}
  <2>1. M \subseteq {1}
    <3>1. ASSUME NEW i \in M, i # 1 PROVE FALSE
      <4>1. i - 1 \in Nat /\ i - 1 >= 1 /\ (i - 1) + 1 = i
        BY <1>4, <3>1
      <4> QED
        BY <1>3, <1>8, <4>1
    <3> QED
      BY <3>1
  <2>2. CASE h
    <3>1. M = {1}
      BY <1>4, <2>1, <2>2
    <3>2. (\E i \in M : q[i].pressed /\ \A j \in M : j <= i) = Head(q).pressed
      <4>1. q[1] = Head(q) /\ \A i \in M : i = 1 /\ \A j \in M : j <= i
        BY <1>1, <3>1
      <4>2. (\E i \in M : q[i].pressed /\ \A j \in M : j <= i) <=> Head(q).pressed
        BY <3>1, <4>1
      <4> QED
        BY <1>2, <4>2
    <3>3. Down(q, w, k, down) = Head(q).pressed
      BY <1>6, <3>1, <3>2
    <3> QED
      BY <1>7, <1>8, <2>2, <3>3 DEF t, h
  <2>3. CASE ~h
    <3>1. M = {}
      BY <1>4, <2>1, <2>3
    <3> QED
      BY <1>6, <1>7, <1>8, <2>3, <3>1 DEF t, h
  <2> QED
    BY <2>2, <2>3
<1>9. CASE T # {}
  <2> DEFINE a == \E i \in M : q[i].pressed /\ \A j \in M : j <= i
             b == \E i \in T : t[i].pressed /\ \A j \in T : j <= i
  <2>1. M # {}
    BY <1>3, <1>4, <1>9
  <2>2. ASSUME NEW i \in T, t[i].pressed, \A j \in T : j <= i PROVE a
    <3>1. i + 1 \in M /\ q[i + 1].pressed
      BY <1>3, <1>4, <1>5, <2>2
    <3>2. ASSUME NEW j \in M PROVE j <= i + 1
      <4>1. CASE j = 1
        BY <1>4, <4>1
      <4>2. CASE j # 1
        <5>1. j - 1 \in Nat /\ j - 1 >= 1 /\ (j - 1) + 1 = j
          BY <1>4, <4>2
        <5>2. j - 1 \in T
          BY <1>3, <5>1
        <5> QED
          BY <1>4, <2>2, <5>1, <5>2
      <4> QED
        BY <4>1, <4>2
    <3> QED
      BY <3>1, <3>2
  <2>3. ASSUME NEW i \in M, q[i].pressed, \A j \in M : j <= i PROVE b
    <3>1. i # 1
      <4>1. PICK j \in T : TRUE
        BY <1>9
      <4>2. j + 1 \in M /\ j >= 1
        BY <1>3, <1>4
      <4> QED
        BY <1>4, <2>3, <4>2
    <3>2. i - 1 \in Nat /\ i - 1 >= 1 /\ (i - 1) + 1 = i
      BY <1>4, <3>1
    <3>3. i - 1 \in T /\ t[i - 1].pressed
      BY <1>3, <1>5, <2>3, <3>2
    <3>4. ASSUME NEW j \in T PROVE j <= i - 1
      <4>1. j + 1 \in M
        BY <1>3, <1>4
      <4> QED
        BY <1>4, <2>3, <4>1
    <3> QED
      BY <3>3, <3>4
  <2>4. a = b
    BY <2>2, <2>3
  <2>5. Down(q, w, k, down) = a /\ Down(t, w, k, d) = b
    BY <1>6, <1>7, <1>9, <2>1
  <2> QED
    BY <2>4, <2>5 DEF t, h
<1> QED
  BY <1>8, <1>9

(* An emulator, as far as the front end knows it.                          *)
WorkerState == [lit : BOOLEAN, mMask : SUBSET KeyName]

(* The keys held since the ROM was opened are those that will be down in   *)
(* its mask.                                                               *)
KeysArrive ==
  \A w \in DOMAIN workers, k \in Button : Down(queue, w, k, k \in workers[w].mMask) = (k \in heldBy[w])

(* The inductive invariant: every event is for a ROM that was opened.      *)
PadInv ==
  /\ queue \in Seq(Event) /\ \A i \in DOMAIN queue : queue[i].to \in DOMAIN workers
  /\ workers \in Seq(WorkerState)
  /\ heldBy \in Seq(SUBSET Keys) /\ Len(heldBy) = Len(workers)
  /\ KeysArrive

(* A function on 1 .. n is a sequence of length n.                         *)
LEMMA FunctionIsSeq ==
  ASSUME NEW S, NEW n \in Nat, NEW F \in [1 .. n -> S]
  PROVE  F \in Seq(S) /\ Len(F) = n
<1>1. F \in Seq(S)
  OBVIOUS
<1>2. Len(F) \in Nat /\ DOMAIN F = 1 .. Len(F) /\ DOMAIN F = 1 .. n
  BY <1>1
<1> QED
  BY <1>1, <1>2

(* No ROM is opened and nothing is under way.                              *)
LEMMA InitPad == FrontEndInit => PadInv
<1> SUFFICES ASSUME FrontEndInit PROVE PadInv
  OBVIOUS
<1>1. queue = <<>> /\ workers = <<>> /\ heldBy = <<>>
  BY DEF FrontEndInit
<1>2. DOMAIN <<>> = {} /\ <<>> \in Seq(Event) /\ <<>> \in Seq(WorkerState) /\ <<>> \in Seq(SUBSET Keys)
  OBVIOUS
<1> QED
  BY <1>1, <1>2 DEF PadInv, KeysArrive

(* Events behind the others: to workers that exist, of the keys as held.   *)
LEMMA PostedPad ==
  ASSUME PadInv, NEW r \in Seq(Event), \A j \in DOMAIN r : r[j].to \in DOMAIN workers,
         queue' = queue \o r, workers' = workers, heldBy' \in Seq(SUBSET Keys), Len(heldBy') = Len(workers),
         \A w \in DOMAIN workers, k \in Button :
           \/ Meeting(r, w, k) = {} /\ (k \in heldBy[w]) = (k \in heldBy'[w])
           \/ \E j \in DOMAIN r : Meeting(r, w, k) = {j} /\ r[j].pressed = (k \in heldBy'[w])
  PROVE  PadInv'
<1>1. queue \in Seq(Event) /\ \A i \in DOMAIN queue : queue[i].to \in DOMAIN workers
  BY DEF PadInv
<1>2. queue' \in Seq(Event)
  BY <1>1
<1>3. \A i \in DOMAIN queue' : queue'[i].to \in DOMAIN workers
  <2> TAKE i \in DOMAIN queue'
  <2>1. /\ Len(queue) \in Nat /\ Len(r) \in Nat /\ i \in 1 .. Len(queue) + Len(r)
        /\ DOMAIN queue = 1 .. Len(queue) /\ DOMAIN r = 1 .. Len(r)
    BY <1>1
  <2>2. CASE i <= Len(queue)
    <3>1. queue'[i] = queue[i] /\ i \in DOMAIN queue
      BY <1>1, <2>1, <2>2
    <3> QED
      BY <1>1, <3>1
  <2>3. CASE ~(i <= Len(queue))
    <3>1. queue'[i] = r[i - Len(queue)] /\ i - Len(queue) \in DOMAIN r
      BY <1>1, <2>1, <2>3
    <3> QED
      BY <3>1
  <2> QED
    BY <2>2, <2>3
<1>4. ASSUME NEW w \in DOMAIN workers, NEW k \in Button
      PROVE  Down(queue', w, k, k \in workers[w].mMask) = (k \in heldBy'[w])
  <2> DEFINE down == k \in workers[w].mMask
  <2>1. Down(queue, w, k, down) = (k \in heldBy[w])
    BY DEF PadInv, KeysArrive
  <2> HIDE DEF down
  <2>2. CASE Meeting(r, w, k) = {} /\ (k \in heldBy[w]) = (k \in heldBy'[w])
    <3>1. Down(queue \o r, w, k, down) = Down(queue, w, k, down)
      BY <1>1, <2>2, ConcatDown, SMTT(20)
    <3> QED
      BY <2>1, <2>2, <3>1 DEF down
  <2>3. ASSUME NEW j \in DOMAIN r, Meeting(r, w, k) = {j}, r[j].pressed = (k \in heldBy'[w])
        PROVE  Down(queue', w, k, down) = (k \in heldBy'[w])
    <3>1. Down(queue \o r, w, k, down) = r[j].pressed
      BY <1>1, <2>3, ConcatDown, SMTT(20)
    <3> QED
      BY <2>3, <3>1
  <2> QED
    BY <2>2, <2>3 DEF down
<1> QED
  BY <1>2, <1>3, <1>4 DEF PadInv, KeysArrive

(* A frame asked for is of no button.                                      *)
LEMMA DrawsPad ==
  ASSUME PadInv, NEW r \in Seq(Event), \A j \in DOMAIN r : r[j].to \in DOMAIN workers /\ r[j].call = "draw",
         queue' = queue \o r, workers' = workers, heldBy' = heldBy
  PROVE  PadInv'
<1>1. \A w, k : Meeting(r, w, k) = {}
  BY DEF Meeting, Meant
<1>2. heldBy' \in Seq(SUBSET Keys) /\ Len(heldBy') = Len(workers)
  BY DEF PadInv
<1> QED
  BY <1>1, <1>2, PostedPad

(* The ROMs opened are numbered in the order they were.                    *)
LEMMA OpenedAre ==
  ASSUME PadInv
  PROVE  Len(workers) \in Nat /\ Opened = 1 .. Len(workers) /\ DOMAIN workers = Opened /\ DOMAIN heldBy = Opened
BY DEF PadInv, Opened

(* A key pressed or released reaches every ROM opened.                     *)
LEMMA KeyEventPad ==
  ASSUME PadInv, NEW k \in Keys, NEW pressed \in BOOLEAN, KeyEvent(k, pressed)
  PROVE  PadInv'
<1> DEFINE n == Len(workers)
           r == [w \in Opened |-> Key(w, k, pressed)]
           h == [w \in Opened |-> IF pressed THEN heldBy[w] \cup {k} ELSE heldBy[w] \ {k}]
<1>1. queue' = queue \o r /\ heldBy' = h /\ workers' = workers
  BY DEF KeyEvent, Emit
<1>2. n \in Nat /\ Opened = 1 .. n /\ DOMAIN workers = Opened /\ k \in Button
  BY OpenedAre, KeysAssumption
<1>3. \A w \in Opened : heldBy[w] \in SUBSET Keys
  BY OpenedAre DEF PadInv
<1>4. r \in Seq(Event) /\ Len(r) = n /\ DOMAIN r = Opened
  <2>1. \A w \in Opened : Key(w, k, pressed) \in Event
    BY <1>2 DEF Key, Event, KeyName
  <2>2. r \in [1 .. n -> Event]
    BY <1>2, <2>1
  <2> HIDE DEF r, n
  <2>3. r \in Seq(Event) /\ Len(r) = n
    BY <1>2, <2>2, FunctionIsSeq
  <2> QED
    BY <1>2, <2>2, <2>3
<1>5. h \in Seq(SUBSET Keys) /\ Len(h) = n
  <2>1. \A w \in Opened : (IF pressed THEN heldBy[w] \cup {k} ELSE heldBy[w] \ {k}) \in SUBSET Keys
    BY <1>3
  <2>2. h \in [1 .. n -> SUBSET Keys]
    BY <1>2, <2>1
  <2> HIDE DEF h, n
  <2> QED
    BY <1>2, <2>2, FunctionIsSeq
<1>6. \A j \in Opened : r[j].to = j /\ r[j].call = "key" /\ r[j].key = k /\ r[j].pressed = pressed
  BY DEF Key
<1>7. ASSUME NEW w \in DOMAIN workers, NEW b \in Button
      PROVE  \/ Meeting(r, w, b) = {} /\ (b \in heldBy[w]) = (b \in h[w])
             \/ \E j \in DOMAIN r : Meeting(r, w, b) = {j} /\ r[j].pressed = (b \in h[w])
  <2>1. h[w] = (IF pressed THEN heldBy[w] \cup {k} ELSE heldBy[w] \ {k}) /\ w \in Opened
    BY <1>2
  <2> HIDE DEF h, r
  <2>2. CASE b = k
    <3>1. Meeting(r, w, b) = {w}
      BY <1>4, <1>6, <2>1, <2>2 DEF Meeting, Meant
    <3>2. r[w].pressed = (b \in h[w])
      <4>1. CASE pressed
        BY <1>6, <2>1, <2>2, <4>1
      <4>2. CASE ~pressed
        BY <1>6, <2>1, <2>2, <4>2
      <4> QED
        BY <4>1, <4>2
    <3> QED
      BY <1>4, <2>1, <3>1, <3>2
  <2>3. CASE b # k
    <3>1. Meeting(r, w, b) = {}
      BY <1>4, <1>6, <2>3 DEF Meeting, Meant
    <3>2. (b \in heldBy[w]) = (b \in h[w])
      BY <2>1, <2>3
    <3> QED
      BY <3>1, <3>2
  <2> QED
    BY <2>2, <2>3
<1> HIDE DEF r, h
<1>8. \A j \in DOMAIN r : r[j].to \in DOMAIN workers
  BY <1>2, <1>4, <1>6
<1> QED
  BY <1>1, <1>4, <1>5, <1>7, <1>8, PostedPad

(* The worker thread serves a key.                                         *)
LEMMA KeyPressedPad == ASSUME PadInv, KeyPressed PROVE PadInv'
<1> DEFINE e == Head(queue)
           t == Tail(queue)
           v == e.to
           mask == workers[v].mMask
           mask2 == IF e.pressed THEN mask \cup {e.key} ELSE mask \ {e.key}
<1>1. queue # <<>> /\ e.call = "key" /\ queue' = t /\ heldBy' = heldBy
  BY DEF KeyPressed, Takes
<1>2. workers' = [workers EXCEPT ![v].mMask = mask2]
  BY DEF KeyPressed, ButtonPressed, ButtonReleased
<1>3. /\ queue \in Seq(Event) /\ t \in Seq(Event) /\ e \in Event /\ v \in DOMAIN workers
      /\ \A i \in DOMAIN t : t[i].to \in DOMAIN workers
  <2>1. queue \in Seq(Event) /\ \A i \in DOMAIN queue : queue[i].to \in DOMAIN workers
    BY DEF PadInv
  <2>2. /\ Len(queue) \in Nat \ {0} /\ DOMAIN queue = 1 .. Len(queue) /\ DOMAIN t = 1 .. Len(queue) - 1
        /\ e = queue[1] /\ \A i \in DOMAIN t : t[i] = queue[i + 1]
        /\ t \in Seq(Event) /\ e \in Event
    BY <1>1, <2>1
  <2>3. 1 \in DOMAIN queue /\ \A i \in DOMAIN t : i + 1 \in DOMAIN queue
    BY <2>2
  <2> HIDE DEF e, t
  <2> QED
    BY <2>1, <2>2, <2>3
<1>4. mask \subseteq KeyName /\ workers[v] \in WorkerState /\ e.pressed \in BOOLEAN /\ e.key \in KeyName
  <2> HIDE DEF e, v
  <2>1. workers \in Seq(WorkerState) /\ v \in DOMAIN workers /\ e \in Event
    BY <1>3 DEF PadInv
  <2>2. workers[v] \in WorkerState
    BY <2>1
  <2> QED
    BY <2>1, <2>2 DEF WorkerState, Event
<1> HIDE DEF e, t, v, mask
<1>5. mask2 \subseteq KeyName
  BY <1>4
<1> HIDE DEF mask2
<1>6. /\ workers' \in Seq(WorkerState) /\ DOMAIN workers' = DOMAIN workers /\ Len(workers') = Len(workers)
      /\ workers'[v].mMask = mask2
      /\ \A w \in DOMAIN workers : w # v => workers'[w] = workers[w]
  <2> DEFINE s == [workers[v] EXCEPT !.mMask = mask2]
  <2>1. s \in WorkerState /\ s.mMask = mask2
    BY <1>4, <1>5 DEF WorkerState
  <2> HIDE DEF s
  <2>2. workers' = [workers EXCEPT ![v] = s]
    BY <1>2 DEF s
  <2>3. workers \in Seq(WorkerState)
    BY DEF PadInv
  <2> QED
    BY <1>3, <2>1, <2>2, <2>3
<1>7. ASSUME NEW w \in DOMAIN workers, NEW k \in Button
      PROVE  Down(t, w, k, k \in workers'[w].mMask) = (k \in heldBy[w])
  <2>1. Down(queue, w, k, k \in workers[w].mMask) = (k \in heldBy[w])
    BY DEF PadInv, KeysArrive
  <2> DEFINE down == k \in workers[w].mMask
             down2 == IF Meant(e, w, k) THEN e.pressed ELSE down
  <2>2. down \in BOOLEAN
    OBVIOUS
  <2> HIDE DEF down
  <2>3. Down(queue, w, k, down) = Down(t, w, k, down2)
    BY <1>1, <1>3, <2>2, TailDown DEF e, t
  <2>4. down2 = (k \in workers'[w].mMask)
    <3>1. CASE w = v
      <4>1. Meant(e, w, k) <=> e.key = k
        BY <1>1, <3>1 DEF Meant, v
      <4>2. workers'[w].mMask = mask2 /\ workers[w].mMask = mask
        BY <1>6, <3>1 DEF mask
      <4> QED
        BY <1>4, <4>1, <4>2 DEF down, mask2
    <3>2. CASE w # v
      <4>1. ~Meant(e, w, k)
        BY <3>2 DEF Meant, v
      <4> QED
        BY <1>6, <3>2, <4>1 DEF down
    <3> QED
      BY <3>1, <3>2
  <2> QED
    BY <2>1, <2>3, <2>4 DEF down
<1> QED
  BY <1>1, <1>3, <1>6, <1>7 DEF PadInv, KeysArrive

(* A ROM is opened: nothing is under way to it.                            *)
LEMMA LoadRomPad == ASSUME PadInv, LoadRom PROVE PadInv'
<1> DEFINE n == Len(workers)
<1>1. PICK lit \in BOOLEAN : workers' = Append(workers, [lit |-> lit, mMask |-> {}])
  BY DEF LoadRom
<1>2. heldBy' = Append(heldBy, {}) /\ queue' = queue
  BY DEF LoadRom
<1>3. /\ workers \in Seq(WorkerState) /\ heldBy \in Seq(SUBSET Keys) /\ Len(heldBy) = n
      /\ \A i \in DOMAIN queue : queue[i].to \in DOMAIN workers
  BY DEF PadInv
<1> DEFINE s == [lit |-> lit, mMask |-> {}]
<1>4. s \in WorkerState /\ s.mMask = {}
  BY DEF WorkerState
<1> HIDE DEF s
<1>5. workers' = Append(workers, s)
  BY <1>1 DEF s
<1>6. /\ workers' \in Seq(WorkerState) /\ n \in Nat /\ DOMAIN workers = 1 .. n /\ DOMAIN workers' = 1 .. n + 1
      /\ Len(workers') = n + 1
      /\ \A w \in 1 .. n : workers'[w] = workers[w]
      /\ workers'[n + 1] = s
  BY <1>3, <1>4, <1>5
<1>7. /\ heldBy' \in Seq(SUBSET Keys) /\ Len(heldBy') = n + 1
      /\ \A w \in 1 .. n : heldBy'[w] = heldBy[w]
      /\ heldBy'[n + 1] = {}
  BY <1>2, <1>3
<1> HIDE DEF n
<1>8. ASSUME NEW w \in DOMAIN workers', NEW k \in Button
      PROVE  Down(queue, w, k, k \in workers'[w].mMask) = (k \in heldBy'[w])
  <2>1. CASE w \in 1 .. n
    <3>1. workers'[w] = workers[w] /\ heldBy'[w] = heldBy[w] /\ w \in DOMAIN workers
      BY <1>6, <1>7, <2>1
    <3> QED
      BY <3>1 DEF PadInv, KeysArrive
  <2>2. CASE w = n + 1
    <3>1. w \notin DOMAIN workers
      BY <1>6, <2>2
    <3>2. Meeting(queue, w, k) = {}
      BY <1>3, <3>1 DEF Meeting, Meant
    <3> QED
      BY <1>4, <1>6, <1>7, <2>2, <3>2 DEF Down
  <2> QED
    BY <1>6, <2>1, <2>2
<1>9. \A i \in DOMAIN queue : queue[i].to \in DOMAIN workers'
  BY <1>3, <1>6
<1> QED
  BY <1>2, <1>6, <1>7, <1>8, <1>9 DEF PadInv, KeysArrive

(* Frames asked for by F reach every ROM opened.                           *)
LEMMA SingleFramePad == ASSUME PadInv, SingleFrame PROVE PadInv'
<1> DEFINE n == Len(workers)
           r == [w \in Opened |-> Draw(w, "F")]
<1>1. queue' = queue \o r /\ heldBy' = heldBy /\ workers' = workers
  BY DEF SingleFrame, Emit, roms
<1>2. n \in Nat /\ Opened = 1 .. n /\ DOMAIN workers = Opened
  BY OpenedAre
<1>3. \A w \in Opened : Draw(w, "F") \in Event
  BY <1>2 DEF Draw, Event, KeyName
<1>4. r \in [1 .. n -> Event]
  BY <1>2, <1>3
<1>5. \A j \in Opened : r[j].to = j /\ r[j].call = "draw"
  BY DEF Draw
<1> HIDE DEF r, n
<1>6. r \in Seq(Event) /\ DOMAIN r = Opened
  BY <1>2, <1>4, FunctionIsSeq
<1> QED
  BY <1>1, <1>2, <1>5, <1>6, DrawsPad

(* So does a frame the timer of one of them asks for.                      *)
LEMMA TimeoutPad == ASSUME PadInv, NEW w \in Opened, Timeout(w) PROVE PadInv'
<1> DEFINE e == Draw(w, "timer")
           r == <<e>>
<1>1. e \in Event /\ e.to = w /\ e.call = "draw" /\ w \in DOMAIN workers
  BY OpenedAre DEF Draw, Event, KeyName
<1>2. queue' = Append(queue, e) /\ heldBy' = heldBy /\ workers' = workers
  BY DEF Timeout, roms
<1>3. queue \in Seq(Event)
  BY DEF PadInv
<1> HIDE DEF e
<1>4. queue' = queue \o r /\ r \in Seq(Event) /\ \A j \in DOMAIN r : r[j] = e
  BY <1>1, <1>2, <1>3
<1> QED
  BY <1>1, <1>2, <1>4, DrawsPad

(* A frame is served, and no button with it.                               *)
LEMMA BeginFramePad == ASSUME PadInv, BeginFrame PROVE PadInv'
<1> DEFINE e == Head(queue)
           t == Tail(queue)
<1>1. queue # <<>> /\ e.call = "draw" /\ queue' = t /\ heldBy' = heldBy /\ workers' = workers
  BY DEF BeginFrame, Takes, roms
<1>2. queue \in Seq(Event) /\ \A i \in DOMAIN queue : queue[i].to \in DOMAIN workers
  BY DEF PadInv
<1>3. t \in Seq(Event) /\ \A i \in DOMAIN t : t[i].to \in DOMAIN workers
  <2>1. /\ Len(queue) \in Nat \ {0} /\ DOMAIN queue = 1 .. Len(queue) /\ DOMAIN t = 1 .. Len(queue) - 1
        /\ \A i \in DOMAIN t : t[i] = queue[i + 1]
        /\ t \in Seq(Event)
    BY <1>1, <1>2
  <2>2. \A i \in DOMAIN t : i + 1 \in DOMAIN queue
    BY <2>1
  <2> HIDE DEF t
  <2> QED
    BY <1>2, <2>1, <2>2
<1>4. ASSUME NEW w \in DOMAIN workers, NEW k \in Button
      PROVE  Down(t, w, k, k \in workers[w].mMask) = (k \in heldBy[w])
  <2>1. Down(queue, w, k, k \in workers[w].mMask) = (k \in heldBy[w])
    BY DEF PadInv, KeysArrive
  <2> DEFINE down == k \in workers[w].mMask
  <2>2. down \in BOOLEAN
    OBVIOUS
  <2> HIDE DEF down
  <2>3. ~Meant(e, w, k)
    BY <1>1 DEF Meant
  <2>4. Down(queue, w, k, down) = Down(t, w, k, down)
    BY <1>1, <1>2, <2>2, <2>3, TailDown
  <2> QED
    BY <2>1, <2>4 DEF down
<1> QED
  BY <1>1, <1>3, <1>4 DEF PadInv, KeysArrive

(* Every step keeps what is under way and what is held together.           *)
LEMMA NextPad == PadInv /\ [FrontEndNext]_frontEndVars => PadInv'
<1> SUFFICES ASSUME PadInv, [FrontEndNext]_frontEndVars PROVE PadInv'
  OBVIOUS
<1>1. ASSUME UNCHANGED <<queue, workers, heldBy>> PROVE PadInv'
  BY <1>1 DEF PadInv, KeysArrive
<1>2. CASE UseNull \/ TogglePause \/ Close \/ EndFrame \/ ThreadEnds \/ UNCHANGED frontEndVars
  BY <1>1, <1>2 DEF UseNull, TogglePause, Close, EndFrame, ThreadEnds, roms, frontEndVars
<1>3. CASE LoadRom
  BY <1>3, LoadRomPad
<1>4. CASE SingleFrame
  BY <1>4, SingleFramePad
<1>5. ASSUME NEW k \in Keys, NEW pressed \in BOOLEAN, KeyEvent(k, pressed) PROVE PadInv'
  BY <1>5, KeyEventPad
<1>6. ASSUME NEW w \in Opened, Timeout(w) PROVE PadInv'
  BY <1>6, TimeoutPad
<1>7. CASE BeginFrame
  BY <1>7, BeginFramePad
<1>8. CASE KeyPressed
  BY <1>8, KeyPressedPad
<1> QED
  BY <1>2, <1>3, <1>4, <1>5, <1>6, <1>7, <1>8 DEF FrontEndNext, Worker

(* Then what the program reads is what is held.                            *)
LEMMA PadFromInv == ASSUME PadInv PROVE PadMatchesKeys
<1>1. ASSUME NEW w \in Opened PROVE Served(w) = heldBy[w]
  <2>1. \A k : Posted(w, k) = Meeting(queue, w, k)
    BY DEF Posted, Meeting, Meant
  <2>2. \A k \in Button : Down(queue, w, k, k \in workers[w].mMask) = (k \in heldBy[w])
    BY <1>1, OpenedAre DEF PadInv, KeysArrive
  <2>3. heldBy[w] \subseteq Button
    BY <1>1, OpenedAre, KeysAssumption DEF PadInv
  <2>4. Served(w) = {k \in Button : Down(queue, w, k, k \in workers[w].mMask)}
    BY <2>1 DEF Served, Down
  <2> QED
    BY <2>2, <2>3, <2>4
<1>2. ASSUME NEW mask, NEW group \in {P14, P15}
      PROVE  LowPins(mask, {group}) = {PinOf[b] : b \in mask \cap group}
  <2>1. P14 # P15
    <3>1. "A" \in P15 /\ "A" \notin P14
      BY DEF P14, P15
    <3> QED
      BY <3>1
  <2> DEFINE a == {PinOf[b] : b \in mask \cap P14}
             b == {PinOf[c] : c \in mask \cap P15}
             x == IF P14 \in {group} THEN a ELSE {}
             y == IF P15 \in {group} THEN b ELSE {}
  <2>2. LowPins(mask, {group}) = (x \ y) \cup (y \ x)
    BY DEF LowPins
  <2>3. CASE group = P14
    <3>1. x = a /\ y = {}
      BY <2>1, <2>3
    <3>2. LowPins(mask, {group}) = a
      BY <2>2, <3>1
    <3> QED
      BY <2>3, <3>2
  <2>4. CASE group = P15
    <3>1. x = {} /\ y = b
      BY <2>1, <2>4
    <3>2. LowPins(mask, {group}) = b
      BY <2>2, <3>1
    <3> QED
      BY <2>4, <3>2
  <2> QED
    BY <2>3, <2>4
<1> QED
  BY <1>1, <1>2 DEF PadMatchesKeys

(* For any keys, any number of ROMs and any length of the queue: once the  *)
(* events under way are served, a program that selects one group of        *)
(* buttons reads the keys of it that have been held down since its ROM was *)
(* opened.                                                                 *)
THEOREM PadMatchesKeysHolds == FrontEndSpec => []PadMatchesKeys
BY InitPad, NextPad, PadFromInv, PTL DEF FrontEndSpec
=============================================================================
