-------------------------- MODULE PpuTiming_proofs --------------------------
(***************************************************************************)
(* Proofs about PpuTiming, for every geometry of the screen, every bound   *)
(* on mode 3 that fits a line, and every set of CPU tick lengths.          *)
(***************************************************************************)
EXTENDS PpuTiming, TLAPS

IInv == TypeOK /\ ClockExact /\ ModeWindow

(* A number below m is its own remainder.                                   *)
LEMMA ModSmall ==
  ASSUME NEW m \in Nat \ {0}, NEW x \in Nat, x < m
  PROVE  x % m = x
  OBVIOUS

(* Advancing c cycles inside a line, or to its end, keeps the clock exact. *)
LEMMA ClockInsideLine ==
  ASSUME NEW l \in Lines, NEW lc \in 0 .. LineLen - 1, NEW c \in Nat,
         lc + c < LineLen
  PROVE  ((l * LineLen + lc) + c) % FrameLen = l * LineLen + (lc + c)
<1>1. l * LineLen + (lc + c) \in Nat /\ FrameLen \in Nat \ {0}
  BY LengthsAssumption, LinesAssumption DEF Lines, FrameLen
<1>2. l + 1 <= TotalLines /\ LineLen \in Nat /\ TotalLines \in Nat /\ l \in Nat
  BY LengthsAssumption, LinesAssumption DEF Lines
<1>3. (l + 1) * LineLen <= TotalLines * LineLen
  BY <1>2
<1>4. (l + 1) * LineLen = l * LineLen + LineLen
  BY <1>2
<1>5. l * LineLen + (lc + c) < FrameLen
  BY <1>2, <1>3, <1>4 DEF FrameLen
<1>6. (l * LineLen + lc) + c = l * LineLen + (lc + c)
  BY <1>2
<1> QED
  BY <1>1, <1>5, <1>6, ModSmall

(* Consuming the rest of a line begins the next one, or the next frame.     *)
LEMMA ClockEndOfLine ==
  ASSUME NEW l \in Lines, NEW lc \in 0 .. LineLen - 1
  PROVE  ((l * LineLen + lc) + (LineLen - lc)) % FrameLen =
           IF l < TotalLines - 1 THEN (l + 1) * LineLen ELSE 0
<1>1. LineLen \in Nat \ {0} /\ TotalLines \in Nat \ {0} /\ l \in Nat /\ l <= TotalLines - 1
  BY LengthsAssumption, LinesAssumption DEF Lines
<1>2. (l * LineLen + lc) + (LineLen - lc) = (l + 1) * LineLen
  BY <1>1
<1>3. FrameLen \in Nat \ {0} /\ (l + 1) * LineLen \in Nat
  BY <1>1 DEF FrameLen
<1>4. CASE l < TotalLines - 1
  <2>1. (l + 2) * LineLen <= TotalLines * LineLen
    BY <1>1, <1>4
  <2>2. (l + 1) * LineLen < FrameLen
    BY <1>1, <2>1 DEF FrameLen
  <2> QED
    BY <1>2, <1>3, <1>4, <2>2
<1>5. CASE l = TotalLines - 1
  BY <1>1, <1>2, <1>3, <1>5 DEF FrameLen
<1> QED
  BY <1>1, <1>4, <1>5

(* What an iteration that stays inside the line does to the clock.         *)
LEMMA ConsumeInside ==
  ASSUME TypeOK, ClockExact, NEW c \in Nat, mLineCycles + c < LineLen, Consume(c)
  PROVE  /\ mLineCycles' = mLineCycles + c
         /\ elapsed' = mLY * LineLen + mLineCycles'
         /\ elapsed' \in Nat /\ mLineCycles' \in 0 .. LineLen - 1
<1>1. mLineCycles' = mLineCycles + c /\ elapsed' = (elapsed + c) % FrameLen
  BY LengthsAssumption DEF Consume, LineAfter, TypeOK
<1>2. elapsed' = mLY * LineLen + (mLineCycles + c)
  BY <1>1, ClockInsideLine DEF TypeOK, ClockExact
<1>3. mLY * LineLen \in Nat
  BY LengthsAssumption, LinesAssumption DEF TypeOK, Lines
<1> QED
  BY <1>1, <1>2, <1>3, LengthsAssumption DEF TypeOK

(* What the iteration that ends a line does to the clock.                   *)
LEMMA ConsumeLine ==
  ASSUME TypeOK, ClockExact, Consume(LineLen - mLineCycles)
  PROVE  /\ mLineCycles' = 0
         /\ elapsed' = IF mLY < TotalLines - 1 THEN (mLY + 1) * LineLen ELSE 0
         /\ elapsed' \in Nat
<1>1. mLineCycles' = 0 /\ elapsed' = (elapsed + (LineLen - mLineCycles)) % FrameLen
  BY LengthsAssumption DEF Consume, LineAfter, TypeOK
<1>2. elapsed' = IF mLY < TotalLines - 1 THEN (mLY + 1) * LineLen ELSE 0
  BY <1>1, ClockEndOfLine DEF TypeOK, ClockExact
<1>3. (mLY + 1) * LineLen \in Nat
  BY LengthsAssumption, LinesAssumption DEF TypeOK, Lines
<1> QED
  BY <1>1, <1>2, <1>3

(* The state after the constructors satisfies the invariant.                *)
LEMMA InitInv == Init => IInv
<1> SUFFICES ASSUME Init PROVE IInv
  OBVIOUS
<1>1. 0 * LineLen + 0 = 0 /\ 0 \in 0 .. LineLen - 1 /\ 0 \in Lines
  BY LengthsAssumption, LinesAssumption DEF Lines
<1>2. TypeOK
  <2>1. mMode \in 0 .. 3 /\ mLY \in Lines /\ mLYC \in Nat
    BY <1>1 DEF Init, OamSearch
  <2>2. mLineCycles \in 0 .. LineLen - 1 /\ mCurWinY \in Nat /\ cycles \in Nat /\ elapsed \in Nat
    BY <1>1 DEF Init
  <2>3. mCoincidence \in BOOLEAN /\ mEnabled \in BOOLEAN /\ lycStale \in BOOLEAN
    BY DEF Init
  <2>4. statEnables \in SUBSET (0 .. 3) /\ irq \in SUBSET {"vblank", "lcdc"}
    BY DEF Init
  <2> QED
    BY <2>1, <2>2, <2>3, <2>4 DEF TypeOK
<1>3. ClockExact
  BY <1>1 DEF Init, ClockExact
<1>4. ModeWindow
  BY LengthsAssumption, LinesAssumption
     DEF Init, ModeWindow, Idle, HBlank, VBlank, OamSearch, DataXfer
<1> QED
  BY <1>2, <1>3, <1>4 DEF IInv

(* The register writes.                                                    *)
LEMMA ProgramInv == IInv /\ Program => IInv'
<1> SUFFICES ASSUME IInv, Program PROVE IInv'
  OBVIOUS
<1> USE DEF IInv
<1>1. CASE LcdOn
  BY <1>1 DEF LcdOn, TypeOK, ClockExact, ModeWindow, Idle
<1>2. CASE LcdOff
  <2>1. 0 * LineLen + 0 = 0 /\ 0 \in 0 .. LineLen - 1 /\ 0 \in Lines
    BY LengthsAssumption, LinesAssumption DEF Lines
  <2>2. TypeOK'
    <3>1. mMode' \in 0 .. 3 /\ mLY' \in Lines /\ mLineCycles' \in 0 .. LineLen - 1
      BY <1>2, <2>1 DEF LcdOff, OffLineCycles, OamSearch
    <3> QED
      BY <1>2, <3>1 DEF LcdOff, TypeOK
  <2>3. ClockExact'
    BY <1>2, <2>1 DEF LcdOff, OffLineCycles, ClockExact
  <2>4. ModeWindow'
    BY <1>2, LengthsAssumption, LinesAssumption
       DEF LcdOff, OffLineCycles, ModeWindow, Idle, HBlank, VBlank, OamSearch, DataXfer
  <2> QED
    BY <2>2, <2>3, <2>4
<1>3. CASE WriteSTAT
  BY <1>3 DEF WriteSTAT, TypeOK, ClockExact, ModeWindow, Idle
<1>4. ASSUME NEW l \in Lines, WriteLYC(l) PROVE IInv'
  BY <1>4, LinesAssumption DEF WriteLYC, TypeOK, ClockExact, ModeWindow, Idle, Lines
<1>5. CASE Acknowledge
  BY <1>5 DEF Acknowledge, registers, TypeOK, ClockExact, ModeWindow, Idle
<1> QED
  BY <1>1, <1>2, <1>3, <1>4, <1>5 DEF Program

(* One iteration of the loop of Ppu::tick, in each of the four modes.       *)
LEMMA TickInv == IInv /\ Tick => IInv'
<1> SUFFICES ASSUME IInv, Tick PROVE IInv'
  OBVIOUS
<1> USE DEF IInv
<1>1. CASE TickBegin
  BY <1>1, TickLensAssumption DEF TickBegin, registers, TypeOK, ClockExact, ModeWindow, Idle
<1>2. CASE Search
  <2>1. CASE mLineCycles + cycles >= OamLen
    <3>1. SetMode(DataXfer) /\ Consume(OamLen - mLineCycles)
      BY <1>2, <2>1 DEF Search
    <3>2. OamLen - mLineCycles \in Nat /\ mLineCycles + (OamLen - mLineCycles) < LineLen
      BY <1>2, LengthsAssumption DEF Search, TypeOK, ModeWindow
    <3>3. /\ mLineCycles' = OamLen /\ elapsed' = mLY * LineLen + mLineCycles'
          /\ elapsed' \in Nat /\ mLineCycles' \in 0 .. LineLen - 1
      BY <3>1, <3>2, ConsumeInside, LengthsAssumption DEF TypeOK
    <3>4. cycles' \in Nat
      BY <2>1, <3>1, LengthsAssumption DEF Consume, TypeOK
    <3>5. TypeOK'
      BY <1>2, <3>1, <3>3, <3>4
         DEF Search, SetMode, Consume, ModeIrqs, TypeOK, DataXfer, VBlank
    <3> QED
      BY <1>2, <3>1, <3>3, <3>5, LengthsAssumption
         DEF SetMode, Consume, Search, TypeOK, ClockExact, ModeWindow, Idle,
             HBlank, VBlank, OamSearch, DataXfer
  <2>2. CASE mLineCycles + cycles < OamLen
    <3>1. KeepMode /\ Consume(cycles)
      BY <1>2, <2>2, LengthsAssumption DEF Search, TypeOK
    <3>2. /\ mLineCycles' = mLineCycles + cycles
          /\ elapsed' = mLY * LineLen + mLineCycles'
          /\ elapsed' \in Nat /\ mLineCycles' \in 0 .. LineLen - 1
      BY <2>2, <3>1, ConsumeInside, LengthsAssumption DEF TypeOK
    <3> QED
      BY <1>2, <2>2, <3>1, <3>2, LengthsAssumption
         DEF KeepMode, Consume, Search, TypeOK, ClockExact, ModeWindow, Idle,
             HBlank, VBlank, OamSearch, DataXfer
  <2> QED
    BY <2>1, <2>2, LengthsAssumption DEF TypeOK
<1>3. CASE XferGoesOn
  <2>1. /\ mLineCycles' = mLineCycles + cycles
        /\ elapsed' = mLY * LineLen + mLineCycles'
        /\ elapsed' \in Nat /\ mLineCycles' \in 0 .. LineLen - 1
    BY <1>3, ConsumeInside, LengthsAssumption DEF XferGoesOn, TypeOK
  <2> QED
    BY <1>3, <2>1, LengthsAssumption
       DEF XferGoesOn, KeepMode, Consume, TypeOK, ClockExact, ModeWindow, Idle,
           HBlank, VBlank, OamSearch, DataXfer
<1>4. CASE XferEnds
  <2>1. PICK c \in 1 .. cycles :
          mLineCycles + c \in OamLen + MinXfer .. OamLen + MaxXfer /\ Consume(c)
    BY <1>4 DEF XferEnds
  <2>2. c \in Nat /\ mLineCycles + c < LineLen /\ cycles - c \in Nat
    BY <2>1, LengthsAssumption DEF TypeOK
  <2>3. /\ mLineCycles' = mLineCycles + c
        /\ elapsed' = mLY * LineLen + mLineCycles'
        /\ elapsed' \in Nat /\ mLineCycles' \in 0 .. LineLen - 1
    BY <2>1, <2>2, ConsumeInside
  <2>4. TypeOK'
    BY <1>4, <2>1, <2>2, <2>3
       DEF XferEnds, SetMode, ModeIrqs, Consume, TypeOK, HBlank, VBlank
  <2> QED
    BY <1>4, <2>1, <2>2, <2>3, <2>4, LengthsAssumption
       DEF XferEnds, SetMode, Consume, TypeOK, ClockExact, ModeWindow, Idle,
           HBlank, VBlank, OamSearch, DataXfer
<1>5. CASE Blank
  <2>1. CASE LineComplete
    <3>1. Consume(LineLen - mLineCycles) /\ mLY < VisibleLines
      BY <1>5, <2>1, LinesAssumption
         DEF Blank, ModeWindow, TypeOK, Lines, HBlank, VBlank
    <3>2. /\ mLineCycles' = 0 /\ elapsed' \in Nat
          /\ elapsed' = (mLY + 1) * LineLen
      BY <3>1, ConsumeLine, LinesAssumption DEF TypeOK, Lines
    <3>3. /\ mLY' = mLY + 1
          /\ mMode' = IF mLY < VisibleLines - 1 THEN OamSearch ELSE VBlank
          /\ mCoincidence' \in BOOLEAN /\ lycStale' \in BOOLEAN
          /\ irq' \in SUBSET {"vblank", "lcdc"}
      <4>1. IF mLY < VisibleLines - 1 THEN SetModeAndLine(OamSearch, mLY + 1)
                                      ELSE SetModeAndLine(VBlank, mLY + 1)
        BY <1>5, <2>1, <3>1, LinesAssumption DEF Blank, LastVisible, TypeOK, Lines
      <4> QED
        BY <4>1, ZenonT(60) DEF SetModeAndLine, Flag, ModeIrqs, LineIrqs, TypeOK
    <3>4. cycles' \in Nat
      BY <2>1, <3>1, LengthsAssumption DEF Consume, LineComplete, TypeOK
    <3>5. TypeOK'
      BY <1>5, <3>1, <3>2, <3>3, <3>4, LengthsAssumption, LinesAssumption
         DEF Blank, Consume, TypeOK, Lines, OamSearch, VBlank
    <3> QED
      BY <1>5, <3>1, <3>2, <3>3, <3>5, LengthsAssumption, LinesAssumption
         DEF Consume, Blank, TypeOK, ClockExact, ModeWindow, Idle, Lines,
             HBlank, VBlank, OamSearch, DataXfer
  <2>2. CASE ~LineComplete
    <3>1. KeepMode /\ Consume(cycles)
      BY <1>5, <2>2 DEF Blank
    <3>2. /\ mLineCycles' = mLineCycles + cycles
          /\ elapsed' = mLY * LineLen + mLineCycles'
          /\ elapsed' \in Nat /\ mLineCycles' \in 0 .. LineLen - 1
      BY <2>2, <3>1, ConsumeInside, LengthsAssumption DEF LineComplete, TypeOK
    <3> QED
      BY <1>5, <3>1, <3>2, LengthsAssumption
         DEF KeepMode, Consume, Blank, TypeOK, ClockExact, ModeWindow, Idle,
             HBlank, VBlank, OamSearch, DataXfer
  <2> QED
    BY <2>1, <2>2
<1>6. CASE VerticalBlank
  <2>1. CASE LineComplete
    <3>1. Consume(LineLen - mLineCycles) /\ mLY >= VisibleLines
      BY <1>6, <2>1 DEF VerticalBlank, ModeWindow
    <3>2. /\ mLineCycles' = 0 /\ elapsed' \in Nat
          /\ elapsed' = IF mLY < TotalLines - 1 THEN (mLY + 1) * LineLen ELSE 0
      BY <3>1, ConsumeLine
    <3>3. /\ mLY' = IF mLY < TotalLines - 1 THEN mLY + 1 ELSE 0
          /\ mMode' = IF mLY < TotalLines - 1 THEN VBlank ELSE OamSearch
          /\ mCurWinY' \in Nat
          /\ mCoincidence' \in BOOLEAN /\ lycStale' \in BOOLEAN
          /\ irq' \in SUBSET {"vblank", "lcdc"}
      <4>1. CASE mLY < TotalLines - 1
        <5>1. SetLine(mLY + 1) /\ UNCHANGED mCurWinY
          BY <1>6, <2>1, <4>1 DEF VerticalBlank
        <5> QED
          BY <1>6, <4>1, <5>1 DEF VerticalBlank, SetLine, Flag, LineIrqs, TypeOK
      <4>2. CASE ~(mLY < TotalLines - 1)
        <5>1. SetModeAndLine(OamSearch, 0) /\ mCurWinY' = 0
          BY <1>6, <2>1, <4>2 DEF VerticalBlank, WinYAfterFrame
        <5> QED
          BY <4>2, <5>1 DEF SetModeAndLine, Flag, ModeIrqs, LineIrqs, TypeOK
      <4> QED
        BY <4>1, <4>2
    <3>4. cycles' \in Nat
      BY <2>1, <3>1, LengthsAssumption DEF Consume, LineComplete, TypeOK
    <3>5. TypeOK'
      BY <3>1, <3>2, <3>3, <3>4, LengthsAssumption, LinesAssumption
         DEF Consume, TypeOK, Lines, OamSearch, VBlank
    <3>6. ClockExact'
      BY <3>2, <3>3, LengthsAssumption, LinesAssumption DEF ClockExact, TypeOK, Lines
    <3>7. ModeWindow'
      BY <1>6, <3>1, <3>2, <3>3, LengthsAssumption, LinesAssumption
         DEF VerticalBlank, Consume, TypeOK, ModeWindow, Idle, Lines,
             HBlank, VBlank, OamSearch, DataXfer
    <3> QED
      BY <3>5, <3>6, <3>7
  <2>2. CASE ~LineComplete
    <3>1. KeepMode /\ Consume(cycles) /\ UNCHANGED mCurWinY
      BY <1>6, <2>2 DEF VerticalBlank
    <3>2. /\ mLineCycles' = mLineCycles + cycles
          /\ elapsed' = mLY * LineLen + mLineCycles'
          /\ elapsed' \in Nat /\ mLineCycles' \in 0 .. LineLen - 1
      BY <2>2, <3>1, ConsumeInside, LengthsAssumption DEF LineComplete, TypeOK
    <3> QED
      BY <1>6, <3>1, <3>2, LengthsAssumption
         DEF KeepMode, Consume, VerticalBlank, TypeOK, ClockExact, ModeWindow,
             Idle, HBlank, VBlank, OamSearch, DataXfer
  <2> QED
    BY <2>1, <2>2
<1> QED
  BY <1>1, <1>2, <1>3, <1>4, <1>5, <1>6 DEF Tick

(* Every step preserves the invariant.                                     *)
LEMMA NextInv == IInv /\ [Next]_vars => IInv'
<1>1. IInv /\ UNCHANGED vars => IInv'
  BY DEF IInv, vars, registers, TypeOK, ClockExact, ModeWindow, Idle
<1> QED
  BY <1>1, ProgramInv, TickInv DEF Next

(* The clock of the PPU is exact and its modes keep to their windows.      *)
THEOREM ClockInvariance == Spec => [](TypeOK /\ ClockExact /\ ModeWindow)
<1> QED
  BY InitInv, NextInv, PTL DEF Spec, IInv

(* The mode a program reads in STAT is the one its line and line counter   *)
(* call for: the search never starts late, the transfer never runs into    *)
(* the end of its line.                                                    *)
THEOREM ModeWindowHolds == Spec => []ModeWindow
<1> QED
  BY ClockInvariance, PTL

(* The window line counter stays behind the lines drawn, given the window  *)
(* of each mode.                                                           *)
LEMMA WindowLineStep == IInv /\ WindowLine /\ [Next]_vars => WindowLine'
<1> SUFFICES ASSUME IInv, WindowLine, [Next]_vars PROVE WindowLine'
  OBVIOUS
<1> USE DEF WindowLine, HBlank, VBlank, OamSearch, DataXfer
<1>0. mCurWinY \in Nat /\ mLY \in Nat /\ mMode \in 0 .. 3
  BY DEF IInv, TypeOK, Lines
<1>1. CASE Program
  BY <1>0, <1>1 DEF Program, LcdOn, LcdOff, WriteSTAT, WriteLYC, Acknowledge, registers
<1>2. CASE TickBegin
  BY <1>2 DEF TickBegin, registers
<1>3. CASE Search
  BY <1>0, <1>3 DEF Search, SetMode, KeepMode
<1>4. CASE XferGoesOn
  BY <1>4 DEF XferGoesOn, KeepMode
<1>5. CASE XferEnds
  BY <1>0, <1>5 DEF XferEnds, SetMode
<1>6. CASE Blank
  BY <1>0, <1>6 DEF Blank, SetModeAndLine, KeepMode
<1>7. CASE VerticalBlank
  BY <1>0, <1>7 DEF VerticalBlank, SetModeAndLine, SetLine, KeepMode, WinYAfterFrame
<1>8. CASE UNCHANGED vars
  BY <1>8 DEF vars, registers
<1> QED
  BY <1>1, <1>2, <1>3, <1>4, <1>5, <1>6, <1>7, <1>8 DEF Next, Tick

(* mCurWinY never gets ahead of the lines drawn, for any screen: it counts *)
(* at most one line of the window per visible line.                        *)
THEOREM WindowLineHolds == Spec => []WindowLine
<1>1. Init => WindowLine
  BY DEF Init, WindowLine, OamSearch, HBlank
<1> QED
  BY <1>1, InitInv, WindowLineStep, NextInv, PTL DEF Spec

(* The VBlank interrupt is requested exactly when the line below the       *)
(* screen begins, and on no other step, the LCD switch included.           *)
THEOREM VBlankOnEntryHolds == Spec => VBlankOnEntry
<1> DEFINE Entry ==
      /\ "vblank" \in irq' \ irq => mLY = VisibleLines - 1 /\ mLY' = VisibleLines
      /\ mMode # VBlank /\ mMode' = VBlank => "vblank" \in irq'
<1>1. IInv /\ [Next]_vars => [Entry]_vars
  <2> SUFFICES ASSUME IInv, Next PROVE Entry
    OBVIOUS
  <2> USE DEF HBlank, VBlank, OamSearch, DataXfer
  <2>0. mLY \in Nat /\ mMode \in 0 .. 3 /\ VisibleLines \in Nat
    BY LinesAssumption DEF IInv, TypeOK, Lines
  <2>1. CASE Program
    BY <2>1 DEF Program, LcdOn, LcdOff, WriteSTAT, WriteLYC, Acknowledge, registers
  <2>2. CASE TickBegin
    BY <2>2 DEF TickBegin, registers
  <2>3. CASE Search
    BY <2>3 DEF Search, SetMode, KeepMode, ModeIrqs
  <2>4. CASE XferGoesOn
    BY <2>4 DEF XferGoesOn, KeepMode
  <2>5. CASE XferEnds
    BY <2>5 DEF XferEnds, SetMode, ModeIrqs
  <2>6. CASE Blank
    BY <2>0, <2>6 DEF Blank, SetModeAndLine, KeepMode, ModeIrqs, LineIrqs, LastVisible
  <2>7. CASE VerticalBlank
    BY <2>7 DEF VerticalBlank, SetModeAndLine, SetLine, KeepMode, ModeIrqs, LineIrqs
  <2> QED
    BY <2>1, <2>2, <2>3, <2>4, <2>5, <2>6, <2>7 DEF Next, Tick
<1> QED
  BY <1>1, InitInv, NextInv, PTL DEF Spec, VBlankOnEntry

(* The coincidence flag the program reads in STAT is right whenever it was *)
(* computed since LYC was written or the LCD switched off last: no way     *)
(* through the modes changes LY and leaves the flag behind.                *)
THEOREM CoincidenceFreshHolds == Spec => []CoincidenceFresh
<1>1. Init => CoincidenceFresh
  BY DEF Init, CoincidenceFresh
<1>2. CoincidenceFresh /\ [Next]_vars => CoincidenceFresh'
  <2> SUFFICES ASSUME CoincidenceFresh, [Next]_vars PROVE CoincidenceFresh'
    OBVIOUS
  <2>1. CASE UNCHANGED <<mLY, mLYC, mCoincidence, lycStale>>
    BY <2>1, Zenon DEF CoincidenceFresh
  <2>2. CASE lycStale' = TRUE
    BY <2>2, Zenon DEF CoincidenceFresh
  <2>3. ASSUME NEW l, mLY' = l, mLYC' = mLYC, mCoincidence' = (l = mLYC)
        PROVE  CoincidenceFresh'
    BY <2>3, Zenon DEF CoincidenceFresh
  <2>4. CASE Program
    BY <2>1, <2>2, <2>4
       DEF Program, LcdOn, LcdOff, WriteSTAT, WriteLYC, Acknowledge, registers
  <2>5. CASE TickBegin \/ Search \/ XferGoesOn \/ XferEnds
    BY <2>1, <2>5
       DEF TickBegin, Search, XferGoesOn, XferEnds, SetMode, KeepMode, Consume, registers
  <2>6. CASE Blank
    BY <2>1, <2>3, <2>6 DEF Blank, SetModeAndLine, Flag, KeepMode, Consume
  <2>7. CASE VerticalBlank
    BY <2>1, <2>3, <2>7 DEF VerticalBlank, SetModeAndLine, SetLine, Flag, KeepMode, Consume
  <2>8. CASE UNCHANGED vars
    BY <2>1, <2>8 DEF vars, registers
  <2> QED
    BY <2>4, <2>5, <2>6, <2>7, <2>8 DEF Next, Tick
<1> QED
  BY <1>1, <1>2, PTL DEF Spec

=============================================================================
