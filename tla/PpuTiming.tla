----------------------------- MODULE PpuTiming -----------------------------
(***************************************************************************)
(* The clock of the PPU (core/src/ppu/ppu.cpp): modes, lines, the LCD      *)
(* switch, and the interrupts they raise.  What mode 3 draws is left open: *)
(* it ends after between MinXfer and MaxXfer cycles.  One action is one    *)
(* iteration of the while loop of Ppu::tick; the loop variable is cycles,  *)
(* and the program writes registers only between two calls.                *)
(***************************************************************************)
EXTENDS Integers

CONSTANTS OamLen,        \* OAM_CYCLES, 80
          LineLen,       \* LINE_CYCLES, 456
          MinXfer,       \* shortest and longest mode 3, in cycles
          MaxXfer,
          VisibleLines,  \* 144
          TotalLines,    \* 154
          TickLens       \* what Cpu::tick can return

ASSUME LengthsAssumption ==
  /\ OamLen \in Nat \ {0} /\ LineLen \in Nat
  /\ MinXfer \in Nat \ {0} /\ MaxXfer \in Nat
  /\ MinXfer <= MaxXfer /\ OamLen + MaxXfer < LineLen
ASSUME LinesAssumption ==
  VisibleLines \in Nat \ {0} /\ TotalLines \in Nat /\ VisibleLines < TotalLines
ASSUME TickLensAssumption == TickLens \subseteq Nat \ {0}

VARIABLES mMode, mLY, mLYC,
          mCoincidence,  \* STAT bit 2
          statEnables,   \* STAT bits 3 to 6: modes 0 to 2, and LYC as 3
          mEnabled, mLineCycles, mCurWinY,
          irq,           \* the PPU's bits of IF
          cycles,        \* cycles of the running call not consumed yet
          elapsed,       \* history: cycles since the frame began
          lycStale       \* history: LYC written or LY reset since setLine

registers == <<mMode, mLY, mLYC, mCoincidence, statEnables, mEnabled>>
vars == <<registers, mLineCycles, mCurWinY, irq, cycles, elapsed, lycStale>>

HBlank == 0
VBlank == 1
OamSearch == 2
DataXfer == 3
LycEnable == 3
Lines == 0 .. TotalLines - 1
FrameLen == TotalLines * LineLen

TypeOK ==
  /\ mMode \in 0 .. 3
  /\ mLY \in Lines /\ mLYC \in Nat
  /\ mCoincidence \in BOOLEAN
  /\ statEnables \in SUBSET (0 .. 3)
  /\ mEnabled \in BOOLEAN
  /\ mLineCycles \in 0 .. LineLen - 1
  /\ mCurWinY \in Nat
  /\ irq \in SUBSET {"vblank", "lcdc"}
  /\ cycles \in Nat
  /\ elapsed \in Nat
  /\ lycStale \in BOOLEAN

\* The constructors of Ppu and PpuRegisters.
Init ==
  /\ mMode = OamSearch /\ mLY = 0 /\ mLYC = 0 /\ mCoincidence = FALSE
  /\ statEnables = {} /\ mEnabled = FALSE /\ mLineCycles = 0 /\ mCurWinY = 0
  /\ irq = {} /\ cycles = 0 /\ elapsed = 0 /\ lycStale = TRUE

Idle == cycles = 0
-----------------------------------------------------------------------------
(* Register writes of the program *)

LcdOn ==
  /\ Idle /\ ~mEnabled
  /\ mEnabled' = TRUE
  /\ UNCHANGED <<mMode, mLY, mLYC, mCoincidence, statEnables, mLineCycles,
                 mCurWinY, irq, cycles, elapsed, lycStale>>

\* mLineCycles when the LCD is switched off.
OffLineCycles_Kept == mLineCycles
OffLineCycles == 0

\* LY is reset without going through setLine.  setMode raises nothing here,
\* since mEnabled is already FALSE.
LcdOff ==
  /\ Idle /\ mEnabled
  /\ mEnabled' = FALSE
  /\ mLY' = 0 /\ mCurWinY' = 0 /\ mMode' = OamSearch
  /\ mLineCycles' = OffLineCycles
  /\ elapsed' = 0 /\ lycStale' = TRUE
  /\ UNCHANGED <<mLYC, mCoincidence, statEnables, irq, cycles>>

\* A write of STAT reaches the enable bits only.
WriteSTAT ==
  /\ Idle
  /\ statEnables' \in SUBSET (0 .. 3)
  /\ UNCHANGED <<mMode, mLY, mLYC, mCoincidence, mEnabled, mLineCycles,
                 mCurWinY, irq, cycles, elapsed, lycStale>>

\* A write of LYC does not compare it with LY.
WriteLYC(l) ==
  /\ Idle
  /\ mLYC' = l /\ lycStale' = TRUE
  /\ UNCHANGED <<mMode, mLY, mCoincidence, statEnables, mEnabled, mLineCycles,
                 mCurWinY, irq, cycles, elapsed>>

Acknowledge ==
  /\ Idle
  /\ \E t \in irq : irq' = irq \ {t}
  /\ UNCHANGED <<registers, mLineCycles, mCurWinY, cycles, elapsed, lycStale>>
-----------------------------------------------------------------------------
(* setMode and setLine *)

ModeIrqs_AnyBlank(m) ==
  (IF m \in {HBlank, VBlank} THEN {"vblank"} ELSE {})
    \cup (IF mEnabled /\ m # DataXfer /\ m \in statEnables THEN {"lcdc"} ELSE {})

ModeIrqs(m) ==
  (IF m = VBlank THEN {"vblank"} ELSE {})
    \cup (IF mEnabled /\ m # DataXfer /\ m \in statEnables THEN {"lcdc"} ELSE {})

LineIrqs(l) == IF l = mLYC /\ LycEnable \in statEnables THEN {"lcdc"} ELSE {}

Flag_OnlySet(l) == mCoincidence \/ l = mLYC
Flag(l) == l = mLYC

SetMode(m) ==
  /\ mMode' = m
  /\ irq' = irq \cup ModeIrqs(m)
  /\ UNCHANGED <<mLY, mCoincidence, lycStale>>

SetLine(l) ==
  /\ mLY' = l /\ mCoincidence' = Flag(l) /\ lycStale' = FALSE
  /\ irq' = irq \cup LineIrqs(l)
  /\ UNCHANGED mMode

SetModeAndLine_LineOnly(m, l) == SetLine(l)
SetModeAndLine(m, l) ==
  /\ mMode' = m
  /\ mLY' = l /\ mCoincidence' = Flag(l) /\ lycStale' = FALSE
  /\ irq' = irq \cup ModeIrqs(m) \cup LineIrqs(l)

KeepMode == UNCHANGED <<mMode, mLY, mCoincidence, lycStale, irq>>
-----------------------------------------------------------------------------
(* Ppu::tick *)

\* The line counter after consuming c more cycles.
LineAfter(c) == IF mLineCycles + c >= LineLen THEN 0 ELSE mLineCycles + c

\* The end of every iteration.
Consume(c) ==
  /\ mLineCycles' = LineAfter(c)
  /\ cycles' = cycles - c
  /\ elapsed' = (elapsed + c) % FrameLen
  /\ UNCHANGED <<mLYC, statEnables, mEnabled>>

TickBegin ==
  /\ Idle /\ mEnabled
  /\ cycles' \in TickLens
  /\ UNCHANGED <<registers, mLineCycles, mCurWinY, irq, elapsed, lycStale>>

Search ==
  /\ ~Idle /\ mMode = OamSearch
  /\ IF mLineCycles + cycles >= OamLen
       THEN SetMode(DataXfer) /\ Consume(OamLen - mLineCycles)
       ELSE KeepMode /\ Consume(cycles)
  /\ UNCHANGED mCurWinY

XferGoesOn ==
  /\ ~Idle /\ mMode = DataXfer
  /\ mLineCycles + cycles < OamLen + MaxXfer
  /\ KeepMode /\ Consume(cycles)
  /\ UNCHANGED mCurWinY

\* The last pixel is shifted out after c of the remaining cycles; the window
\* line advances when the window was visible on the line.
XferEnds ==
  /\ ~Idle /\ mMode = DataXfer
  /\ \E c \in 1 .. cycles :
       /\ mLineCycles + c \in OamLen + MinXfer .. OamLen + MaxXfer
       /\ Consume(c)
  /\ SetMode(HBlank)
  /\ mCurWinY' \in {mCurWinY, mCurWinY + 1}

LineComplete == mLineCycles + cycles >= LineLen

\* The line after which VBlank begins.
LastVisible_Late == VisibleLines
LastVisible == VisibleLines - 1

Blank ==
  /\ ~Idle /\ mMode = HBlank
  /\ IF LineComplete
       THEN /\ IF mLY < LastVisible THEN SetModeAndLine(OamSearch, mLY + 1)
               ELSE IF mLY = LastVisible THEN SetModeAndLine(VBlank, mLY + 1)
               ELSE KeepMode
            /\ Consume(LineLen - mLineCycles)
       ELSE KeepMode /\ Consume(cycles)
  /\ UNCHANGED mCurWinY

WinYAfterFrame_Kept == mCurWinY
WinYAfterFrame == 0

VerticalBlank ==
  /\ ~Idle /\ mMode = VBlank
  /\ IF LineComplete
       THEN /\ IF mLY < TotalLines - 1
                 THEN SetLine(mLY + 1) /\ UNCHANGED mCurWinY
                 ELSE SetModeAndLine(OamSearch, 0) /\ mCurWinY' = WinYAfterFrame
            /\ Consume(LineLen - mLineCycles)
       ELSE KeepMode /\ Consume(cycles) /\ UNCHANGED mCurWinY

Tick == TickBegin \/ Search \/ XferGoesOn \/ XferEnds \/ Blank \/ VerticalBlank
Program == LcdOn \/ LcdOff \/ WriteSTAT \/ (\E l \in Lines : WriteLYC(l)) \/ Acknowledge
Next == Tick \/ Program

\* Boldboy::tick drives the PPU after every CPU tick.
Spec == Init /\ [][Next]_vars /\ WF_vars(Tick)
-----------------------------------------------------------------------------
(* The LCD clock never drifts: LY and the line counter are exactly the     *)
(* cycles consumed since the frame began, whatever the lengths of mode 3   *)
(* and of the CPU ticks.                                                   *)
ClockExact == elapsed = mLY * LineLen + mLineCycles

(* Mode, line and line counter agree; a search never starts late and a     *)
(* transfer never runs into the end of its line.                           *)
ModeWindow ==
  /\ mMode = VBlank <=> mLY >= VisibleLines
  /\ mMode = OamSearch => mLineCycles < OamLen
  /\ mMode = DataXfer => mLineCycles \in OamLen .. OamLen + MaxXfer - 1
  /\ mMode = HBlank => mLineCycles >= OamLen + MinXfer
  /\ ~mEnabled => mMode = OamSearch /\ mLY = 0 /\ mLineCycles = 0 /\ Idle

(* The window line counter never gets ahead of the lines drawn.            *)
WindowLine == mCurWinY <= IF mMode = HBlank THEN mLY + 1 ELSE mLY

(* The coincidence flag is right from the first setLine on, until LYC is   *)
(* rewritten or the LCD switched off.                                      *)
CoincidenceFresh == ~lycStale => mCoincidence = (mLY = mLYC)

(* The VBlank interrupt is raised once per frame, on entering the first    *)
(* line below the screen.                                                  *)
VBlankOnEntry ==
  [][/\ "vblank" \in irq' \ irq => mLY = VisibleLines - 1 /\ mLY' = VisibleLines
     /\ mMode # VBlank /\ mMode' = VBlank => "vblank" \in irq']_vars

(* While the LCD stays on, frames keep coming: VBlank begins again and     *)
(* again, so Boldboy::waitForFrame returns.                                *)
FramesKeepComing == <>[]mEnabled => []<>(mMode = VBlank) /\ []<>(mMode # VBlank)
=============================================================================
