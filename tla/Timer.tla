------------------------------- MODULE Timer -------------------------------
(***************************************************************************)
(* IoTimer (core/src/io/io_timer.cpp).  The registers are the source's;    *)
(* one call of tick runs cycle by cycle, and its loop variable and local   *)
(* copy are the variables cycles and oldSysTick.  The program writes the   *)
(* registers between two calls.                                            *)
(***************************************************************************)
EXTENDS Integers

CONSTANTS SysMod,   \* 65536: mSysTick is a uint16_t
          TimaMod,  \* 256: TIMA and TMA are uint8_t
          MuxBits,  \* {8, 32, 128, 512}: TIMA_BIT_*_KHZ, as powers of two
          MaxTick   \* 24: the longest Cpu::tick

ASSUME SysModAssumption == SysMod \in Nat \ {0}
ASSUME TimaModAssumption == TimaMod \in Nat \ {0}
ASSUME MuxBitsAssumption == \A b \in MuxBits : b \in Nat \ {0} /\ SysMod % (2 * b) = 0
ASSUME MaxTickAssumption == MaxTick \in Nat /\ MaxTick < SysMod

VARIABLES mStarted, mTIMA, mTMA, mMuxBit, mSysTick,
          requested,   \* the timer's bit of IF
          cycles,      \* iterations the running call of tick has left
          oldSysTick,
          start,       \* history: counter and TIMA when the call began, its length
          wrote        \* history: the last step was a write of the program

registers == <<mStarted, mTIMA, mTMA, mMuxBit, mSysTick, requested>>
vars == <<registers, cycles, oldSysTick, start, wrote>>

Values == 0 .. TimaMod - 1
Counts == 0 .. SysMod - 1
NoCall == [sys |-> 0, tima |-> 0, irq |-> FALSE, n |-> 0]

TypeOK ==
  /\ mStarted \in BOOLEAN
  /\ mTIMA \in Values /\ mTMA \in Values
  /\ mMuxBit \in MuxBits \cup {0}
  /\ mSysTick \in Counts
  /\ requested \in BOOLEAN
  /\ cycles \in 0 .. MaxTick
  /\ oldSysTick \in Counts
  /\ start \in [sys : Counts, tima : Values, irq : BOOLEAN, n : 0 .. MaxTick]
  /\ wrote \in BOOLEAN

Init ==
  /\ mStarted = FALSE /\ mTIMA = 0 /\ mTMA = 0 /\ mMuxBit = 0 /\ mSysTick = 0
  /\ requested = FALSE
  /\ cycles = 0 /\ oldSysTick = 0 /\ start = NoCall /\ wrote = FALSE

Idle == cycles = 0
-----------------------------------------------------------------------------
(* writeAddr *)

Written == wrote' = TRUE /\ UNCHANGED <<cycles, oldSysTick, start>>

WriteDIV ==
  /\ Idle
  /\ mSysTick' = 0
  /\ UNCHANGED <<mStarted, mTIMA, mTMA, mMuxBit, requested>> /\ Written

WriteTIMA ==
  /\ Idle
  /\ mTIMA' \in Values
  /\ UNCHANGED <<mStarted, mTMA, mMuxBit, mSysTick, requested>> /\ Written

WriteTMA ==
  /\ Idle
  /\ mTMA' \in Values
  /\ UNCHANGED <<mStarted, mTIMA, mMuxBit, mSysTick, requested>> /\ Written

WriteTAC ==
  /\ Idle
  /\ mStarted' \in BOOLEAN
  /\ mMuxBit' \in MuxBits
  /\ UNCHANGED <<mTIMA, mTMA, mSysTick, requested>> /\ Written

\* The CPU clears the request, by dispatching it or by writing IF.
Acknowledge ==
  /\ Idle
  /\ requested' = FALSE
  /\ UNCHANGED <<mStarted, mTIMA, mTMA, mMuxBit, mSysTick>> /\ Written
-----------------------------------------------------------------------------
(* tick *)

\* The selected bit of a counter value.
BitSet(s, b) == b # 0 /\ (s \div b) % 2 = 1

Falling_Rising(old, new, b) == ~BitSet(old, b) /\ BitSet(new, b)
Falling(old, new, b) == BitSet(old, b) /\ ~BitSet(new, b)

Successor(s) == (s + 1) % SysMod

TickStopped ==
  /\ Idle /\ ~mStarted
  /\ \E n \in 1 .. MaxTick : mSysTick' = (mSysTick + n) % SysMod
  /\ wrote' = FALSE
  /\ UNCHANGED <<mStarted, mTIMA, mTMA, mMuxBit, requested, cycles, oldSysTick, start>>

TickBegin ==
  /\ Idle /\ mStarted
  /\ \E n \in 1 .. MaxTick :
       /\ cycles' = n
       /\ start' = [sys |-> mSysTick, tima |-> mTIMA, irq |-> requested, n |-> n]
  /\ oldSysTick' = mSysTick
  /\ wrote' = FALSE
  /\ UNCHANGED registers

\* ++mTIMA, and the reload when it wraps.
Incremented_NoReload(t) == (t + 1) % TimaMod
Incremented(t) == IF t + 1 = TimaMod THEN mTMA ELSE t + 1

\* The interrupt asked for when the increment from t wraps.
Requested_Missed(t) == requested
Requested(t) == requested \/ t + 1 = TimaMod

OldAfter(new) == new

TickCycle ==
  /\ ~Idle
  /\ mSysTick' = Successor(mSysTick)
  /\ IF Falling(oldSysTick, mSysTick', mMuxBit)
       THEN /\ mTIMA' = Incremented(mTIMA)
            /\ requested' = Requested(mTIMA)
       ELSE UNCHANGED <<mTIMA, requested>>
  /\ cycles' = cycles - 1
  /\ oldSysTick' = IF cycles = 1 THEN 0 ELSE OldAfter(mSysTick')
  /\ start' = IF cycles = 1 THEN NoCall ELSE start
  /\ UNCHANGED <<mStarted, mTMA, mMuxBit, wrote>>

Program == WriteDIV \/ WriteTIMA \/ WriteTMA \/ WriteTAC \/ Acknowledge
Tick == TickStopped \/ TickBegin \/ TickCycle

Next == Program \/ Tick

\* IoController::tick calls the timer after every CPU tick.
Spec == Init /\ [][Next]_vars /\ WF_vars(Tick)
-----------------------------------------------------------------------------
(* Inside a call the counter is the starting value plus the cycles done,   *)
(* and the copy compared against is the counter of the previous cycle.     *)
CallConsistent ==
  /\ mStarted => mMuxBit # 0
  /\ ~Idle =>
       /\ mStarted
       /\ oldSysTick = mSysTick
       /\ cycles <= start.n
       /\ mSysTick = (start.sys + (start.n - cycles)) % SysMod

(* A call of tick is one step of TimerSpec, whose values change when the   *)
(* call returns: the registers never differ from counting the multiples of *)
(* the period in the whole call at once, reloads included.                 *)
Promise == INSTANCE TimerSpec WITH
  Periods <- {2 * b : b \in MuxBits},
  running <- mStarted,
  period  <- 2 * mMuxBit,
  sys     <- IF Idle THEN mSysTick ELSE start.sys,
  tima    <- IF Idle THEN mTIMA ELSE start.tima,
  tma     <- mTMA,
  irq     <- IF Idle THEN requested ELSE start.irq

ImplementsTimerSpec == Promise!Spec

(* In the middle of a call TIMA and the request already are what counting  *)
(* the multiples of the period in the cycles done so far gives.            *)
Accumulated ==
  ~Idle =>
    LET e == Promise!Passed(start.sys, start.n - cycles, 2 * mMuxBit)
    IN /\ mTIMA = Promise!Count(start.tima, mTMA, e)
       /\ requested <=> (start.irq \/ start.tima + e >= TimaMod)

(* Once the program leaves a started timer and IF alone, the interrupt is  *)
(* raised, whatever the counter and TIMA are.                              *)
OverflowComes == <>[](mStarted /\ ~wrote) => <>[]requested
=============================================================================
