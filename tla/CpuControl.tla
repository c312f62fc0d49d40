----------------------------- MODULE CpuControl -----------------------------
(***************************************************************************)
(* Cpu::tick (core/src/cpu/cpu.cpp): the delayed EI, HALT, interrupt       *)
(* dispatch and the microsteps of the instructions, together with the      *)
(* interrupt controller they share with the devices.  One Tick action is   *)
(* one call of Cpu::tick; registers and memory are abstracted away except  *)
(* for IE and IF, which any memory write may hit.                          *)
(***************************************************************************)
EXTENDS InterruptController, Opcodes

CONSTANT Ops  \* the families programs are made of

ASSUME OpsAssumption == Ops \subseteq Families /\ Ops # {}

VARIABLES imePending,  \* CPU_STATE_FLAGS_IME_ENABLE_PENDING
          imeDelay,    \* CPU_STATE_FLAGS_IME_ENABLE_DELAY
          mIsHalted,
          mCurState,   \* microsteps of the current instruction done so far
          mCurOpcode,  \* family of the instruction fetched last
          event,       \* history: what the last tick did
          afterEi,     \* history: the instruction before mCurOpcode was EI
          spent,       \* history: cycles the current instruction has taken, to SpentBound
          hit          \* history: the register the last memory write hit

cpuVars == <<imePending, imeDelay, mIsHalted, mCurState, mCurOpcode>>
history == <<event, afterEi, spent, hit>>
vars == <<icVars, cpuVars, history>>

Events == {"reset", "dispatch", "halted", "step", "retire"}

TypeOK ==
  /\ IcTypeOK
  /\ imePending \in BOOLEAN /\ imeDelay \in BOOLEAN /\ mIsHalted \in BOOLEAN
  /\ mCurOpcode \in Ops
  /\ mCurState \in 0 .. Len(Program[mCurOpcode]) - 1
  /\ event \in Events
  /\ afterEi \in BOOLEAN
  /\ spent \in Nat
  /\ hit \in {"none", "IE", "IF"}

Init ==
  /\ IcInit
  /\ imePending = FALSE /\ imeDelay = FALSE
  /\ mIsHalted = FALSE
  /\ mCurState = 0 /\ mCurOpcode \in Ops
  /\ event = "reset" /\ afterEi = FALSE /\ spent = 0 /\ hit = "none"

-----------------------------------------------------------------------------
(* The first lines of tick: the flags as the rest of the call sees them. *)

AtBoundary == mCurState = 0

EnableDue_IgnoresDelay == AtBoundary /\ imePending
EnableDue == AtBoundary /\ imePending /\ ~imeDelay

ImeNow     == mEnabled \/ EnableDue
PendingNow == imePending /\ ~EnableDue

DelayNow_NeverCleared == imeDelay
DelayNow   == imeDelay /\ ~(AtBoundary /\ imePending)

\* The CPU leaves HALT for any pending bit, whatever IME says.
Woken_OnlyWithIme == AtBoundary /\ IsPending /\ ImeNow
Woken == AtBoundary /\ IsPending

StillHalted == mIsHalted /\ ~Woken

Dispatchable_MidInstruction == IsPending /\ GetPending(ImeNow) # itNone
Dispatchable == AtBoundary /\ IsPending /\ GetPending(ImeNow) # itNone

-----------------------------------------------------------------------------
(* A write of the CPU to memory: to IE, to IF or elsewhere.  ie and iflags *)
(* are the registers just before it.  Of the bytes of a 16-bit push at     *)
(* most one can land on either register.                                   *)

BusWrite(ie, iflags) ==
  \/ hit' = "none" /\ mIE' = ie /\ mIF' = iflags
  \/ hit' = "IE"   /\ mIE' \in SUBSET Bits /\ mIF' = iflags
  \/ hit' = "IF"   /\ mIE' = ie /\ mIF' \in SUBSET Bits

NoWrite == hit' = "none" /\ UNCHANGED <<mIE, mIF>>

\* IME once an interrupt has been accepted.
ImeServed_LeftOn == ImeNow
ImeServed == FALSE

\* Interrupt service: IME off, the flag cleared, PC pushed, PC := vector.
Dispatch ==
  /\ Dispatchable
  /\ mEnabled' = ImeServed
  /\ BusWrite(mIE, ClearInterrupt(GetPending(ImeNow)))
  /\ mIsHalted' = FALSE
  /\ imePending' = PendingNow /\ imeDelay' = DelayNow
  /\ event' = "dispatch"
  /\ UNCHANGED <<mCurState, mCurOpcode, afterEi, spent>>

HaltedTick ==
  /\ ~Dispatchable /\ StillHalted
  /\ mEnabled' = ImeNow
  /\ imePending' = PendingNow /\ imeDelay' = DelayNow
  /\ NoWrite
  /\ event' = "halted"
  /\ UNCHANGED <<mIsHalted, mCurState, mCurOpcode, afterEi, spent>>

\* What the handlers do to IME: DI leaves a pending EI alone, RETI enables
\* on each of its microsteps.
ImeAfter(op) ==
  CASE op = "DI"   -> FALSE
    [] op = "RETI" -> TRUE
    [] OTHER       -> ImeNow

EiArms(op) == op = "EI" /\ ~PendingNow

\* mIsHalted after a handler: a CPU that got this far has left HALT.
HaltAfter(op) == op = "HALT"

\* mCurState after microstep k: advanced, or reset by the last microstep.
StateAfter(op, k) == IF k = Len(Program[op]) THEN 0 ELSE k

\* The bound of the history variable spent; no instruction takes more than 24.
SpentBound == 28
Capped(n) == IF n > SpentBound THEN SpentBound ELSE n

\* Microstep k of an instruction of family op.
Handler(op, k) ==
  LET step == Program[op][k]
      last == k = Len(Program[op])
  IN /\ IF step.bus = "write" THEN BusWrite(mIE, mIF) ELSE NoWrite
     /\ mEnabled' = ImeAfter(op)
     /\ imePending' = (PendingNow \/ EiArms(op))
     /\ imeDelay' = (DelayNow \/ EiArms(op))
     /\ mIsHalted' = HaltAfter(op)
     /\ mCurOpcode' = op
     /\ mCurState' = StateAfter(op, k)
     /\ event' = IF last THEN "retire" ELSE "step"
     /\ afterEi' = IF k = 1 THEN event # "reset" /\ mCurOpcode = "EI" ELSE afterEi
     /\ spent' = Capped((IF k = 1 THEN 0 ELSE spent) + step.cycles)

Fetch ==
  /\ ~Dispatchable /\ ~StillHalted
  /\ AtBoundary
  /\ \E op \in Ops : Handler(op, 1)

Resume ==
  /\ ~Dispatchable /\ ~StillHalted
  /\ ~AtBoundary
  /\ Handler(mCurOpcode, mCurState + 1)

Tick == Dispatch \/ HaltedTick \/ Fetch \/ Resume

\* Between two CPU ticks the timer, the PPU and the other devices run.
DeviceTick ==
  /\ \E t \in Irqs : RequestInterrupt(t)
  /\ UNCHANGED <<mEnabled, mIE, cpuVars, history>>

Next == Tick \/ DeviceTick

\* The main loop calls tick for ever; nothing forces a device to interrupt.
Spec == Init /\ [][Next]_vars /\ WF_vars(Tick)
-----------------------------------------------------------------------------
(* The DELAY flag is only set while PENDING is, and a halted CPU is never  *)
(* in the middle of an instruction.                                        *)
Consistent ==
  /\ imeDelay => imePending
  /\ mIsHalted => mCurState = 0

(* What carries the action properties below: DELAY is only ever set right  *)
(* after an EI, an EI that does not follow another one always sets it, and *)
(* IME is off when the service routine is entered.                         *)
ImeInv ==
  /\ imeDelay => event = "retire" /\ mCurOpcode = "EI" /\ mCurState = 0
  /\ event = "retire" /\ mCurOpcode = "EI" /\ ~afterEi => imeDelay
  /\ event = "step" <=> mCurState # 0
  /\ event = "dispatch" => ~mEnabled

(* The microsteps of every instruction add up to the duration the opcode   *)
(* table gives it (tools/opcodes.json), so the devices, which are driven   *)
(* by the value tick returns, see each instruction take its time.          *)
DurationExact == event = "retire" => spent = DocCycles[mCurOpcode]

(* EI takes effect one instruction late: when an EI that follows another   *)
(* instruction completes with IME off, the next tick never dispatches.     *)
EiShadow ==
  [][/\ event = "retire" /\ mCurOpcode = "EI" /\ ~afterEi
     /\ ~mEnabled
     => event' # "dispatch"]_vars

(* A dispatch never lands inside an instruction, and an instruction never  *)
(* starts at a boundary where an enabled interrupt is waiting.             *)
BoundaryDecision ==
  [][/\ event' = "dispatch" => event # "step"
     /\ mEnabled /\ Serviceable # {} /\ event # "step" /\ Tick
        => event' = "dispatch"]_vars

(* Only dispatch acknowledges a request, and only the one of highest       *)
(* priority; any other flag that disappears was written by an instruction. *)
RequestsKept ==
  [][\A t \in mIF \ mIF' :
       hit' = "IF" \/ (event' = "dispatch" /\ \A u \in Serviceable : t <= u)]_vars

(* Two dispatches in a row are possible only through an EI executed while  *)
(* IME was already set: its request outlives the first dispatch.           *)
NestedEntryNeedsEi ==
  [][event = "dispatch" /\ event' = "dispatch" /\ Tick => EnableDue]_vars

(* A halted CPU with any pending bit resumes, with IME set or not.         *)
HaltWakes == (mIsHalted /\ IsPending) ~> ~mIsHalted

(* Every EI eventually enables interrupts, unless an interrupt served or a *)
(* DI executed in the same tick turns them off again.                      *)
EiTakesEffect ==
  imePending ~> \/ mEnabled
                \/ event = "dispatch"
                \/ event = "retire" /\ mCurOpcode = "DI"

(* cpu.cpp:80-81: after switching to the handler "let the next tick began  *)
(* handling it", so the tick after a dispatch is not another dispatch.     *)
HandlerBeginsNext ==
  [][event = "dispatch" /\ Tick => event' # "dispatch"]_vars
=============================================================================
