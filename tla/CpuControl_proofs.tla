-------------------------- MODULE CpuControl_proofs --------------------------
(***************************************************************************)
(* Proofs about CpuControl, for every number of interrupt sources, every   *)
(* register width and every set of instruction families.                   *)
(***************************************************************************)
EXTENDS CpuControl, WellFoundedInduction, TLAPS

Steps == [cycles : Nat, bus : BusKinds]
WellFormed(s) == s \in Seq(Steps) /\ Len(s) \in Nat \ {0}

(* Every family has at least one microstep, and a microstep a duration.    *)
LEMMA ProgramLemma == \A op \in Families : WellFormed(Program[op])
<1>1. \A c \in Nat : Idle(c) \in Steps /\ Rd(c) \in Steps /\ Wr(c) \in Steps
  BY DEF Idle, Rd, Wr, Steps, BusKinds
<1>2. \A a \in Steps : WellFormed(<<a>>)
  BY DEF WellFormed
<1>3. \A a, b \in Steps : WellFormed(<<a, b>>)
  BY DEF WellFormed
<1>4. \A a, b, c \in Steps : WellFormed(<<a, b, c>>)
  BY DEF WellFormed
<1>5. \A a, b, c, d \in Steps : WellFormed(<<a, b, c, d>>)
  BY DEF WellFormed
<1>6. \A a, b, c, d, e \in Steps : WellFormed(<<a, b, c, d, e>>)
  BY DEF WellFormed
<1>7. /\ WellFormed(Load) /\ WellFormed(Store) /\ WellFormed(HighLoad)
      /\ WellFormed(HighStore) /\ WellFormed(FarLoad) /\ WellFormed(FarStore)
      /\ WellFormed(ExtTest) /\ WellFormed(AddSP)
  BY <1>1, <1>3 DEF Load, Store, HighLoad, HighStore, FarLoad, FarStore,
                    ExtTest, AddSP
<1>8. /\ WellFormed(CallFailed) /\ WellFormed(Modify) /\ WellFormed(ExtModify)
      /\ WellFormed(LoadHLSP)
  BY <1>1, <1>4 DEF CallFailed, Modify, ExtModify, LoadHLSP
<1>9. WellFormed(Ret) /\ WellFormed(RetTaken) /\ WellFormed(Jump)
  BY <1>1, <1>5 DEF Ret, RetTaken, Jump
<1>10. WellFormed(CallTaken)
  BY <1>1, <1>6 DEF CallTaken
<1>11. /\ WellFormed(<<Idle(4)>>) /\ WellFormed(<<Idle(8)>>)
       /\ WellFormed(<<Idle(12)>>) /\ WellFormed(<<Wr(16)>>)
       /\ WellFormed(<<Rd(12)>>) /\ WellFormed(<<Wr(20)>>)
  BY <1>1, <1>2
<1>12. Families =
         {"NOP", "EI", "DI", "HALT", "ALU", "IMM", "LD16", "PUSH", "POP",
          "LDa16SP", "JR", "JRnot", "JPnot", "RETnot", "RETI", "RET", "RETcc",
          "CALL", "CALLnot", "JP", "LDr", "STr", "LDH", "STH", "LDa16",
          "STa16", "STd8", "INCm", "CBm", "BITm", "ADDSP", "LDHLSP"}
  BY DEF Families, Program
<1>13. \A op \in Families :
         Program[op] \in {<<Idle(4)>>, <<Idle(8)>>, <<Idle(12)>>, <<Wr(16)>>,
                         <<Rd(12)>>, <<Wr(20)>>, Ret, RetTaken, CallTaken,
                         CallFailed, Jump, Load, Store, HighLoad, HighStore,
                         FarLoad, FarStore, Modify, ExtModify, ExtTest, AddSP,
                         LoadHLSP}
  BY <1>12 DEF Program
<1> QED
  BY <1>7, <1>8, <1>9, <1>10, <1>11, <1>13

IInv == TypeOK /\ Consistent /\ ImeInv

ProgramTyping ==
  \A op \in Ops : /\ Len(Program[op]) \in Nat \ {0}
                 /\ \A k \in 1 .. Len(Program[op]) : Program[op][k] \in Steps

(* The table of microsteps is a function from families to sequences.        *)
LEMMA ProgramTypingLemma == ProgramTyping
  BY ProgramLemma, OpsAssumption DEF ProgramTyping, WellFormed

(* A memory write leaves the interrupt registers well typed.               *)
LEMMA BusWriteType ==
  ASSUME NEW ie \in SUBSET Bits, NEW fl \in SUBSET Bits,
         BusWrite(ie, fl)
  PROVE  mIE' \in SUBSET Bits /\ mIF' \in SUBSET Bits /\ hit' \in {"none", "IE", "IF"}
  BY DEF BusWrite

(* A microstep of any handler preserves the invariant, when it is the one  *)
(* tick would run: the first of any family at a boundary, or the next one  *)
(* of the instruction under way.                                           *)
LEMMA HandlerPreserves ==
  ASSUME IInv, ~StillHalted,
         NEW op \in Ops, NEW k \in 1 .. Len(Program[op]),
         \/ AtBoundary /\ k = 1
         \/ ~AtBoundary /\ op = mCurOpcode /\ k = mCurState + 1,
         Handler(op, k)
  PROVE  IInv'
<1> USE DEF IInv
<1>1. Len(Program[op]) \in Nat \ {0} /\ Program[op][k] \in Steps
  BY ProgramTypingLemma DEF ProgramTyping
<1>2. mIE' \in SUBSET Bits /\ mIF' \in SUBSET Bits /\ hit' \in {"none", "IE", "IF"}
  BY BusWriteType DEF Handler, NoWrite, TypeOK, IcTypeOK
<1>3. mEnabled' \in BOOLEAN
  BY DEF Handler, ImeAfter, ImeNow, EnableDue, AtBoundary, TypeOK, IcTypeOK
<1>4. imePending' \in BOOLEAN /\ imeDelay' \in BOOLEAN /\ mIsHalted' \in BOOLEAN
  BY DEF Handler, PendingNow, DelayNow, EiArms, HaltAfter, EnableDue, TypeOK
<1>5. /\ mCurOpcode' = op
      /\ mCurState' = IF k = Len(Program[op]) THEN 0 ELSE k
      /\ event' = IF k = Len(Program[op]) THEN "retire" ELSE "step"
      /\ imePending' = (PendingNow \/ EiArms(op))
      /\ imeDelay' = (DelayNow \/ EiArms(op))
      /\ mIsHalted' = (op = "HALT")
      /\ afterEi' = IF k = 1 THEN event # "reset" /\ mCurOpcode = "EI" ELSE afterEi
      /\ spent' = Capped((IF k = 1 THEN 0 ELSE spent) + Program[op][k].cycles)
  BY DEF Handler, StateAfter, HaltAfter
<1>6. mCurState' \in 0 .. Len(Program[op]) - 1 /\ (event' = "step" <=> mCurState' # 0)
  BY <1>1, <1>5
<1>7. afterEi' \in BOOLEAN /\ spent' \in Nat
  <2>1. afterEi' \in BOOLEAN
    BY <1>5, Zenon DEF TypeOK
  <2>2. Program[op][k].cycles \in Nat
    BY <1>1 DEF Steps
  <2> QED
    BY <1>5, <2>1, <2>2 DEF TypeOK, Capped, SpentBound
<1>8. TypeOK'
  BY <1>2, <1>3, <1>4, <1>5, <1>6, <1>7 DEF TypeOK, IcTypeOK, Events
<1>9. Len(Program["EI"]) = 1 /\ Len(Program["HALT"]) = 1
  BY DEF Program, Idle
<1>10. (op = "EI" => k = 1) /\ (op = "HALT" => k = 1)
  <2>1. Len(Program[op]) = 1 => k = 1
    BY <1>1
  <2>2. op = "EI" => Len(Program[op]) = 1
    BY <1>9
  <2>3. op = "HALT" => Len(Program[op]) = 1
    BY <1>9
  <2> QED
    BY <2>1, <2>2, <2>3
<1>11. Consistent'
  BY <1>5, <1>9, <1>10 DEF Consistent, DelayNow, PendingNow, EnableDue, EiArms
<1>12. imeDelay' => op = "EI"
  BY <1>5 DEF DelayNow, EiArms, Consistent, ImeInv, AtBoundary
<1>13. ASSUME op = "EI", ~afterEi' PROVE imeDelay'
  <2>1. AtBoundary \/ mCurState = 0
    BY <1>10, <1>13 DEF TypeOK
  <2>2. ~(event # "reset" /\ mCurOpcode = "EI")
    BY <1>5, <1>10, <1>13
  <2>3. ~imeDelay
    BY <2>2 DEF ImeInv
  <2>4. ~PendingNow
    BY <2>1, <2>3 DEF PendingNow, EnableDue, AtBoundary
  <2> QED
    BY <1>5, <1>13, <2>4 DEF EiArms
<1>14. ImeInv'
  BY <1>5, <1>6, <1>9, <1>10, <1>12, <1>13 DEF ImeInv
<1> QED
  BY <1>8, <1>11, <1>14

(* The state after the constructor satisfies the invariant.                 *)
LEMMA InitInv == Init => IInv
<1> SUFFICES ASSUME Init PROVE IInv
  OBVIOUS
<1>1. mCurState \in 0 .. Len(Program[mCurOpcode]) - 1
  <2>1. mCurState = 0 /\ mCurOpcode \in Ops
    BY DEF Init
  <2>2. Len(Program[mCurOpcode]) \in Nat \ {0}
    BY <2>1, ProgramTypingLemma DEF ProgramTyping
  <2> QED
    BY <2>1, <2>2
<1>2. TypeOK
  BY <1>1 DEF Init, IcInit, TypeOK, IcTypeOK, Events
<1> QED
  BY <1>2 DEF Init, IInv, Consistent, ImeInv

(* Each of the actions of the CPU and of the devices preserves it.          *)
LEMMA NextInv == IInv /\ [Next]_vars => IInv'
<1> SUFFICES ASSUME IInv, [Next]_vars PROVE IInv'
  OBVIOUS
<1>1. CASE Dispatch
  <2>1. mIE' \in SUBSET Bits /\ mIF' \in SUBSET Bits /\ hit' \in {"none", "IE", "IF"}
    BY <1>1, BusWriteType DEF Dispatch, ClearInterrupt, IInv, TypeOK, IcTypeOK
  <2>2. mCurState' = 0 /\ mCurState = 0
    BY <1>1 DEF Dispatch, Dispatchable, AtBoundary
  <2>3. TypeOK'
    BY <1>1, <2>1 DEF Dispatch, ImeServed, PendingNow, DelayNow, EnableDue,
                      IInv, TypeOK, IcTypeOK, Events
  <2>4. Consistent' /\ ImeInv'
    BY <1>1, <2>2 DEF Dispatch, ImeServed, DelayNow, PendingNow, EnableDue, AtBoundary,
                      IInv, Consistent, ImeInv, TypeOK
  <2> QED
    BY <2>3, <2>4 DEF IInv
<1>2. CASE HaltedTick
  <2>1. mCurState = 0
    BY <1>2 DEF HaltedTick, StillHalted, IInv, Consistent
  <2>2. TypeOK'
    BY <1>2 DEF HaltedTick, NoWrite, ImeNow, PendingNow, DelayNow, EnableDue,
                AtBoundary, IInv, TypeOK, IcTypeOK, Events
  <2>3. Consistent' /\ ImeInv'
    BY <1>2, <2>1 DEF HaltedTick, DelayNow, PendingNow, EnableDue, AtBoundary,
                      IInv, Consistent, ImeInv, TypeOK
  <2> QED
    BY <2>2, <2>3 DEF IInv
<1>3. CASE Fetch
  <2>1. PICK op \in Ops : Handler(op, 1)
    BY <1>3 DEF Fetch
  <2>2. 1 \in 1 .. Len(Program[op])
    BY ProgramTypingLemma DEF ProgramTyping
  <2> QED
    BY <1>3, <2>1, <2>2, HandlerPreserves DEF Fetch
<1>4. CASE Resume
  <2>1. mCurOpcode \in Ops /\ mCurState + 1 \in 1 .. Len(Program[mCurOpcode])
    BY <1>4, ProgramTypingLemma DEF Resume, IInv, TypeOK, ProgramTyping
  <2> QED
    BY <1>4, <2>1, HandlerPreserves DEF Resume
<1>5. CASE DeviceTick
  <2>1. Irqs \subseteq Bits
    BY NumIrqsAssumption, NumBitsAssumption DEF Irqs, Bits
  <2>2. mIF' \in SUBSET Bits
    BY <1>5, <2>1 DEF DeviceTick, RequestInterrupt, IInv, TypeOK, IcTypeOK
  <2> QED
    BY <1>5, <2>2 DEF DeviceTick, cpuVars, history, IInv, TypeOK, IcTypeOK,
                      Consistent, ImeInv
<1>6. CASE UNCHANGED vars
  BY <1>6 DEF vars, icVars, cpuVars, history, IInv, TypeOK, IcTypeOK,
              Consistent, ImeInv
<1> QED
  BY <1>1, <1>2, <1>3, <1>4, <1>5, <1>6 DEF Next, Tick

(* A nonempty set of interrupts has a lowest one, so getPending finds it.  *)
LEMMA LowestFound ==
  ASSUME NEW ime, ime, Serviceable # {}
  PROVE  /\ GetPending(ime) \in Serviceable
         /\ \A u \in Serviceable : GetPending(ime) <= u
         /\ GetPending(ime) # itNone
<1>1. Serviceable \subseteq Nat /\ itNone \notin Serviceable
  BY NumIrqsAssumption DEF Serviceable, Irqs, itNone
<1>2. PICK t \in Serviceable : \A u \in Serviceable : <<u, t>> \notin OpToRel(<, Nat)
  BY <1>1, WFMin, NatLessThanWellFounded
<1>3. \A u \in Serviceable : ~(u < t)
  BY <1>1, <1>2, Zenon DEF OpToRel
<1>4. \A u \in Serviceable : t <= u
  BY <1>1, <1>3
<1> QED
  BY <1>1, <1>4 DEF GetPending

(* What getPending returns is the serviceable interrupt of highest priority. *)
LEMMA GetPendingLowest ==
  ASSUME NEW ime, GetPending(ime) # itNone
  PROVE  /\ ime
         /\ GetPending(ime) \in Serviceable
         /\ \A u \in Serviceable : GetPending(ime) <= u
<1>1. ime /\ Serviceable # {}
  BY DEF GetPending
<1> QED
  BY <1>1, LowestFound

(* The types, the consistency of the flags with the microstep counter, and *)
(* the invariant behind the EI delay hold in every reachable state.        *)
THEOREM Invariance == Spec => [](TypeOK /\ Consistent /\ ImeInv)
<1>1. Init => IInv
  BY InitInv
<1>2. IInv /\ [Next]_vars => IInv'
  BY NextInv
<1> QED
  BY <1>1, <1>2, PTL DEF Spec, IInv

(* EI takes effect one instruction late, whatever the program and the      *)
(* devices do.                                                             *)
THEOREM EiShadowHolds == Spec => EiShadow
<1>1. IInv /\ [Next]_vars =>
        [/\ event = "retire" /\ mCurOpcode = "EI" /\ ~afterEi
         /\ ~mEnabled
         => event' # "dispatch"]_vars
  <2> SUFFICES ASSUME IInv, [Next]_vars, event = "retire", mCurOpcode = "EI",
                      ~afterEi, ~mEnabled, event' = "dispatch"
               PROVE  FALSE
    OBVIOUS
  <2>1. ~ImeNow
    BY DEF IInv, ImeInv, ImeNow, EnableDue
  <2>2. ~Dispatchable
    BY <2>1, GetPendingLowest DEF Dispatchable
  <2>3. ~Dispatch /\ ~HaltedTick /\ ~DeviceTick
    BY <2>2 DEF Dispatch, HaltedTick, DeviceTick, history
  <2>4. ~Fetch /\ ~Resume
    BY DEF Fetch, Resume, Handler
  <2> QED
    BY <2>3, <2>4 DEF Next, Tick, vars, history
<1> QED
  BY <1>1, InitInv, NextInv, PTL DEF Spec, EiShadow

(* Only an EI executed with IME set lets two dispatches follow each other. *)
THEOREM NestedEntryHolds == Spec => NestedEntryNeedsEi
<1>1. IInv /\ [Next]_vars =>
        [event = "dispatch" /\ event' = "dispatch" /\ Tick => EnableDue]_vars
  <2> SUFFICES ASSUME IInv, event = "dispatch", event' = "dispatch", Tick
               PROVE  EnableDue
    OBVIOUS
  <2>1. Dispatch
    BY DEF Tick, HaltedTick, Fetch, Resume, Handler
  <2>2. ImeNow
    BY <2>1, GetPendingLowest DEF Dispatch, Dispatchable
  <2> QED
    BY <2>2 DEF ImeNow, IInv, ImeInv
<1> QED
  BY <1>1, InitInv, NextInv, PTL DEF Spec, NestedEntryNeedsEi

(* Requests survive everything but their own dispatch and a write to IF.   *)
THEOREM RequestsKeptHolds == Spec => RequestsKept
<1>1. [Next]_vars =>
        [\A t \in mIF \ mIF' :
           hit' = "IF" \/ (event' = "dispatch" /\ \A u \in Serviceable : t <= u)]_vars
  <2> SUFFICES ASSUME Next, NEW t \in mIF \ mIF', hit' # "IF"
               PROVE  event' = "dispatch" /\ \A u \in Serviceable : t <= u
    OBVIOUS
  <2>1. CASE Dispatch
    <3>1. mIF' = mIF \ {GetPending(ImeNow)}
      BY <2>1 DEF Dispatch, BusWrite, ClearInterrupt
    <3> QED
      BY <2>1, <3>1, GetPendingLowest DEF Dispatch, Dispatchable
  <2>2. CASE HaltedTick
    BY <2>2 DEF HaltedTick, NoWrite
  <2>3. CASE Fetch \/ Resume
    BY <2>3 DEF Fetch, Resume, Handler, BusWrite, NoWrite
  <2>4. CASE DeviceTick
    BY <2>4 DEF DeviceTick, RequestInterrupt
  <2> QED
    BY <2>1, <2>2, <2>3, <2>4 DEF Next, Tick
<1> QED
  BY <1>1, PTL DEF Spec, RequestsKept

(* Dispatch happens exactly between instructions, and is never put off.    *)
THEOREM BoundaryDecisionHolds == Spec => BoundaryDecision
<1>1. IInv /\ [Next]_vars =>
        [/\ event' = "dispatch" => event # "step"
         /\ mEnabled /\ Serviceable # {} /\ event # "step" /\ Tick
            => event' = "dispatch"]_vars
  <2> SUFFICES ASSUME IInv, Next
               PROVE  /\ event' = "dispatch" => event # "step"
                      /\ mEnabled /\ Serviceable # {} /\ event # "step" /\ Tick
                         => event' = "dispatch"
    OBVIOUS
  <2>1. ASSUME event' = "dispatch" PROVE event # "step"
    <3>1. Dispatch \/ DeviceTick
      BY <2>1 DEF Next, Tick, HaltedTick, Fetch, Resume, Handler
    <3>2. Dispatch => AtBoundary
      BY DEF Dispatch, Dispatchable
    <3> QED
      BY <2>1, <3>1, <3>2 DEF DeviceTick, history, AtBoundary, IInv, ImeInv
  <2>2. ASSUME mEnabled, Serviceable # {}, event # "step", Tick
        PROVE  event' = "dispatch"
    <3>1. ImeNow /\ AtBoundary /\ IsPending
      BY <2>2 DEF ImeNow, AtBoundary, IsPending, Serviceable, IInv, ImeInv
    <3>2. GetPending(ImeNow) # itNone
      BY <2>2, <3>1, LowestFound
    <3>3. Dispatch
      BY <2>2, <3>1, <3>2 DEF Tick, HaltedTick, Fetch, Resume, Dispatchable
    <3> QED
      BY <3>3 DEF Dispatch
  <2> QED
    BY <2>1, <2>2
<1> QED
  BY <1>1, InitInv, NextInv, PTL DEF Spec, BoundaryDecision
-----------------------------------------------------------------------------
(* Durations.  The cycles of microstep i of an instruction, 0 behind its   *)
(* last one, and what is left of it after microstep k; none has more than  *)
(* five microsteps.                                                        *)
Cost(s, i) == IF i \in 1 .. Len(s) THEN s[i].cycles ELSE 0
Left(s, k) == Cost(s, k + 1) + Cost(s, k + 2) + Cost(s, k + 3) + Cost(s, k + 4)

Fits(s, d) ==
  /\ s \in Seq(Steps) /\ Len(s) \in 1 .. 5
  /\ Cost(s, 1) + Left(s, 1) = d
  /\ d \in 0 .. SpentBound

(* The microsteps of every family add up to its entry in the opcode table. *)
LEMMA TableFits == \A op \in Families : Fits(Program[op], DocCycles[op])
<1> USE DEF Fits, Left, Cost, Steps, BusKinds, Idle, Rd, Wr, SpentBound
<1>1. /\ Fits(<<Idle(4)>>, 4) /\ Fits(<<Idle(8)>>, 8) /\ Fits(<<Idle(12)>>, 12)
      /\ Fits(<<Wr(16)>>, 16) /\ Fits(<<Rd(12)>>, 12) /\ Fits(<<Wr(20)>>, 20)
  OBVIOUS
<1>2. Fits(Load, 8) /\ Fits(Store, 8) /\ Fits(HighLoad, 12) /\ Fits(HighStore, 12)
  BY DEF Load, Store, HighLoad, HighStore
<1>3. Fits(FarLoad, 16) /\ Fits(FarStore, 16) /\ Fits(ExtTest, 12) /\ Fits(AddSP, 16)
  BY DEF FarLoad, FarStore, ExtTest, AddSP
<1>4. Fits(CallFailed, 12) /\ Fits(Modify, 12) /\ Fits(ExtModify, 16) /\ Fits(LoadHLSP, 12)
  BY DEF CallFailed, Modify, ExtModify, LoadHLSP
<1>5. Fits(Ret, 16) /\ Fits(RetTaken, 20) /\ Fits(Jump, 16) /\ Fits(CallTaken, 24)
  BY DEF Ret, RetTaken, Jump, CallTaken
<1> HIDE DEF Fits, Idle, Rd, Wr
<1> QED
  BY <1>1, <1>2, <1>3, <1>4, <1>5 DEF Families, Program, DocCycles

(* A microstep takes its own cycles of what was left; the last one all.    *)
LEMMA LeftStep ==
  ASSUME NEW s \in Seq(Steps), NEW d, Fits(s, d),
         NEW n \in 1 .. 5, n = Len(s), NEW k \in 1 .. n
  PROVE  /\ s[k].cycles \in Nat /\ Left(s, k) \in Nat /\ d \in Nat /\ d <= SpentBound
         /\ k = 1 => s[k].cycles + Left(s, k) = d
         /\ k # 1 => Left(s, k - 1) = s[k].cycles + Left(s, k)
         /\ k = n => Left(s, k) = 0
<1>1. \A i \in 1 .. n : s[i].cycles \in Nat
  <2>1. \A i \in 1 .. n : s[i] \in Steps
    OBVIOUS
  <2>2. \A e \in Steps : e.cycles \in Nat
    BY DEF Steps
  <2> QED
    BY <2>1, <2>2
<1>2. \A i \in Int : Cost(s, i) \in Nat /\ (i > n => Cost(s, i) = 0)
  BY <1>1 DEF Cost
<1>3. s[k].cycles = Cost(s, k)
  BY DEF Cost
<1>4. Left(s, k) = Cost(s, k + 1) + Cost(s, k + 2) + Cost(s, k + 3) + Cost(s, k + 4)
  BY DEF Left
<1>5. k # 1 => Left(s, k - 1) = Cost(s, k) + Cost(s, k + 1) + Cost(s, k + 2) + Cost(s, k + 3)
  <2>1. Left(s, k - 1) =
          Cost(s, (k - 1) + 1) + Cost(s, (k - 1) + 2) + Cost(s, (k - 1) + 3) + Cost(s, (k - 1) + 4)
    BY DEF Left
  <2>2. (k - 1) + 1 = k /\ (k - 1) + 2 = k + 1 /\ (k - 1) + 3 = k + 2 /\ (k - 1) + 4 = k + 3
    OBVIOUS
  <2> QED
    BY <2>1, <2>2
<1>6. k # 1 => Cost(s, k + 4) = 0
  <2>1. k # 1 => k + 4 > n /\ k + 4 \in Int
    BY SMTT(30)
  <2> QED
    BY <1>2, <2>1
<1>7. Cost(s, k) \in Nat /\ Cost(s, k + 1) \in Nat /\ Cost(s, k + 2) \in Nat
      /\ Cost(s, k + 3) \in Nat /\ Cost(s, k + 4) \in Nat
  BY <1>2, SMTT(30)
<1>8. k = 1 => Cost(s, k) + Left(s, k) = d
  BY DEF Fits
<1>9. d \in Nat /\ d <= SpentBound
  BY DEF Fits, SpentBound
<1>10. k = n => Left(s, k) = 0
  <2>1. \A i \in 1 .. 4 : k = n => k + i \in Int /\ k + i > n
    OBVIOUS
  <2>2. k = n => /\ Cost(s, k + 1) = 0 /\ Cost(s, k + 2) = 0
                 /\ Cost(s, k + 3) = 0 /\ Cost(s, k + 4) = 0
    BY <1>2, <2>1
  <2> QED
    BY <1>4, <2>2
<1>11. Left(s, k) \in Nat
  BY <1>4, <1>7
<1>12. k # 1 => Left(s, k - 1) = Cost(s, k) + Left(s, k)
  BY <1>4, <1>5, <1>6, <1>7, SMTT(30)
<1> QED
  BY <1>3, <1>7, <1>8, <1>9, <1>10, <1>11, <1>12

(* In the middle of an instruction, the time spent and the time left make  *)
(* its duration.                                                           *)
OnTime ==
  /\ DurationExact
  /\ event = "step" => spent + Left(Program[mCurOpcode], mCurState) = DocCycles[mCurOpcode]

(* A microstep keeps the account, the first and the last one included.     *)
LEMMA HandlerOnTime ==
  ASSUME IInv, OnTime, NEW op \in Ops, NEW k \in 1 .. Len(Program[op]),
         k = 1 \/ (event = "step" /\ op = mCurOpcode /\ k = mCurState + 1),
         Handler(op, k)
  PROVE  OnTime'
<1> DEFINE s == Program[op]
           d == DocCycles[op]
           c == s[k].cycles
           before == IF k = 1 THEN 0 ELSE spent
<1>1. Fits(s, d)
  BY TableFits, OpsAssumption
<1>2. /\ c \in Nat /\ Left(s, k) \in Nat /\ d \in Nat /\ d <= SpentBound
      /\ k = 1 => c + Left(s, k) = d
      /\ k # 1 => Left(s, k - 1) = c + Left(s, k)
      /\ k = Len(s) => Left(s, k) = 0
  <2>1. s \in Seq(Steps) /\ Len(s) \in 1 .. 5
    BY <1>1 DEF Fits
  <2> QED
    BY <1>1, <2>1, LeftStep, ZenonT(60)
<1>3. /\ mCurOpcode' = op
      /\ mCurState' = IF k = Len(s) THEN 0 ELSE k
      /\ event' = IF k = Len(s) THEN "retire" ELSE "step"
      /\ spent' = Capped(before + c)
  BY DEF Handler, StateAfter
<1>4. before + c + Left(s, k) = d /\ before \in Nat
  <2>1. CASE k = 1
    BY <1>2, <2>1
  <2>2. CASE k # 1
    <3>1. event = "step" /\ op = mCurOpcode /\ k - 1 = mCurState /\ spent \in Nat
      BY <2>2 DEF IInv, TypeOK
    <3>2. spent + Left(s, k - 1) = d
      BY <3>1 DEF OnTime
    <3> QED
      BY <1>2, <2>2, <3>1, <3>2
  <2> QED
    BY <2>1, <2>2
<1>5. before + c <= SpentBound /\ before + c \in Nat
  BY <1>2, <1>4, SMTT(30) DEF SpentBound
<1>6. spent' = before + c
  BY <1>3, <1>5 DEF Capped, SpentBound
<1>7. CASE k = Len(s)
  <2>1. spent' = d
    BY <1>2, <1>4, <1>5, <1>6, <1>7
  <2>2. event' = "retire" /\ mCurOpcode' = op
    BY <1>3, <1>7
  <2> QED
    BY <2>1, <2>2 DEF OnTime, DurationExact
<1>8. CASE k # Len(s)
  <2>1. spent' + Left(s, k) = d
    BY <1>4, <1>6
  <2>2. event' = "step" /\ mCurOpcode' = op /\ mCurState' = k
    BY <1>3, <1>8
  <2> QED
    BY <2>1, <2>2 DEF OnTime, DurationExact
<1> QED
  BY <1>7, <1>8

(* Every instruction takes the time the opcode table gives it, whatever    *)
(* interrupts, HALT and the devices do between and inside instructions.    *)
THEOREM DurationExactHolds == Spec => []DurationExact
<1>1. Init => OnTime
  BY DEF Init, OnTime, DurationExact
<1>2. IInv /\ OnTime /\ [Next]_vars => OnTime'
  <2> SUFFICES ASSUME IInv, OnTime, [Next]_vars PROVE OnTime'
    OBVIOUS
  <2>1. CASE Dispatch
    BY <2>1 DEF Dispatch, OnTime, DurationExact
  <2>2. CASE HaltedTick
    BY <2>2 DEF HaltedTick, OnTime, DurationExact
  <2>3. CASE Fetch
    <3>1. PICK op \in Ops : Handler(op, 1)
      BY <2>3 DEF Fetch
    <3>2. 1 \in 1 .. Len(Program[op])
      BY ProgramTypingLemma DEF ProgramTyping
    <3> QED
      BY <3>1, <3>2, HandlerOnTime
  <2>4. CASE Resume
    <3>1. mCurOpcode \in Ops /\ mCurState + 1 \in 1 .. Len(Program[mCurOpcode])
      BY <2>4, ProgramTypingLemma DEF Resume, IInv, TypeOK, ProgramTyping
    <3>2. event = "step"
      BY <2>4 DEF Resume, AtBoundary, IInv, ImeInv
    <3> QED
      BY <2>4, <3>1, <3>2, HandlerOnTime DEF Resume
  <2>5. CASE UNCHANGED <<cpuVars, history>>
    BY <2>5 DEF cpuVars, history, OnTime, DurationExact
  <2> QED
    BY <2>1, <2>2, <2>3, <2>4, <2>5 DEF Next, Tick, DeviceTick, vars
<1>3. OnTime => DurationExact
  BY DEF OnTime
<1> QED
  BY <1>1, <1>2, <1>3, InitInv, NextInv, PTL DEF Spec

=============================================================================
